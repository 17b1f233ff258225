--------------------------- MODULE RolloutProofs ---------------------------
(***************************************************************************)
(* What the V1 training run guarantees for any number of environments, any *)
(* rollout length, episode length, interval and number of updates, and     *)
(* whatever fails: what is trained is what was played, what is published   *)
(* is what it says, the driver raises only if something else has failed,   *)
(* and it then leaves behind only the batch it was starting.               *)
(*                                                                         *)
(* The driver is one sequential program, so its place in the time step     *)
(* fixes everything else: how many draws and samples there are, who plays  *)
(* and through which descriptors, and what each environment awaits.  That  *)
(* is the invariant; the rest is what a sample adds to a rollout and a     *)
(* rollout to the training.                                                *)
(***************************************************************************)
EXTENDS Rollout, FiniteSetTheorems, TLAPS

-----------------------------------------------------------------------------
(* Numbers.                                                                *)

LEMMA Sizes ==
  /\ Envs \in Nat /\ Envs >= 1 /\ Length \in Nat /\ Length >= 1 /\ Updates \in Nat /\ Updates >= 1
  /\ Interval \in Nat /\ Interval >= 1 /\ Longest \in Nat /\ Longest >= 1
  /\ Templates \in Nat /\ Templates >= 1
BY RolloutAssumption

\* Every set of numbers that is not empty has a least one.
LEMMA Smallest ==
  ASSUME NEW T \in SUBSET Nat, T # {}
  PROVE  \E x \in T : \A y \in T : x <= y
<1>1. PICK B : B = {0 .. x - 1 : x \in T}
  OBVIOUS
<1>2. B \subseteq FiniteSubsetsOf(Nat)
  <2> SUFFICES ASSUME NEW x \in T PROVE IsFiniteSet(0 .. x - 1) /\ 0 .. x - 1 \subseteq Nat
    BY <1>1 DEF FiniteSubsetsOf
  <2> QED BY FS_Interval
<1>3. PICK b \in B : \A c \in B : ~(<<c, b>> \in StrictSubsetOrdering(Nat))
  <2>1. IsWellFoundedOn(StrictSubsetOrdering(Nat), FiniteSubsetsOf(Nat))
    BY FS_StrictSubsetOrderingWellFounded
  <2>2. B # {}
    BY <1>1
  <2> QED BY <1>2, <2>1, <2>2, WFMin, Zenon
<1>4. PICK x \in T : b = 0 .. x - 1
  BY <1>1, <1>3
<1>5. ASSUME NEW y \in T, y < x PROVE FALSE
  <2>1. 0 .. y - 1 \in B
    BY <1>1
  <2>2. 0 .. y - 1 \subseteq Nat /\ 0 .. x - 1 \subseteq Nat /\ 0 .. y - 1 \subseteq 0 .. x - 1
    BY <1>5
  <2>3. y \in 0 .. x - 1 /\ y \notin 0 .. y - 1
    BY <1>5
  <2>4. <<0 .. y - 1, 0 .. x - 1>> \in StrictSubsetOrdering(Nat)
    BY <2>2, <2>3 DEF StrictSubsetOrdering
  <2> QED BY <1>3, <1>4, <2>1, <2>4
<1> QED BY <1>5

LEMMA Largest ==
  ASSUME NEW n \in Nat, NEW T \in SUBSET (0 .. n), T # {}
  PROVE  \E x \in T : \A y \in T : y <= x
<1>1. PICK D : D = {n - x : x \in T}
  OBVIOUS
<1>2. \A x \in T : x \in 0 .. n /\ n - x \in D
  BY <1>1
<1>3. D \subseteq Nat
  BY <1>1, <1>2
<1>4. D # {}
  BY <1>2
<1>5. PICK m \in D : \A k \in D : m <= k
  BY <1>3, <1>4, Smallest
<1>6. PICK x \in T : m = n - x
  BY <1>1, <1>5
<1>7. ASSUME NEW y \in T PROVE y <= x
  <2>1. n - x <= n - y
    BY <1>2, <1>5, <1>6
  <2> QED BY <1>2, <2>1
<1> QED BY <1>7

LEMMA DivDef == ASSUME NEW u \in Nat, NEW d \in Nat \ {0}
  PROVE u \div d \in Nat /\ u % d \in 0 .. d - 1 /\ u = d * (u \div d) + (u % d)
OBVIOUS

-----------------------------------------------------------------------------
(* Where the samples lie.                                                  *)

LEMMA PositionStep ==
  ASSUME NEW t \in Nat \ {0}, NEW e \in Env
  PROVE  /\ Position(t, e) \in Nat \ {0}
         /\ Position(t + 1, e) = Position(t, e) + Envs
         /\ Position(t, e + 1) = Position(t, e) + 1
         /\ Position(t + 1, 1) = Position(t, Envs) + 1
         /\ Position(1, e) = e
         /\ Position(t, Envs) = t * Envs
<1>1. PICK p \in Nat : p = (t - 1) * Envs
  BY Sizes
<1>2. ((t + 1) - 1) * Envs = p + Envs /\ t * Envs = p + Envs /\ (1 - 1) * Envs = 0
  BY <1>1, Sizes
<1> QED BY <1>1, <1>2, Sizes DEF Position, Env

LEMMA PositionOrder ==
  ASSUME NEW t \in Nat \ {0}, NEW e \in Env, NEW s \in Nat \ {0}, NEW f \in Env
  PROVE  Position(t, e) <= Position(s, f) <=> t < s \/ (t = s /\ e <= f)
<1>1. PICK p \in Nat, q \in Nat : p = (t - 1) * Envs /\ q = (s - 1) * Envs
  BY Sizes
<1>2. t < s => p + Envs <= q
  BY <1>1, Sizes
<1>3. s < t => q + Envs <= p
  BY <1>1, Sizes
<1>4. t = s => p = q
  BY <1>1
<1>5. Position(t, e) = p + e /\ Position(s, f) = q + f
  BY <1>1 DEF Position
<1> QED BY <1>2, <1>3, <1>4, <1>5, Sizes DEF Env

LEMMA PositionUnique ==
  ASSUME NEW t \in Nat \ {0}, NEW e \in Env, NEW s \in Nat \ {0}, NEW f \in Env, Position(t, e) = Position(s, f)
  PROVE  t = s /\ e = f
<1>1. Position(t, e) <= Position(s, f) /\ Position(s, f) <= Position(t, e)
  BY PositionStep
<1> QED BY <1>1, PositionOrder DEF Env

LEMMA PositionOf ==
  ASSUME NEW n \in Nat \ {0}
  PROVE  \E t \in Nat \ {0}, e \in Env : n = Position(t, e)
<1>1. n - 1 \in Nat /\ Envs \in Nat \ {0}
  BY Sizes
<1>2. PICK q \in Nat : \E r \in 0 .. Envs - 1 : n - 1 = Envs * q + r
  BY <1>1, DivDef
<1>3. PICK r \in 0 .. Envs - 1 : n - 1 = Envs * q + r
  BY <1>2
<1>4. q + 1 \in Nat \ {0} /\ r + 1 \in Env
  BY <1>3, Sizes DEF Env
<1>5. PICK p \in Nat : p = Envs * q /\ ((q + 1) - 1) * Envs = p
  BY Sizes
<1>6. Position(q + 1, r + 1) = n
  BY <1>3, <1>5 DEF Position
<1> QED BY <1>4, <1>6

LEMMA PositionWithin ==
  ASSUME NEW n \in 1 .. Length * Envs
  PROVE  \E t \in 1 .. Length, e \in Env : n = Position(t, e)
<1>1. PICK t \in Nat \ {0} : \E e \in Env : n = Position(t, e)
  BY PositionOf, Sizes
<1>2. PICK e \in Env : n = Position(t, e)
  BY <1>1
<1>3. Position(Length, Envs) = Length * Envs /\ Envs \in Env /\ Length \in Nat \ {0}
  BY PositionStep, Sizes DEF Env
<1>4. Position(t, e) <= Position(Length, Envs)
  BY <1>2, <1>3
<1>5. t <= Length
  BY <1>3, <1>4, PositionOrder
<1> QED BY <1>2, <1>5, Sizes

LEMMA PositionInside ==
  ASSUME NEW t \in 1 .. Length, NEW e \in Env
  PROVE  Position(t, e) \in 1 .. Length * Envs
<1>1. Position(Length, Envs) = Length * Envs /\ Envs \in Env /\ Length \in Nat \ {0} /\ t \in Nat \ {0} /\ e <= Envs
  BY PositionStep, Sizes DEF Env
<1>2. Position(t, e) <= Position(Length, Envs)
  BY <1>1, PositionOrder, Sizes
<1> QED BY <1>1, <1>2, PositionStep, Sizes
-----------------------------------------------------------------------------
(* The invariant.                                                          *)

Loop == {"act", "step", "predict", "record", "replace", "assign", "update"}
Evaluating == {"e_start", "e_play", "e_close"}
Ending == {"stop", "close", "select"}
Places == Loop \cup Evaluating \cup Ending \cup
            {"start", "t_start", "checkpoint", "reloaded", "completed", "failed", "over"}

\* The driver goes on; it has not trained yet; it evaluates and saves an update;
\* it has loaded the selected one.
InProgress == at \notin {"failed", "over"}
Before == at \in {"start", "t_start"} \/ (at \in Evaluating /\ phase = "random")
Examined == (at \in Evaluating /\ phase = "candidate") \/ at = "checkpoint"
Reloaded == (at \in Evaluating /\ phase = "reload") \/ at \in {"reloaded", "completed"}

Control ==
  /\ at \in Places /\ i \in Nat /\ time \in Nat /\ faulted \in BOOLEAN
  /\ at = "start" => phase = "none"
  /\ at \in Evaluating => phase \in {"random", "candidate", "reload"} /\ i \in 1 .. Templates
  /\ at = "t_start" => phase = "random" /\ i \in Env
  /\ at \in Loop \cup Ending => phase \in {"random", "candidate"}
  /\ at = "checkpoint" => phase = "candidate"
  /\ at \in {"reloaded", "completed"} => phase = "reload"
  /\ at \in {"step", "record", "replace"} => i \in Env
  /\ at \in Loop => time \in 1 .. Length
  /\ at = "update" => time = Length

\* A trainer, or a saved one, has taken whole updates.
WholeUpdates(trained, updates) ==
  /\ updates \in 0 .. Updates
  /\ \E S : trained \in Seq(S)
  /\ Len(trained) = updates

\* Every time step takes a draw, and every decision of it a place in the rollout.
Drawn ==
  /\ Before => trainer.draws = 0
  /\ at = "act" => trainer.draws = trainer.updates * Length + (time - 1)
  /\ at \in Loop \ {"act"} => trainer.draws = trainer.updates * Length + time
  /\ Examined \/ at \in Ending => trainer.draws = trainer.updates * Length

Recorded ==
  /\ Before => rollout = <<>>
  /\ at \in {"act", "step", "predict"} => Len(rollout) = Position(time, 1) - 1
  /\ at = "record" => Len(rollout) = Position(time, i) - 1
  /\ at = "replace" => Len(rollout) = Position(time, i)
  /\ at \in {"assign", "update"} => Len(rollout) = Position(time, Envs)

Counted ==
  /\ DOMAIN trainer = {"up", "updates", "draws", "trained", "torn"}
  /\ WholeUpdates(trainer.trained, trainer.updates) /\ (InProgress => ~trainer.torn) /\ trainer.draws \in Nat
  /\ \E S : rollout \in Seq(S)
  /\ Drawn /\ Recorded
  /\ Before => trainer.updates = 0
  /\ at \in Loop => trainer.updates < Updates
  /\ Examined => Due(trainer.updates) /\ trainer.updates # 0
  /\ at \in Ending => trainer.updates = Updates

\* What is published, and what the driver knows of it.
Saved(c) ==
  /\ c.update # 0 /\ WholeUpdates(c.trained, c.update) /\ ~c.torn /\ c.draws \in Nat
  /\ Due(c.update) /\ c.result = merit[c.update] /\ c.result # Unknown /\ c.parent \in 0 .. Updates
  /\ \A d \in disk : d.update < c.update => d.update <= c.parent
  /\ c.parent # 0 => \E d \in disk : d.update = c.parent

Merits == [score : 1 .. 2, eligible : BOOLEAN]

\* The driver's list and the directory agree as long as it goes on.
Known ==
  /\ \A c \in disk : c.update \in ToSet(candidates)
  /\ \A u \in ToSet(candidates) : \E c \in disk : c.update = u
  /\ candidates # <<>> => \A c \in disk : c.update <= Last(candidates)
  /\ ~Reloaded => \A c \in disk : c.update <= trainer.updates
  /\ Examined => \A c \in disk : c.update # trainer.updates
  /\ at = "checkpoint" => merit[trainer.updates] # Unknown
  /\ at \in Ending \/ Reloaded => candidates # <<>> /\ Last(candidates) = Updates
  /\ Reloaded => trainer.updates = Best(Pool)

Announced ==
  manifest # 0 =>
    /\ at \in {"completed", "over"}
    /\ \E c \in disk :
         /\ c.update = manifest
         /\ \A d \in disk : d.result.eligible => c.result.eligible /\ c.result.score >= d.result.score

Ledger ==
  /\ \A c \in disk : Saved(c)
  /\ merit \in [1 .. Updates -> Merits \cup {Unknown}]
  /\ candidates \in Seq(1 .. Updates)
  /\ InProgress => Known
  /\ Announced

\* Who plays: an environment's worker, or the one that replaces it.
Current(e) == IF fresh[e] = Nobody THEN env[e] ELSE fresh[e]
Staffed == {e \in Env : (InTrain \/ at = "t_start") /\ ~(at = "replace" /\ e = i)}
Seat(h) == [name |-> h.name, slot |-> h.slot]
Live == {Seat(Current(e)) : e \in Staffed} \cup {Seat(guest), Seat(Nobody)}

Handle(h) == DOMAIN h = {"name", "slot", "decision"} /\ h.decision \in Nat
TrainName(name, e) == name.episode \in Nat /\ name = EnvName(e, name.episode)

Seats ==
  /\ DOMAIN env = Env /\ DOMAIN fresh = Env /\ DOMAIN outcomes = Env
  /\ \A e \in Env : Handle(env[e]) /\ Handle(fresh[e])
  /\ InProgress =>
       /\ at \notin {"record", "replace", "assign"} => \A e \in Env : fresh[e] = Nobody
       /\ at \in {"record", "replace"} => \A e \in i .. Envs : fresh[e] = Nobody
       /\ \A e \in Env : fresh[e] # Nobody => TrainName(fresh[e].name, e)
       /\ IF at \in {"e_play", "e_close"} THEN guest.name = GuestName ELSE guest = Nobody
       /\ InTrain => \A e \in Env : TrainName(env[e].name, e)
       /\ Before /\ at # "t_start" => \A e \in Env : env[e] = Nobody
       /\ at = "t_start" => \A e \in Env : IF e < i THEN TrainName(env[e].name, e) ELSE env[e] = Nobody

\* Those who run are known, and a pipe reaches who it was opened for.
Manned ==
  /\ NoName \notin alive
  /\ InProgress => \A name \in alive : \E h \in Live : h.name = name

Piped ==
  /\ DOMAIN pipes = Slots
  /\ InProgress =>
       /\ \A h \in Live : h = Seat(Nobody) \/ (h.slot \in Slots /\ pipes[h.slot] = h.name)
       /\ \A s \in Slots : pipes[s] = NoName \/ \E h \in Live : h.slot = s /\ h.name = pipes[s]

\* Which run roots exist.
UsedRight(n) ==
  /\ n.env \in Nat /\ n.episode \in Nat
  /\ InProgress =>
       /\ phase # "none"
       /\ n.phase = "reload" => phase = "reload"
       /\ n.phase = "candidate" /\ phase # "reload" => n.episode <= trainer.updates
       /\ at \in Evaluating /\ n.phase = phase /\ n.episode = GuestName.episode =>
            n.env < i \/ (n.env = i /\ at # "e_start")
       /\ n.phase = "train" =>
            /\ at \notin {"start"} /\ ~(at \in Evaluating /\ phase = "random")
            /\ n.env \in Env /\ (at = "t_start" => n.env < i)
            /\ InTrain \/ at = "t_start" => n.episode <= Current(n.env).name.episode

Rooted == \A n \in used : UsedRight(n)

\* The workers' share of the rollout, decision by decision.
Upcoming(e) ==
  IF at = "replace" /\ e = i
  THEN [name |-> EnvName(i, env[i].name.episode + 1), slot |-> 0, decision |-> 0]
  ELSE Current(e)

Chosen(samples, u) ==
  \A t \in 1 .. Length, e \in Env : Position(t, e) <= Len(samples) =>
    LET sample == samples[Position(t, e)] IN
    /\ sample.policy = u /\ sample.draw = u * Length + t
    /\ TrainName(sample.name, e) /\ sample.decision \in Nat /\ sample.continuation \in BOOLEAN

Chained(samples) ==
  \A t \in 1 .. Length, e \in Env : t < Length /\ Position(t + 1, e) <= Len(samples) =>
    Follows(samples[Position(t + 1, e)], samples[Position(t, e)])

\* What comes after a sample is of its episode, or of a later one.
NotBefore(next, sample) ==
  /\ sample.name.episode <= next.name.episode
  /\ ~sample.continuation => sample.name.episode < next.name.episode

InEpisodes(samples) ==
  \A t \in 1 .. Length, later \in 1 .. Length, e \in Env : t < later /\ Position(later, e) <= Len(samples) =>
    NotBefore(samples[Position(later, e)], samples[Position(t, e)])

Linked(samples, trained) ==
  trained # <<>> =>
    \A e \in Env : Position(1, e) <= Len(samples) =>
      Follows(samples[Position(1, e)], trained[Len(trained)].samples[Position(Length, e)])

\* What an environment plays next follows on what it played last.
Awaits(next, samples, trained, e) ==
  /\ \A t \in 1 .. Length : Position(t, e) <= Len(samples) =>
       /\ NotBefore(next, samples[Position(t, e)])
       /\ t = Length \/ Position(t + 1, e) > Len(samples) => Follows(next, samples[Position(t, e)])
  /\ Position(1, e) > Len(samples) /\ trained # <<>> =>
       Follows(next, trained[Len(trained)].samples[Position(Length, e)])

Awaited == \A e \in Env : Awaits(Upcoming(e), rollout, trainer.trained, e)

\* A rollout is being made, or its policy examined.
Playing == InProgress /\ InTrain /\ at # "stop"

Rolling ==
  /\ Awaited
  /\ Examined => rollout = trainer.trained[trainer.updates].samples
  /\ at \in Loop => Chosen(rollout, trainer.updates) /\ Chained(rollout) /\ InEpisodes(rollout)
                     /\ Linked(rollout, trainer.trained)

Played ==
  /\ AsPlayed(trainer.trained)
  /\ \A c \in disk : AsPlayed(c.trained)
  /\ Playing => Rolling

IInv ==
  /\ Control /\ Counted /\ Ledger /\ Seats /\ Manned /\ Piped /\ Rooted /\ Played
  /\ NoErrorWithoutFault /\ OnlyTheBatchIsLeft
-----------------------------------------------------------------------------
(* The credits of a rollout: a recursion whose value a least counterexample *)
(* gives.                                                                   *)

Own(samples, n) == {m \in n .. Len(samples) : samples[m].name = samples[n].name}

IsCredit(c, samples) ==
  c = [n \in DOMAIN samples |->
         {n} \cup IF samples[n].continuation /\ n + Envs <= Len(samples) THEN c[n + Envs] ELSE {}]

LEMMA CreditChosen == ASSUME NEW samples PROVE Credit(samples) = CHOOSE c : IsCredit(c, samples)
BY DEF Credit, IsCredit

\* A whole rollout, as a policy played it.
Batch(samples, u) ==
  /\ \E S : samples \in Seq(S)
  /\ Len(samples) = Length * Envs
  /\ Chosen(samples, u) /\ Chained(samples) /\ InEpisodes(samples)

LEMMA OwnStep ==
  ASSUME NEW samples, NEW u, Batch(samples, u), NEW n \in DOMAIN samples
  PROVE  Own(samples, n) =
           {n} \cup IF samples[n].continuation /\ n + Envs <= Len(samples) THEN Own(samples, n + Envs) ELSE {}
<1>1. PICK L \in Nat : L = Length * Envs /\ L = Len(samples) /\ DOMAIN samples = 1 .. L
  <2>1. PICK S : samples \in Seq(S)
    BY DEF Batch
  <2> QED BY <2>1 DEF Batch
<1>2. PICK t \in 1 .. Length : \E e \in Env : n = Position(t, e)
  BY <1>1, PositionWithin
<1>3. PICK e \in Env : n = Position(t, e)
  BY <1>2
<1> t \in Nat \ {0} /\ Position(t + 1, e) = n + Envs
  BY <1>3, PositionStep
<1>4. ASSUME NEW m \in Own(samples, n), m # n
      PROVE  /\ samples[n].continuation /\ n + Envs <= L
             /\ m \in Own(samples, n + Envs)
  <2>1. m \in 1 .. Length * Envs /\ m > n /\ samples[m].name = samples[n].name
    BY <1>1, <1>4 DEF Own
  <2>2. PICK s \in 1 .. Length : \E f \in Env : m = Position(s, f)
    BY <2>1, PositionWithin
  <2>3. PICK f \in Env : m = Position(s, f)
    BY <2>2
  <2>4. Position(s, f) <= Len(samples) /\ Position(t, e) <= Len(samples)
    BY <1>1, <1>3, <2>1, <2>3
  <2>5. /\ samples[m].name = EnvName(f, samples[m].name.episode)
        /\ samples[n].name = EnvName(e, samples[n].name.episode) /\ samples[n].name.episode \in Nat
        /\ samples[n].continuation \in BOOLEAN
    BY <1>3, <2>3, <2>4 DEF Batch, Chosen, TrainName
  <2>6. e = f
    BY <2>1, <2>5 DEF EnvName
  <2>7. t < s
    BY <1>3, <2>1, <2>3, <2>6, PositionOrder, PositionStep
  <2>8. NotBefore(samples[m], samples[n])
    BY <1>3, <2>3, <2>4, <2>6, <2>7 DEF Batch, InEpisodes
  <2>9. samples[n].continuation
    BY <2>1, <2>5, <2>8 DEF NotBefore
  <2>10. Position(t + 1, e) = n + Envs /\ Position(t + 1, e) <= m /\ t + 1 \in 1 .. Length
    <3>1. t \in Nat \ {0} /\ t + 1 \in Nat \ {0} /\ s \in Nat \ {0} /\ t + 1 <= s /\ s <= Length
      BY <2>7, Sizes
    <3>2. Position(t + 1, e) <= Position(s, e)
      BY <3>1, PositionOrder DEF Env
    <3> QED BY <1>3, <2>3, <2>6, <3>1, <3>2, PositionStep, Sizes
  <2>11. n + Envs <= L
    BY <1>1, <2>1, <2>10, Sizes
  <2>12. Follows(samples[n + Envs], samples[n])
    <3>1. t < Length /\ Position(t + 1, e) <= Len(samples)
      <4>1. t \in 1 .. Length /\ s \in 1 .. Length /\ t < s
        BY <2>7
      <4>2. t < Length
        BY <4>1, Sizes
      <4> QED BY <1>1, <2>11, <4>2
    <3>2. Follows(samples[Position(t + 1, e)], samples[Position(t, e)])
      BY <3>1 DEF Batch, Chained
    <3> QED BY <1>3, <3>2
  <2>13. samples[n + Envs].name = samples[n].name
    BY <2>9, <2>12 DEF Follows
  <2>14. m \in (n + Envs) .. Len(samples)
    BY <1>1, <2>1, <2>10, Sizes
  <2> QED BY <2>1, <2>9, <2>11, <2>13, <2>14 DEF Own
<1>5. ASSUME samples[n].continuation, n + Envs <= L, NEW m \in Own(samples, n + Envs)
      PROVE  m \in Own(samples, n)
  <2>1. t < Length
    <3>1. t + 1 \in Nat \ {0} /\ Length \in Nat \ {0} /\ Envs \in Env
      BY Sizes DEF Env
    <3>3. Position(t + 1, e) <= Position(Length, Envs)
      BY <1>1, <1>5, <3>1, PositionStep
    <3>2. t + 1 < Length \/ (t + 1 = Length /\ e <= Envs)
      BY <3>1, <3>3, PositionOrder
    <3> QED BY <3>2, Sizes
  <2>2. Position(t + 1, e) = n + Envs /\ Position(t + 1, e) <= Len(samples)
    BY <1>1, <1>5
  <2>3. Follows(samples[n + Envs], samples[n])
    BY <1>3, <2>1, <2>2 DEF Batch, Chained
  <2>4. samples[n + Envs].name = samples[n].name
    BY <1>5, <2>3 DEF Follows
  <2>5. m \in n .. Len(samples)
    BY <1>1, <1>5, Sizes DEF Own
  <2> QED BY <1>5, <2>4, <2>5 DEF Own
<1>6. n \in Own(samples, n)
  BY <1>1 DEF Own
<1> QED BY <1>1, <1>4, <1>5, <1>6

LEMMA CreditIs ==
  ASSUME NEW samples, NEW u, Batch(samples, u), NEW n \in DOMAIN samples
  PROVE  Credit(samples)[n] = Own(samples, n)
<1>1. PICK L \in Nat : L = Len(samples) /\ DOMAIN samples = 1 .. L
  <2>1. PICK S : samples \in Seq(S)
    BY DEF Batch
  <2> QED BY <2>1
<1>2. PICK w : w = [k \in DOMAIN samples |-> Own(samples, k)]
  OBVIOUS
<1>3. IsCredit(w, samples)
  <2>1. ASSUME NEW k \in DOMAIN samples
        PROVE  w[k] = {k} \cup IF samples[k].continuation /\ k + Envs <= Len(samples) THEN w[k + Envs] ELSE {}
    <3>1. k + Envs <= Len(samples) => k + Envs \in DOMAIN samples
      BY <1>1, Sizes
    <3> QED BY <1>2, <3>1, OwnStep
  <2> QED BY <1>2, <2>1 DEF IsCredit
<1>4. PICK c : c = Credit(samples) /\ IsCredit(c, samples)
  BY <1>3, CreditChosen
<1>5. PICK T : T = {k \in DOMAIN samples : c[k] # w[k]}
  OBVIOUS
<1>6. T = {}
  <2>1. SUFFICES ASSUME T # {} PROVE FALSE
    OBVIOUS
  <2>2. T \in SUBSET (0 .. L)
    BY <1>1, <1>5
  <2>3. PICK k \in T : \A j \in T : j <= k
    BY <2>1, <2>2, Largest
  <2>4. k + Envs \notin T
    BY <1>1, <1>5, <2>3, Sizes
  <2>5. k + Envs <= Len(samples) => c[k + Envs] = w[k + Envs]
    BY <1>1, <1>5, <2>4, Sizes
  <2>6. /\ c[k] = {k} \cup IF samples[k].continuation /\ k + Envs <= Len(samples) THEN c[k + Envs] ELSE {}
        /\ w[k] = {k} \cup IF samples[k].continuation /\ k + Envs <= Len(samples) THEN w[k + Envs] ELSE {}
    BY <1>3, <1>4, <1>5 DEF IsCredit
  <2>7. c[k] = w[k]
    BY <2>5, <2>6
  <2> QED BY <1>5, <2>7
<1> QED BY <1>2, <1>4, <1>5, <1>6
-----------------------------------------------------------------------------
(* The best candidate, and the free descriptor.                            *)

LEMMA Listed ==
  ASSUME NEW S, NEW s \in Seq(S)
  PROVE  /\ ToSet(s) \subseteq S
         /\ s # <<>> => Last(s) \in ToSet(s) /\ ToSet(s) # {}
         /\ \A x \in S :
              /\ Append(s, x) \in Seq(S) /\ Append(s, x) # <<>> /\ Last(Append(s, x)) = x
              /\ ToSet(Append(s, x)) = ToSet(s) \cup {x}
<1>1. DOMAIN s = 1 .. Len(s) /\ Len(s) \in Nat /\ \A k \in 1 .. Len(s) : s[k] \in S
  OBVIOUS
<1>2. ToSet(s) \subseteq S
  BY <1>1 DEF ToSet
<1>3. s # <<>> => Last(s) \in ToSet(s) /\ ToSet(s) # {}
  <2> HAVE s # <<>>
  <2>1. Len(s) \in DOMAIN s
    BY <1>1
  <2> QED BY <2>1 DEF Last, ToSet
<1>4. ASSUME NEW x \in S
      PROVE  /\ Append(s, x) \in Seq(S) /\ Append(s, x) # <<>> /\ Last(Append(s, x)) = x
             /\ ToSet(Append(s, x)) = ToSet(s) \cup {x}
  <2>1. PICK n \in Nat : n = Len(s) /\ DOMAIN s = 1 .. n
    BY <1>1
  <2>2. PICK a : a = Append(s, x) /\ a \in Seq(S) /\ Len(a) = n + 1 /\ DOMAIN a = 1 .. n + 1
    <3>1. Append(s, x) \in Seq(S) /\ Len(Append(s, x)) = Len(s) + 1
      OBVIOUS
    <3>2. DOMAIN Append(s, x) = 1 .. Len(Append(s, x))
      BY <3>1
    <3> QED BY <2>1, <3>1, <3>2
  <2>3. a[n + 1] = x /\ \A k \in 1 .. n : a[k] = s[k]
    BY <2>1, <2>2
  <2>4. a # <<>> /\ Last(a) = x
    BY <2>1, <2>2, <2>3 DEF Last
  <2>5. ToSet(a) = ToSet(s) \cup {x}
    <3>1. ASSUME NEW y \in ToSet(a) PROVE y \in ToSet(s) \cup {x}
      <4>1. PICK k \in 1 .. n + 1 : y = a[k]
        BY <2>2 DEF ToSet
      <4>2. k = n + 1 \/ k \in 1 .. n
        BY <2>1
      <4> QED BY <2>1, <2>3, <4>1, <4>2 DEF ToSet
    <3>2. ASSUME NEW y \in ToSet(s) PROVE y \in ToSet(a)
      <4>1. PICK k \in 1 .. n : y = s[k]
        BY <2>1 DEF ToSet
      <4> QED BY <2>1, <2>2, <2>3, <4>1 DEF ToSet
    <3>3. x \in ToSet(a)
      BY <2>1, <2>2, <2>3 DEF ToSet
    <3> QED BY <3>1, <3>2, <3>3
  <2> QED BY <2>2, <2>4, <2>5
<1> QED BY <1>2, <1>3, <1>4

LEMMA BestIs ==
  ASSUME merit \in [1 .. Updates -> Merits \cup {Unknown}], NEW pool \in SUBSET (1 .. Updates), pool # {}
  PROVE  /\ Best(pool) \in pool
         /\ \A v \in pool : merit[Best(pool)].score >= merit[v].score
<1>1. \A u \in 1 .. Updates : merit[u].score \in 0 .. 2
  BY DEF Merits, Unknown
<1>2. PICK T : T = {merit[u].score : u \in pool}
  OBVIOUS
<1>3. T \in SUBSET (0 .. 2) /\ T # {}
  BY <1>1, <1>2
<1>4. PICK top \in T : \A s \in T : s <= top
  BY <1>3, Largest
<1>5. PICK F : F = {u \in pool : merit[u].score = top}
  OBVIOUS
<1>6. F \in SUBSET Nat /\ F # {}
  <2>1. PICK u \in pool : merit[u].score = top
    BY <1>2, <1>4
  <2>2. pool \subseteq Nat
    BY Sizes
  <2>3. u \in F /\ F \subseteq pool
    BY <1>5, <2>1
  <2> QED BY <2>2, <2>3
<1>7. PICK b \in F : \A v \in F : b <= v
  BY <1>6, Smallest
<1> DEFINE IsBest(u) == \A v \in pool :
             merit[u].score > merit[v].score \/ (merit[u].score = merit[v].score /\ u <= v)
<1>8. b \in pool /\ IsBest(b)
  <2> SUFFICES ASSUME NEW v \in pool
               PROVE  merit[b].score > merit[v].score \/ (merit[b].score = merit[v].score /\ b <= v)
    BY <1>5, <1>7
  <2>1. merit[v].score \in T /\ merit[v].score \in 0 .. 2 /\ merit[b].score = top /\ top \in 0 .. 2
    BY <1>1, <1>2, <1>3, <1>5, <1>7
  <2>2. merit[v].score <= top
    BY <1>4, <2>1
  <2>3. merit[v].score = top => b <= v
    BY <1>5, <1>7
  <2> QED BY <2>1, <2>2, <2>3
<1>9. Best(pool) = CHOOSE u \in pool : IsBest(u)
  BY DEF Best
<1> HIDE DEF IsBest
<1>10. Best(pool) \in pool /\ IsBest(Best(pool))
  BY <1>8, <1>9
<1>11. PICK w \in pool : w = Best(pool) /\ IsBest(w)
  BY <1>10
<1>12. ASSUME NEW v \in pool PROVE merit[w].score >= merit[v].score
  <2>1. merit[w].score > merit[v].score \/ (merit[w].score = merit[v].score /\ w <= v)
    BY <1>11 DEF IsBest
  <2>2. merit[v].score \in 0 .. 2 /\ merit[w].score \in 0 .. 2
    BY <1>1
  <2> QED BY <2>1, <2>2
<1> QED BY <1>11, <1>12

LEMMA PoolIs ==
  ASSUME candidates \in Seq(1 .. Updates), candidates # <<>>
  PROVE  /\ Pool \in SUBSET ToSet(candidates) /\ Pool # {} /\ Pool \in SUBSET (1 .. Updates)
         /\ \A u \in ToSet(candidates) : merit[u].eligible => u \in Pool /\ \A v \in Pool : merit[v].eligible
<1>1. ToSet(candidates) \in SUBSET (1 .. Updates) /\ ToSet(candidates) # {}
  BY Listed
<1>2. PICK C : C = ToSet(candidates)
  OBVIOUS
<1>3. Pool = IF {u \in C : merit[u].eligible} = {} THEN C ELSE {u \in C : merit[u].eligible}
  BY <1>2 DEF Pool
<1> QED BY <1>1, <1>2, <1>3

\* A worker that is not there holds no descriptor, so one is free.
LEMMA Spare ==
  ASSUME Piped, InProgress, guest = Nobody
  PROVE  \E s \in Slots : pipes[s] = NoName
<1>1. SUFFICES ASSUME \A s \in Slots : pipes[s] # NoName PROVE FALSE
  OBVIOUS
<1>2. PICK f : f = [e \in Env |-> Current(e).slot]
  OBVIOUS
<1>3. ASSUME NEW s \in Slots PROVE \E e \in Env : s = f[e]
  <2>1. PICK h \in Live : h.slot = s /\ h.name = pipes[s]
    BY <1>1 DEF Piped
  <2>2. h # Seat(Nobody)
    BY <1>1, <2>1 DEF Nobody, Seat
  <2>3. PICK e \in Env : h = Seat(Current(e))
    BY <2>1, <2>2 DEF Live, Staffed
  <2>4. h.slot = Current(e).slot
    BY <2>3 DEF Seat
  <2> QED BY <1>2, <2>1, <2>4
<1>4. IsFiniteSet(Env) /\ Cardinality(Env) = Envs
  BY FS_Interval, Sizes DEF Env
<1>5. Cardinality(Slots) = Envs + 1
  BY FS_Interval, Sizes DEF Slots
<1>6. PICK T : T = {f[e] : e \in Env}
  OBVIOUS
<1>7. f \in Surjection(Env, T)
  BY <1>2, <1>6 DEF Surjection
<1>8. IsFiniteSet(T) /\ Cardinality(T) <= Cardinality(Env)
  BY <1>4, <1>7, FS_Surjection
<1>9. Slots \subseteq T
  BY <1>3, <1>6
<1>10. Cardinality(Slots) <= Cardinality(T)
  BY <1>8, <1>9, FS_Subset
<1>11. Cardinality(T) \in Nat
  BY <1>8, FS_CardinalityType
<1> QED BY <1>4, <1>5, <1>8, <1>10, <1>11, Sizes

LEMMA FreeSlotIs ==
  ASSUME Piped, InProgress, guest = Nobody
  PROVE  FreeSlot \in Slots /\ pipes[FreeSlot] = NoName
<1>1. PICK T : T = {s \in Slots : pipes[s] = NoName}
  OBVIOUS
<1>2. T \in SUBSET Nat /\ T # {}
  BY <1>1, Spare, Sizes DEF Slots
<1>3. PICK s \in T : \A r \in T : s <= r
  BY <1>2, Smallest
<1>4. \A r \in 1 .. s - 1 : pipes[r] # NoName
  <2> SUFFICES ASSUME NEW r \in 1 .. s - 1 PROVE pipes[r] # NoName
    OBVIOUS
  <2>1. r \in Slots /\ ~(s <= r)
    BY <1>1, <1>2, <1>3, Sizes DEF Slots
  <2> QED BY <1>1, <1>3, <2>1
<1>5. s \in Slots /\ pipes[s] = NoName
  BY <1>1
<1> DEFINE Free(r) == pipes[r] = NoName /\ \A q \in 1 .. r - 1 : pipes[q] # NoName
<1>6. Free(s)
  BY <1>4, <1>5
<1>7. FreeSlot = CHOOSE r \in Slots : Free(r)
  BY DEF FreeSlot
<1>8. Free(FreeSlot) /\ FreeSlot \in Slots
  <2> HIDE DEF Free
  <2> QED BY <1>5, <1>6, <1>7
<1> QED BY <1>8
-----------------------------------------------------------------------------
(* Where the driver is.                                                    *)

\* The driver raises; an update may have torn the model it leaves behind.
Failed ==
  /\ at' = "failed" /\ Abort(Held)
  /\ trainer' \in {[trainer EXCEPT !.up = FALSE], [TornTrainer EXCEPT !.up = FALSE]}
  /\ UNCHANGED <<i, time, phase, batch, guest, used, candidates, merit, manifest>>

LEMMA Failing ==
  ASSUME Fail
  PROVE  /\ Failed /\ faulted' = (faulted \/ Required)
         /\ disk' = disk \/ (at = "checkpoint" /\ disk' = disk \cup {ThisCheckpoint})
         /\ InProgress
<1>1. CASE WorkerFails
  BY <1>1 DEF WorkerFails, Raise, RaiseFrom, Failed, InProgress
<1>2. CASE TrainerFails
  BY <1>2 DEF TrainerFails, Raise, RaiseFrom, Failed, InProgress
<1>3. CASE UpdateFails
  BY <1>3 DEF UpdateFails, RaiseFrom, Failed, InProgress
<1>4. CASE CheckpointFails
  BY <1>4 DEF CheckpointFails, Raise, RaiseFrom, Failed, InProgress
<1> QED BY <1>1, <1>2, <1>3, <1>4 DEF Fail

LEMMA Closing ==
  ASSUME Control, EvaluateClose
  PROVE  \/ i < Templates /\ at' = "e_start" /\ i' = i + 1 /\ merit' = merit
         \/ /\ i' = 1
            /\ \/ phase = "random" /\ at' = "t_start" /\ merit' = merit
               \/ phase = "reload" /\ at' = "reloaded" /\ merit' = merit
               \/ /\ phase = "candidate" /\ at' = "checkpoint"
                  /\ IF merit[trainer.updates] = Unknown
                     THEN \E result \in Merits : merit' = [merit EXCEPT ![trainer.updates] = result]
                     ELSE merit' = merit
<1>1. phase \in {"random", "candidate", "reload"}
  BY DEF Control, EvaluateClose, Evaluating
<1>2. CASE i < Templates
  BY <1>2 DEF EvaluateClose
<1>3. CASE ~(i < Templates)
  <2>1. Evaluated
    BY <1>3 DEF EvaluateClose
  <2>2. CASE phase = "random"
    BY <2>1, <2>2 DEF Evaluated
  <2>3. CASE phase = "candidate"
    BY <2>1, <2>3 DEF Evaluated, Merits
  <2>4. CASE phase = "reload"
    BY <2>1, <2>4 DEF Evaluated
  <2> QED BY <1>1, <2>2, <2>3, <2>4
<1> QED BY <1>2, <1>3

LEMMA ControlStep ==
  ASSUME Control, Next
  PROVE  Control'
<1>1. ASSUME Start PROVE Control'
  BY <1>1, Sizes DEF Start, Control, Places, Loop, Evaluating, Ending, batch, workers, results
<1>2. ASSUME EvaluateStart PROVE Control'
  BY <1>2, Sizes DEF EvaluateStart, Control, Places, Loop, Evaluating, Ending, batch, results
<1>3. ASSUME EvaluatePlay PROVE Control'
  BY <1>3, Sizes DEF EvaluatePlay, Control, Places, Loop, Evaluating, Ending, batch, workers, results
<1>4. ASSUME EvaluateClose PROVE Control'
  BY <1>4, Closing, Sizes DEF EvaluateClose, Env, Control, Places, Loop, Evaluating, Ending, batch
<1>5. ASSUME TrainStart PROVE Control'
  BY <1>5, Sizes DEF TrainStart, Env, Control, Places, Loop, Evaluating, Ending, results
<1>6. ASSUME Act PROVE Control'
  BY <1>6, Sizes DEF Act, Env, Control, Places, Loop, Evaluating, Ending, workers, results
<1>7. ASSUME Step PROVE Control'
  BY <1>7, Sizes DEF Step, Env, Control, Places, Loop, Evaluating, Ending, workers, results
<1>8. ASSUME Predict PROVE Control'
  BY <1>8, Sizes DEF Predict, Env, Control, Places, Loop, Evaluating, Ending, batch, workers, results
<1>9. ASSUME Record PROVE Control'
  BY <1>9, Sizes DEF Record, NextEnvironment, Env, Control, Places, Loop, Evaluating, Ending, workers, results
<1>10. ASSUME Replace PROVE Control'
  BY <1>10, Sizes DEF Replace, NextEnvironment, Env, Control, Places, Loop, Evaluating, Ending, results
<1>11. ASSUME Assign PROVE Control'
  BY <1>11, Sizes DEF Assign, Control, Places, Loop, Evaluating, Ending, workers, results
<1>12. ASSUME Update PROVE Control'
  BY <1>12, Sizes DEF Update, More, Control, Places, Loop, Evaluating, Ending, workers, results
<1>13. ASSUME Checkpoint PROVE Control'
  BY <1>13, Sizes DEF Checkpoint, More, Control, Places, Loop, Evaluating, Ending, workers
<1>14. ASSUME TrainClose PROVE Control'
  BY <1>14, Sizes DEF TrainClose, Control, Places, Loop, Evaluating, Ending, batch, results
<1>15. ASSUME CloseTrainer PROVE Control'
  BY <1>15, Sizes DEF CloseTrainer, Control, Places, Loop, Evaluating, Ending, batch, workers, results
<1>16. ASSUME Select PROVE Control'
  BY <1>16, Sizes DEF Select, Control, Places, Loop, Evaluating, Ending, batch, workers, results
<1>17. ASSUME Finish PROVE Control'
  BY <1>17, Sizes DEF Finish, Control, Places, Loop, Evaluating, Ending, batch, workers
<1>18. ASSUME Exit PROVE Control'
  BY <1>18, Sizes DEF Exit, Control, Places, Loop, Evaluating, Ending, batch, results
<1>19. ASSUME Fail PROVE Control'
  BY <1>19, Failing, Zenon DEF Failed, Control, Places, Loop, Evaluating, Ending, batch
<1>20. ASSUME Killed PROVE Control'
  BY <1>20, Sizes DEF Killed, Control, Places, Loop, Evaluating, Ending, batch
<1>21. ASSUME WorkerEnds PROVE Control'
  BY <1>21, Sizes DEF WorkerEnds, Control, Places, Loop, Evaluating, Ending, driver, batch, results
<1>22. ASSUME TrainerEnds PROVE Control'
  BY <1>22, Sizes DEF TrainerEnds, Control, Places, Loop, Evaluating, Ending, driver, batch, workers, results
<1> QED BY <1>1, <1>2, <1>3, <1>4, <1>5, <1>6, <1>7, <1>8, <1>9, <1>10, <1>11, <1>12, <1>13, <1>14, <1>15, <1>16, <1>17, <1>18, <1>19, <1>20, <1>21, <1>22 DEF Next, Drive, Evaluate, Train
-----------------------------------------------------------------------------
(* What the trainer has taken.                                             *)

\* The part of the count that only a trainer's own step changes.
Whole(t) ==
  /\ DOMAIN t = {"up", "updates", "draws", "trained", "torn"}
  /\ WholeUpdates(t.trained, t.updates) /\ ~t.torn /\ t.draws \in Nat

LEMMA WholeTrainer == ASSUME Counted, InProgress PROVE Whole(trainer)
BY DEF Counted, Whole

LEMMA WholeNew == Whole(NewTrainer)
<1>1. <<>> \in Seq({}) /\ Len(<<>>) = 0 /\ 0 \in 0 .. Updates
  BY Sizes
<1> QED BY <1>1 DEF Whole, WholeUpdates, NewTrainer

LEMMA WholeSampled ==
  ASSUME NEW t, Whole(t)
  PROVE  /\ Whole(Sampled(t)) /\ Sampled(t).draws = t.draws + 1
         /\ Sampled(t).updates = t.updates /\ Sampled(t).trained = t.trained
BY DEF Whole, Sampled

LEMMA WholeDown ==
  ASSUME NEW t, Whole(t)
  PROVE  LET d == [t EXCEPT !.up = FALSE] IN
         Whole(d) /\ d.draws = t.draws /\ d.updates = t.updates /\ d.trained = t.trained
BY DEF Whole

\* An end of the trainer, torn or not, changes nothing that was counted.
LEMMA TrainerLeft ==
  ASSUME Counted, trainer' \in {[trainer EXCEPT !.up = FALSE], [TornTrainer EXCEPT !.up = FALSE]}
  PROVE  /\ DOMAIN trainer' = {"up", "updates", "draws", "trained", "torn"}
         /\ trainer'.trained = trainer.trained /\ trainer'.updates = trainer.updates
         /\ trainer'.draws = trainer.draws
BY DEF Counted, TornTrainer

LEMMA WholeTrained ==
  ASSUME NEW t, Whole(t), t.updates < Updates, NEW samples
  PROVE  /\ Whole(Trained(t, samples)) /\ Trained(t, samples).draws = t.draws
         /\ Trained(t, samples).updates = t.updates + 1
         /\ Trained(t, samples).trained =
              Append(t.trained, [samples |-> samples, credit |-> Credit(samples)])
<1>1. PICK taken : taken = [samples |-> samples, credit |-> Credit(samples)]
  OBVIOUS
<1>2. PICK S : t.trained \in Seq(S)
  BY DEF Whole, WholeUpdates
<1>3. /\ t.trained \in Seq(S \cup {taken}) /\ taken \in S \cup {taken}
      /\ Append(t.trained, taken) \in Seq(S \cup {taken})
      /\ Len(Append(t.trained, taken)) = Len(t.trained) + 1
  BY <1>2
<1>4. Len(t.trained) = t.updates /\ t.updates + 1 \in 0 .. Updates
  BY Sizes DEF Whole, WholeUpdates
<1>5. Trained(t, samples) = [t EXCEPT !.updates = @ + 1, !.trained = Append(@, taken)]
  BY <1>1 DEF Trained
<1>6. /\ DOMAIN Trained(t, samples) = DOMAIN t /\ Trained(t, samples).torn = t.torn
      /\ Trained(t, samples).draws = t.draws
      /\ Trained(t, samples).updates = t.updates + 1
      /\ Trained(t, samples).trained = Append(t.trained, taken)
  BY <1>5 DEF Whole
<1> QED BY <1>1, <1>3, <1>4, <1>6 DEF Whole, WholeUpdates

LEMMA WholeLoaded ==
  ASSUME NEW c, Saved(c)
  PROVE  /\ Whole(Loaded(c)) /\ Loaded(c).updates = c.update /\ Loaded(c).trained = c.trained
BY DEF Whole, Loaded, Saved

LEMMA AppendAny ==
  ASSUME NEW s, \E S : s \in Seq(S), NEW x
  PROVE  (\E S : Append(s, x) \in Seq(S)) /\ Len(Append(s, x)) = Len(s) + 1
<1>1. PICK S : s \in Seq(S)
  OBVIOUS
<1>2. s \in Seq(S \cup {x}) /\ x \in S \cup {x}
  BY <1>1
<1> QED BY <1>2

\* The last place of a time step, and the draws of the next.
LEMMA Onwards ==
  ASSUME NEW t \in 1 .. Length
  PROVE  /\ Position(t + 1, 1) - 1 = Position(t, Envs) /\ Position(1, 1) = 1
         /\ Position(t, Envs) \in Nat /\ Position(Length, Envs) = Length * Envs
         /\ \A e \in Env : /\ Position(t, e) - 1 \in Nat /\ Position(t, e) \in Nat
                           /\ Position(t, e + 1) - 1 = Position(t, e)
<1>1. t \in Nat \ {0} /\ Length \in Nat \ {0} /\ 1 \in Nat \ {0} /\ 1 \in Env /\ Envs \in Env
  BY Sizes DEF Env
<1>2. /\ Position(t + 1, 1) = Position(t, Envs) + 1 /\ Position(t, Envs) \in Nat /\ Position(1, 1) = 1
      /\ Position(Length, Envs) = Length * Envs
  BY <1>1, PositionStep
<1>3. ASSUME NEW e \in Env
      PROVE  /\ Position(t, e) \in Nat \ {0} /\ Position(t, e + 1) = Position(t, e) + 1
  BY <1>1, PositionStep
<1> QED BY <1>2, <1>3

LEMMA Draws ==
  ASSUME NEW u \in Nat
  PROVE  u * Length \in Nat /\ (u + 1) * Length = u * Length + Length /\ 0 * Length = 0
BY Sizes

LEMMA CountedStep ==
  ASSUME Control, Counted, Ledger, Next
  PROVE  Counted'
<1> USE DEF InProgress
<1>1. ASSUME Start PROVE Counted'
  <2>1. Whole(trainer') /\ trainer'.draws = 0 /\ trainer'.updates = 0
    BY <1>1, WholeNew DEF Start, NewTrainer
  <2>2. (\E S : rollout' \in Seq(S)) /\ Recorded'
    BY <1>1 DEF Start, Counted, Drawn, Recorded, Before, Examined, Control, Loop, Evaluating, Ending, batch, workers, results
  <2> QED BY <1>1, <2>1, <2>2 DEF Start, Whole, Counted, Drawn, Recorded, Before, Examined, Control, Loop, Evaluating, Ending, batch, workers, results
<1>2. ASSUME EvaluateStart PROVE Counted'
  BY <1>2, Sizes DEF EvaluateStart, Counted, Drawn, Recorded, Before, Examined, Control, Loop, Evaluating, Ending, batch, results
<1>3. ASSUME EvaluatePlay PROVE Counted'
  BY <1>3, Sizes DEF EvaluatePlay, Counted, Drawn, Recorded, Before, Examined, Control, Loop, Evaluating, Ending, batch, workers, results
<1>4. ASSUME EvaluateClose PROVE Counted'
  BY <1>4, Closing, Sizes DEF EvaluateClose, Env, Counted, Drawn, Recorded, Before, Examined, Control, Loop, Evaluating, Ending, batch
<1>5. ASSUME TrainStart PROVE Counted'
  <2>1. at = "t_start" /\ trainer' = trainer /\ rollout' = rollout /\ Before
    BY <1>5 DEF TrainStart, Before
  <2>2. at' = "t_start" \/ (at' = "act" /\ time' = 1)
    BY <1>5, <2>1 DEF TrainStart
  <2>3. trainer.draws = 0 /\ trainer.updates = 0 /\ rollout = <<>> /\ Len(rollout) = 0
    BY <2>1 DEF Counted, Drawn, Recorded
  <2>4. Position(1, 1) - 1 = 0 /\ 0 * Length = 0
    BY Onwards, Draws, Sizes
  <2>5. Drawn' /\ Recorded'
    BY <2>1, <2>2, <2>3, <2>4 DEF Drawn, Recorded, Before, Examined, Control, Loop, Evaluating, Ending
  <2> QED BY <2>1, <2>2, <2>3, <2>5, Sizes DEF Counted, Before, Loop, Examined, Evaluating, Ending
<1>6. ASSUME Act PROVE Counted'
  <2>1. /\ at = "act" /\ at' = "step" /\ i' = 1 /\ time' = time /\ rollout' = rollout
        /\ trainer' = Sampled(trainer) /\ Whole(trainer) /\ time \in 1 .. Length
    BY <1>6, WholeTrainer DEF Act, Control, Loop
  <2>2. /\ Whole(trainer') /\ trainer'.draws = trainer.draws + 1
        /\ trainer'.updates = trainer.updates /\ trainer'.trained = trainer.trained
    BY <2>1, WholeSampled
  <2>3. trainer.updates * Length \in Nat
    BY <2>1, Draws DEF Whole, WholeUpdates
  <2>4. Drawn' /\ Recorded'
    BY <2>1, <2>2, <2>3 DEF Counted, Drawn, Recorded, Before, Examined, Control, Loop, Evaluating, Ending
  <2> QED BY <2>1, <2>2, <2>4 DEF Whole, Before, Loop, Examined, Evaluating, Ending, Counted
<1>7. ASSUME Step PROVE Counted'
  BY <1>7, Sizes DEF Step, Env, Counted, Drawn, Recorded, Before, Examined, Control, Loop, Evaluating, Ending, workers, results
<1>8. ASSUME Predict PROVE Counted'
  <2>1. /\ at = "predict" /\ at' = "record" /\ i' = 1 /\ UNCHANGED <<time, trainer, rollout>>
    BY <1>8 DEF Predict, batch
  <2>2. Drawn' /\ Recorded'
    BY <2>1 DEF Counted, Drawn, Recorded, Before, Examined, Control, Loop, Evaluating, Ending
  <2> QED BY <2>1, <2>2 DEF Before, Loop, Examined, Evaluating, Ending, Counted
<1>9. ASSUME Record PROVE Counted'
  <2>1. /\ at = "record" /\ UNCHANGED <<time, trainer>> /\ rollout' = Append(rollout, Transition)
        /\ time \in 1 .. Length /\ i \in Env
    BY <1>9 DEF Record, Control, Loop
  <2>2. \/ at' = "record" /\ i' = i + 1
        \/ at' = "assign" /\ i = Envs
        \/ at' = "replace" /\ i' = i
    BY <1>9, <2>1, Sizes DEF Record, NextEnvironment, Env
  <2>3. (\E S : rollout' \in Seq(S)) /\ Len(rollout') = Len(rollout) + 1
    BY <2>1, AppendAny DEF Counted
  <2>4. Len(rollout) = Position(time, i) - 1 /\ Position(time, i) \in Nat /\ Position(time, i + 1) - 1 = Position(time, i)
    BY <2>1, Onwards DEF Counted, Recorded
  <2>5. Recorded'
    BY <2>1, <2>2, <2>3, <2>4 DEF Recorded, Before, Control, Loop, Evaluating, Ending
  <2>6. Drawn'
    BY <2>1, <2>2 DEF Counted, Drawn, Recorded, Before, Examined, Control, Loop, Evaluating, Ending
  <2> QED BY <2>1, <2>2, <2>3, <2>5, <2>6 DEF Before, Loop, Examined, Evaluating, Ending, Counted
<1>10. ASSUME Replace PROVE Counted'
  <2>1. /\ at = "replace" /\ UNCHANGED <<time, trainer, rollout>> /\ time \in 1 .. Length /\ i \in Env
    BY <1>10 DEF Replace, Control, Loop
  <2>2. (at' = "record" /\ i' = i + 1) \/ (at' = "assign" /\ i = Envs)
    BY <1>10, <2>1, Sizes DEF Replace, NextEnvironment, Env
  <2>3. Len(rollout) = Position(time, i) /\ Position(time, i + 1) - 1 = Position(time, i)
    BY <2>1, Onwards DEF Counted, Recorded
  <2>4. Drawn' /\ Recorded'
    BY <2>1, <2>2, <2>3 DEF Counted, Drawn, Recorded, Before, Examined, Control, Loop, Evaluating, Ending
  <2> QED BY <2>1, <2>2, <2>4 DEF Before, Loop, Examined, Evaluating, Ending, Counted
<1>11. ASSUME Assign PROVE Counted'
  <2>1. at = "assign" /\ UNCHANGED <<trainer, rollout>> /\ time \in 1 .. Length
    BY <1>11 DEF Assign, Control, Loop
  <2>2. (at' = "act" /\ time' = time + 1) \/ (at' = "update" /\ time' = time /\ time = Length)
    BY <1>11, <2>1, Sizes DEF Assign
  <2>3. /\ Len(rollout) = Position(time, Envs) /\ Position(time + 1, 1) - 1 = Position(time, Envs)
        /\ trainer.draws = trainer.updates * Length + time /\ trainer.updates * Length \in Nat
    BY <2>1, Onwards, Draws DEF Counted, Recorded, Drawn, Loop, WholeUpdates
  <2>4. Drawn' /\ Recorded'
    BY <2>1, <2>2, <2>3 DEF Drawn, Recorded, Before, Examined, Control, Loop, Evaluating, Ending
  <2> QED BY <2>1, <2>2, <2>4 DEF Before, Loop, Examined, Evaluating, Ending, Counted
<1>12. ASSUME Update PROVE Counted'
  <2>1. /\ at = "update" /\ trainer' = Trained(trainer, rollout) /\ Whole(trainer) /\ time = Length
        /\ trainer.updates < Updates /\ trainer.updates \in Nat
        /\ trainer.draws = trainer.updates * Length + Length
    BY <1>12, WholeTrainer DEF Update, Control, Loop, Counted, Drawn, WholeUpdates
  <2>2. PICK done \in Nat \ {0} : done = trainer'.updates /\ done = trainer.updates + 1
    <3>1. Trained(trainer, rollout).updates = trainer.updates + 1
      BY <2>1, WholeTrained
    <3> QED BY <2>1, <3>1
  <2>3. Whole(trainer') /\ trainer'.draws = done * Length /\ done * Length \in Nat
    BY <2>1, <2>2, WholeTrained, Draws
  <2>4. (done = Updates => Due(done)) /\ (Due(done) <=> Due(trainer'.updates))
    BY <2>2 DEF Due
  <2>5. \/ at' = "e_start" /\ phase' = "candidate" /\ Due(done) /\ rollout' = rollout
        \/ at' = "act" /\ time' = 1 /\ rollout' = <<>> /\ done < Updates
    <3>1. CASE Due(done)
      BY <1>12, <2>4, <3>1 DEF Update
    <3>2. CASE ~Due(done)
      <4>1. More(trainer'.updates) /\ done # Updates
        BY <1>12, <2>4, <3>2 DEF Update
      <4>2. done < Updates
        BY <2>1, <2>2, <4>1, Sizes
      <4> QED BY <2>2, <4>1, <4>2 DEF More
    <3> QED BY <3>1, <3>2
  <2>6. Drawn' /\ Recorded' /\ \E S : rollout' \in Seq(S)
    <3>1. Position(1, 1) - 1 = 0 /\ <<>> \in Seq({}) /\ Len(<<>>) = 0
      BY Onwards, Sizes
    <3>2. CASE at' = "e_start" /\ phase' = "candidate" /\ rollout' = rollout
      BY <2>2, <2>3, <3>2 DEF Counted, Drawn, Recorded, Before, Examined, Control, Loop, Evaluating, Ending
    <3>3. CASE at' = "act" /\ time' = 1 /\ rollout' = <<>>
      <4>1. Drawn'
        BY <2>2, <2>3, <3>3 DEF Drawn, Before, Loop, Examined, Evaluating, Ending
      <4>2. Recorded'
        BY <3>1, <3>3 DEF Recorded, Before, Evaluating
      <4> QED BY <3>1, <3>3, <4>1, <4>2
    <3> QED BY <2>5, <3>2, <3>3
  <2> QED BY <2>2, <2>3, <2>5, <2>6 DEF Whole, Before, Loop, Examined, Evaluating, Ending, Counted
<1>13. ASSUME Checkpoint PROVE Counted'
  <2>1. /\ at = "checkpoint" /\ trainer' = trainer /\ Examined /\ Whole(trainer)
    BY <1>13, WholeTrainer DEF Checkpoint, Examined
  <2>2. PICK done \in Nat : done = trainer.updates /\ trainer.draws = done * Length /\ done <= Updates /\ done * Length \in Nat
    BY <2>1, Draws, Sizes DEF Counted, Drawn, WholeUpdates
  <2>3. \/ at' = "act" /\ time' = 1 /\ rollout' = <<>> /\ done < Updates
        \/ at' = "stop" /\ rollout' = rollout /\ done = Updates
    BY <1>13, <2>2, Sizes DEF Checkpoint, More
  <2>4. Drawn' /\ Recorded' /\ \E S : rollout' \in Seq(S)
    <3>1. Position(1, 1) - 1 = 0 /\ <<>> \in Seq({}) /\ Len(<<>>) = 0
      BY Onwards, Sizes
    <3>2. CASE at' = "stop" /\ rollout' = rollout
      BY <2>1, <2>2, <3>2 DEF Counted, Drawn, Recorded, Before, Examined, Control, Loop, Evaluating, Ending
    <3>3. CASE at' = "act" /\ time' = 1 /\ rollout' = <<>>
      <4>1. Drawn'
        BY <2>1, <2>2, <3>3 DEF Drawn, Before, Loop, Examined, Evaluating, Ending
      <4>2. Recorded'
        BY <3>1, <3>3 DEF Recorded, Before, Examined, Evaluating
      <4> QED BY <3>1, <3>3, <4>1, <4>2
    <3> QED BY <2>3, <3>2, <3>3
  <2> QED BY <2>1, <2>2, <2>3, <2>4 DEF Whole, Before, Loop, Examined, Evaluating, Ending, Counted
<1>14. ASSUME TrainClose PROVE Counted'
  BY <1>14, Sizes DEF TrainClose, Counted, Drawn, Recorded, Before, Examined, Control, Loop, Evaluating, Ending, batch, results
<1>15. ASSUME CloseTrainer PROVE Counted'
  <2>1. /\ at = "close" /\ at' = "select" /\ rollout' = rollout /\ trainer' = [trainer EXCEPT !.up = FALSE]
    BY <1>15 DEF CloseTrainer, batch
  <2>2. /\ Whole(trainer') /\ trainer'.updates = trainer.updates /\ trainer'.draws = trainer.draws
    BY <2>1, WholeDown, WholeTrainer
  <2>3. Drawn' /\ Recorded'
    BY <2>1, <2>2 DEF Counted, Drawn, Recorded, Before, Examined, Control, Loop, Evaluating, Ending
  <2> QED BY <2>1, <2>2, <2>3 DEF Whole, Before, Loop, Examined, Evaluating, Ending, Counted
<1>16. ASSUME Select PROVE Counted'
  <2>1. PICK saved \in disk : trainer' = Loaded(saved)
    BY <1>16 DEF Select
  <2>2. Whole(trainer')
    BY <2>1, WholeLoaded DEF Ledger
  <2>3. at' = "e_start" /\ phase' = "reload" /\ rollout' = rollout
    BY <1>16 DEF Select, batch
  <2> QED BY <2>2, <2>3 DEF Whole, Counted, Drawn, Recorded, Before, Examined, Control, Loop, Evaluating, Ending
<1>17. ASSUME Finish PROVE Counted'
  <2>1. at = "reloaded" /\ at' = "completed" /\ rollout' = rollout /\ trainer' = [trainer EXCEPT !.up = FALSE]
    BY <1>17 DEF Finish, batch
  <2>2. Whole(trainer')
    BY <2>1, WholeDown, WholeTrainer
  <2> QED BY <2>1, <2>2 DEF Whole, Counted, Drawn, Recorded, Before, Examined, Control, Loop, Evaluating, Ending
<1>18. ASSUME Exit PROVE Counted'
  BY <1>18, Sizes DEF Exit, Counted, Drawn, Recorded, Before, Examined, Control, Loop, Evaluating, Ending, batch, results
<1>19. ASSUME Fail PROVE Counted'
  <2>1. /\ at' = "failed" /\ rollout' = rollout
        /\ trainer' \in {[trainer EXCEPT !.up = FALSE], [TornTrainer EXCEPT !.up = FALSE]}
    BY <1>19, Failing DEF Failed, batch
  <2>2. /\ DOMAIN trainer' = {"up", "updates", "draws", "trained", "torn"}
        /\ trainer'.trained = trainer.trained /\ trainer'.updates = trainer.updates
        /\ trainer'.draws = trainer.draws
    BY <2>1, TrainerLeft
  <2> QED BY <2>1, <2>2 DEF Counted, Drawn, Recorded, Before, Examined, Control, Loop, Evaluating, Ending
<1>20. ASSUME Killed PROVE Counted'
  BY <1>20, Sizes DEF Killed, Counted, Drawn, Recorded, Before, Examined, Control, Loop, Evaluating, Ending, batch
<1>21. ASSUME WorkerEnds PROVE Counted'
  BY <1>21, Sizes DEF WorkerEnds, Counted, Drawn, Recorded, Before, Examined, Control, Loop, Evaluating, Ending, driver, batch, results
<1>22. ASSUME TrainerEnds PROVE Counted'
  <2>1. at' = at /\ rollout' = rollout /\ trainer' = [trainer EXCEPT !.up = FALSE] /\ at = "over"
    BY <1>22 DEF TrainerEnds, batch, driver
  <2>2. /\ DOMAIN trainer' = {"up", "updates", "draws", "trained", "torn"}
        /\ trainer'.trained = trainer.trained /\ trainer'.updates = trainer.updates
        /\ trainer'.draws = trainer.draws
    BY <2>1, TrainerLeft
  <2> QED BY <2>1, <2>2 DEF Counted, Drawn, Recorded, Before, Examined, Control, Loop, Evaluating, Ending
<1> QED BY <1>1, <1>2, <1>3, <1>4, <1>5, <1>6, <1>7, <1>8, <1>9, <1>10, <1>11, <1>12, <1>13, <1>14, <1>15, <1>16, <1>17, <1>18, <1>19, <1>20, <1>21, <1>22 DEF Next, Drive, Evaluate, Train
-----------------------------------------------------------------------------
(* What is published, and what the driver knows of it.                     *)

LEMMA SavedKept ==
  ASSUME NEW c, Saved(c), disk' = disk, c.update \in 1 .. Updates => merit'[c.update] = merit[c.update]
  PROVE  Saved(c)'
<1>1. c.update \in 1 .. Updates
  BY Sizes DEF Saved, WholeUpdates
<1> QED BY <1>1 DEF Saved

LEMMA UpdateCounts ==
  ASSUME Counted, at = "update", trainer' = Trained(trainer, rollout)
  PROVE  /\ trainer'.updates = trainer.updates + 1 /\ trainer.updates < Updates /\ trainer.updates \in Nat
         /\ trainer'.draws = trainer.draws
         /\ trainer'.trained = Append(trainer.trained, [samples |-> rollout, credit |-> Credit(rollout)])
<1>1. Whole(trainer) /\ trainer.updates < Updates /\ trainer.updates \in Nat
  BY WholeTrainer DEF Counted, Loop, WholeUpdates, InProgress
<1>2. /\ Trained(trainer, rollout).updates = trainer.updates + 1
      /\ Trained(trainer, rollout).draws = trainer.draws
      /\ Trained(trainer, rollout).trained = Append(trainer.trained, [samples |-> rollout, credit |-> Credit(rollout)])
  BY <1>1, WholeTrained
<1> QED BY <1>1, <1>2

LEMMA BestKept ==
  ASSUME merit' = merit, candidates' = candidates
  PROVE  Best(Pool)' = Best(Pool)
BY DEF Best, Pool

LEMMA LedgerKept ==
  ASSUME Ledger, UNCHANGED <<disk, candidates, merit, manifest>>,
         manifest # 0 => at' \in {"completed", "over"},
         InProgress' =>
           /\ InProgress /\ trainer'.updates = trainer.updates
           /\ (Reloaded' <=> Reloaded) /\ (Examined' => Examined)
           /\ (at' \in Ending => at \in Ending) /\ (at' = "checkpoint" => at = "checkpoint")
  PROVE  Ledger'
<1>1. \A c \in disk' : Saved(c)'
  BY SavedKept DEF Ledger
<1>2. InProgress' => Known'
  BY BestKept DEF Ledger, Known
<1>3. Announced'
  BY DEF Ledger, Announced
<1> QED BY <1>1, <1>2, <1>3 DEF Ledger

\* What a checkpoint would hold is right, and nothing like it is published yet.
LEMMA ThisIs ==
  ASSUME Control, Counted, Ledger, at = "checkpoint"
  PROVE  /\ ThisCheckpoint.update = trainer.updates /\ ThisCheckpoint \notin disk
         /\ \A c \in disk : c.update < trainer.updates /\ c.update \in Nat
<1>1. InProgress /\ Examined /\ ~Reloaded
  BY DEF InProgress, Examined, Reloaded, Evaluating
<1>2. ThisCheckpoint.update = trainer.updates
  BY DEF ThisCheckpoint, State
<1>3. ASSUME NEW c \in disk PROVE c.update < trainer.updates /\ c.update \in Nat
  <2>1. c.update <= trainer.updates /\ c.update # trainer.updates
    BY <1>1 DEF Ledger, Known
  <2>2. c.update \in Nat /\ trainer.updates \in Nat
    BY Sizes DEF Ledger, Saved, Counted, WholeUpdates
  <2> QED BY <2>1, <2>2
<1>4. trainer.updates \in Nat
  BY DEF Counted, WholeUpdates
<1> QED BY <1>2, <1>3, <1>4

LEMMA ThisSaved ==
  ASSUME Control, Counted, Ledger, at = "checkpoint", disk' = disk \cup {ThisCheckpoint}, merit' = merit
  PROVE  \A c \in disk' : Saved(c)'
<1>1. InProgress /\ Examined /\ ~Reloaded
  BY DEF InProgress, Examined, Reloaded, Evaluating
<1>2. PICK n : n = ThisCheckpoint
  OBVIOUS
<1>3. PICK parent : parent = IF candidates = <<>> THEN 0 ELSE Last(candidates)
  OBVIOUS
<1>4. /\ n.update = trainer.updates /\ n.trained = trainer.trained /\ n.torn = trainer.torn
      /\ n.draws = trainer.draws /\ n.parent = parent /\ n.result = merit[trainer.updates]
  BY <1>2, <1>3 DEF ThisCheckpoint, State
<1>5. /\ n.update # 0 /\ WholeUpdates(n.trained, n.update) /\ ~n.torn /\ n.draws \in Nat
      /\ Due(n.update) /\ n.result = merit[n.update] /\ n.result # Unknown
  BY <1>1, <1>4 DEF Counted, Ledger, Known
<1>6. /\ parent \in 0 .. Updates
      /\ \A d \in disk : d.update <= parent
      /\ parent # 0 => \E d \in disk : d.update = parent
  <2>1. CASE candidates = <<>>
    <3>1. ToSet(candidates) = {}
      BY <2>1 DEF ToSet
    <3>2. disk = {}
      BY <1>1, <3>1 DEF Ledger, Known
    <3> QED BY <1>3, <2>1, <3>2, Sizes
  <2>2. CASE candidates # <<>>
    <3>1. parent \in ToSet(candidates) /\ ToSet(candidates) \subseteq 1 .. Updates
      BY <1>3, <2>2, Listed DEF Ledger
    <3>2. \E d \in disk : d.update = parent
      BY <1>1, <3>1 DEF Ledger, Known
    <3>3. \A d \in disk : d.update <= parent
      BY <1>1, <1>3, <2>2 DEF Ledger, Known
    <3> QED BY <3>1, <3>2, <3>3
  <2> QED BY <2>1, <2>2
<1>7. \A d \in disk : d.update < n.update
  BY <1>2, <1>4, ThisIs
<1>8. n.update \in Nat /\ \A d \in disk : d.update \in Nat
  BY <1>5, Sizes DEF WholeUpdates, Ledger, Saved
<1>9. Saved(n)'
  <2>1. \A d \in disk' : d.update < n.update => d.update <= parent
    BY <1>2, <1>6, <1>8
  <2>2. parent # 0 => \E d \in disk' : d.update = parent
    BY <1>6
  <2> QED BY <1>4, <1>5, <1>6, <2>1, <2>2 DEF Saved
<1>10. ASSUME NEW c \in disk PROVE Saved(c)'
  <2>1. \A d \in disk' : d.update < c.update => d \in disk
    BY <1>2, <1>7, <1>8
  <2> QED BY <2>1 DEF Ledger, Saved
<1> QED BY <1>2, <1>9, <1>10

\* The directory after a CHECKPOINT that the driver did not see answered.
LEMMA LedgerLeft ==
  ASSUME Control, Counted, Ledger, ~InProgress', UNCHANGED <<candidates, merit, manifest>>,
         disk' = disk \/ (at = "checkpoint" /\ disk' = disk \cup {ThisCheckpoint}),
         manifest # 0 => at' = "over"
  PROVE  Ledger'
<1>1. \A c \in disk' : Saved(c)'
  BY SavedKept, ThisSaved DEF Ledger
<1>2. Announced'
  BY DEF Ledger, Announced
<1> QED BY <1>1, <1>2 DEF Ledger

LEMMA LedgerStep ==
  ASSUME Control, Counted, Ledger, Next
  PROVE  Ledger'
<1>1. ASSUME Start PROVE Ledger'
  BY <1>1, LedgerKept, Sizes DEF Start, NewTrainer, Counted, InProgress, Before, Examined, Reloaded, Announced, Ledger, Control, Loop, Evaluating, Ending, batch, workers, results
<1>2. ASSUME EvaluateStart PROVE Ledger'
  BY <1>2, LedgerKept, Sizes DEF EvaluateStart, InProgress, Examined, Reloaded, Announced, Ledger, Control, Loop, Evaluating, Ending, batch, results
<1>3. ASSUME EvaluatePlay PROVE Ledger'
  BY <1>3, LedgerKept, Sizes DEF EvaluatePlay, InProgress, Examined, Reloaded, Announced, Ledger, Control, Loop, Evaluating, Ending, batch, workers, results
<1>4. ASSUME EvaluateClose PROVE Ledger'
  <2>1. /\ at = "e_close" /\ UNCHANGED <<phase, trainer, disk, candidates, manifest>> /\ InProgress /\ manifest = 0
    BY <1>4 DEF EvaluateClose, Ledger, Announced, InProgress
  <2>2. CASE merit' = merit /\ (at' \in {"e_start", "t_start"} \/ (phase = "reload" /\ at' = "reloaded"))
    <3>1. phase = "random" \/ at' # "t_start"
      BY <1>4, Closing
    <3> QED BY <2>1, <2>2, <3>1, LedgerKept DEF InProgress, Examined, Reloaded, Evaluating, Ending
  <2>3. CASE /\ phase = "candidate" /\ at' = "checkpoint"
             /\ IF merit[trainer.updates] = Unknown
                THEN \E result \in Merits : merit' = [merit EXCEPT ![trainer.updates] = result]
                ELSE merit' = merit
    <3>1. Examined /\ Examined' /\ ~Reloaded /\ ~Reloaded' /\ at' \notin Ending
      BY <2>1, <2>3 DEF InProgress, Examined, Reloaded, Evaluating, Ending
    <3>2. trainer.updates \in 1 .. Updates
      BY <3>1 DEF Counted, WholeUpdates
    <3>3. /\ merit' \in [1 .. Updates -> Merits \cup {Unknown}]
          /\ merit'[trainer.updates] # Unknown
          /\ \A u \in 1 .. Updates : u # trainer.updates => merit'[u] = merit[u]
      <4>1. CASE merit[trainer.updates] = Unknown
        <5>1. PICK result \in Merits : merit' = [merit EXCEPT ![trainer.updates] = result]
          BY <2>3, <4>1
        <5>2. result # Unknown
          BY DEF Merits, Unknown
        <5> QED BY <3>2, <5>1, <5>2 DEF Ledger
      <4>2. CASE merit[trainer.updates] # Unknown
        BY <2>3, <4>2 DEF Ledger
      <4> QED BY <4>1, <4>2
    <3>4. \A c \in disk : c.update # trainer.updates
      BY <2>1, <3>1 DEF Ledger, Known
    <3>5. \A c \in disk' : Saved(c)'
      BY <2>1, <3>3, <3>4, SavedKept DEF Ledger
    <3>6. Known'
      BY <2>1, <2>3, <3>1, <3>3 DEF Ledger, Known
    <3> QED BY <2>1, <3>3, <3>5, <3>6 DEF Ledger, Announced
  <2> QED BY <1>4, <2>2, <2>3, Closing
<1>5. ASSUME TrainStart PROVE Ledger'
  BY <1>5, LedgerKept, Sizes DEF TrainStart, InProgress, Examined, Reloaded, Announced, Ledger, Control, Loop, Evaluating, Ending, results
<1>6. ASSUME Act PROVE Ledger'
  BY <1>6, LedgerKept, Sizes DEF Act, Sampled, Counted, InProgress, Before, Examined, Reloaded, Announced, Ledger, Control, Loop, Evaluating, Ending, workers, results
<1>7. ASSUME Step PROVE Ledger'
  BY <1>7, LedgerKept, Sizes DEF Step, InProgress, Examined, Reloaded, Announced, Ledger, Control, Loop, Evaluating, Ending, workers, results
<1>8. ASSUME Predict PROVE Ledger'
  BY <1>8, LedgerKept, Sizes DEF Predict, InProgress, Examined, Reloaded, Announced, Ledger, Control, Loop, Evaluating, Ending, batch, workers, results
<1>9. ASSUME Record PROVE Ledger'
  BY <1>9, LedgerKept, Sizes DEF Record, NextEnvironment, InProgress, Examined, Reloaded, Announced, Ledger, Control, Loop, Evaluating, Ending, workers, results
<1>10. ASSUME Replace PROVE Ledger'
  BY <1>10, LedgerKept, Sizes DEF Replace, NextEnvironment, InProgress, Examined, Reloaded, Announced, Ledger, Control, Loop, Evaluating, Ending, results
<1>11. ASSUME Assign PROVE Ledger'
  BY <1>11, LedgerKept, Sizes DEF Assign, InProgress, Examined, Reloaded, Announced, Ledger, Control, Loop, Evaluating, Ending, workers, results
<1>12. ASSUME Update PROVE Ledger'
  <2>1. /\ at = "update" /\ UNCHANGED <<disk, candidates, merit, manifest>> /\ manifest = 0 /\ InProgress /\ ~Reloaded
        /\ trainer' = Trained(trainer, rollout)
    BY <1>12 DEF Update, Ledger, Announced, results, InProgress, Reloaded, Evaluating
  <2>2. /\ at' = "act" \/ at' = "stop" \/ (at' = "e_start" /\ phase' = "candidate")
        /\ at' # "stop"
    <3>1. CASE Due(trainer'.updates)
      BY <1>12, <3>1 DEF Update
    <3>2. CASE ~Due(trainer'.updates)
      <4>1. More(trainer'.updates) /\ trainer'.updates # Updates
        BY <1>12, <3>2 DEF Update, Due
      <4>2. trainer'.updates = trainer.updates + 1 /\ trainer.updates < Updates /\ trainer.updates \in Nat
        BY <2>1, UpdateCounts
      <4>3. trainer'.updates < Updates
        BY <4>1, <4>2, Sizes
      <4> QED BY <4>1, <4>3 DEF More
    <3> QED BY <3>1, <3>2
  <2>3. trainer'.updates = trainer.updates + 1 /\ trainer.updates \in Nat
    BY <2>1, UpdateCounts
  <2>4. \A c \in disk : c.update <= trainer.updates /\ c.update \in Nat
    BY <2>1 DEF Ledger, Known, Saved, WholeUpdates
  <2>5. \A c \in disk' : Saved(c)'
    BY <2>1, SavedKept DEF Ledger
  <2>6. Known'
    <3>1. ~Reloaded' /\ at' \notin Ending /\ at' # "checkpoint"
      BY <2>2 DEF InProgress, Reloaded, Evaluating, Ending
    <3>2. \A c \in disk' : c.update <= trainer'.updates /\ c.update # trainer'.updates
      BY <2>1, <2>3, <2>4
    <3> QED BY <2>1, <3>1, <3>2 DEF Ledger, Known
  <2> QED BY <2>1, <2>5, <2>6 DEF Ledger, Announced
<1>13. ASSUME Checkpoint PROVE Ledger'
  <2>1. /\ at = "checkpoint" /\ disk' = disk \cup {ThisCheckpoint} /\ candidates' = Append(candidates, trainer.updates)
        /\ UNCHANGED <<trainer, merit, manifest>> /\ manifest = 0 /\ InProgress /\ Examined /\ ~Reloaded
        /\ phase' = "candidate"
    BY <1>13 DEF Checkpoint, Publish, Ledger, Announced, Control, InProgress, Examined, Reloaded, Evaluating, Ending
  <2>2. trainer.updates \in 1 .. Updates
    BY <2>1 DEF Counted, WholeUpdates
  <2>3. at' = "act" \/ (at' = "stop" /\ trainer.updates = Updates)
    BY <1>13, <2>2, Sizes DEF Checkpoint, More
  <2>4. PICK S : S = 1 .. Updates /\ candidates \in Seq(S) /\ trainer.updates \in S
    BY <2>2 DEF Ledger
  <2>5. /\ candidates' \in Seq(S) /\ candidates' # <<>> /\ Last(candidates') = trainer.updates
        /\ ToSet(candidates') = ToSet(candidates) \cup {trainer.updates}
    <3>1. PICK x, s : x = trainer.updates /\ s = candidates /\ x \in S /\ s \in Seq(S)
      BY <2>4
    <3>2. /\ Append(s, x) \in Seq(S) /\ Append(s, x) # <<>> /\ Last(Append(s, x)) = x
          /\ ToSet(Append(s, x)) = ToSet(s) \cup {x}
      BY <3>1, Listed
    <3>3. candidates' = Append(s, x)
      BY <2>1, <3>1
    <3> QED BY <3>1, <3>2, <3>3, Zenon
  <2>6. \A c \in disk' : Saved(c)'
    BY <2>1, ThisSaved
  <2>7. \A c \in disk' : c.update <= trainer.updates
    BY <2>1, <2>2, ThisIs
  <2>8. /\ \A c \in disk' : c.update \in ToSet(candidates')
        /\ \A u \in ToSet(candidates') : \E c \in disk' : c.update = u
    BY <2>1, <2>5, ThisIs DEF Ledger, Known
  <2>9. Known'
    <3>1. ~Reloaded' /\ ~Examined' /\ at' # "checkpoint" /\ (at' \in Ending => trainer.updates = Updates)
      BY <2>3 DEF InProgress, Examined, Reloaded, Evaluating, Ending
    <3> QED BY <2>1, <2>5, <2>7, <2>8, <3>1 DEF Known
  <2> QED BY <2>1, <2>4, <2>5, <2>6, <2>9 DEF Ledger, Announced
<1>14. ASSUME TrainClose PROVE Ledger'
  BY <1>14, LedgerKept, Sizes DEF TrainClose, InProgress, Examined, Reloaded, Announced, Ledger, Control, Loop, Evaluating, Ending, batch, results
<1>15. ASSUME CloseTrainer PROVE Ledger'
  BY <1>15, LedgerKept, Sizes DEF CloseTrainer, Counted, InProgress, Before, Examined, Reloaded, Announced, Ledger, Control, Loop, Evaluating, Ending, batch, workers, results
<1>16. ASSUME Select PROVE Ledger'
  <2>1. PICK saved \in disk : saved.update = Best(Pool) /\ trainer' = Loaded(saved)
    BY <1>16 DEF Select
  <2>2. /\ at = "select" /\ at' = "e_start" /\ phase' = "reload" /\ InProgress /\ manifest = 0
        /\ UNCHANGED <<disk, candidates, merit, manifest>>
    BY <1>16 DEF Select, results, InProgress, Ledger, Announced
  <2>3. trainer'.updates = Best(Pool)'
    BY <2>1, <2>2, WholeLoaded, BestKept DEF Ledger
  <2>4. Reloaded' /\ ~Examined' /\ at' \notin Ending /\ at' # "checkpoint" /\ at \in Ending
    BY <2>2 DEF InProgress, Examined, Reloaded, Evaluating, Ending
  <2>5. \A c \in disk' : Saved(c)'
    BY <2>2, SavedKept DEF Ledger
  <2>6. Known'
    BY <2>2, <2>3, <2>4 DEF Ledger, Known
  <2> QED BY <2>2, <2>5, <2>6 DEF Ledger, Announced
<1>17. ASSUME Finish PROVE Ledger'
  <2>1. /\ at = "reloaded" /\ at' = "completed" /\ phase' = phase /\ phase = "reload" /\ InProgress /\ Reloaded /\ Reloaded'
        /\ UNCHANGED <<disk, candidates, merit>> /\ manifest' = trainer.updates
        /\ trainer' = [trainer EXCEPT !.up = FALSE]
    BY <1>17 DEF Finish, Control, InProgress, Reloaded, Evaluating, Ending
  <2>2. trainer'.updates = trainer.updates /\ trainer.updates = Best(Pool)
    BY <2>1, TrainerLeft DEF Ledger, Known
  <2>3. candidates # <<>> /\ candidates \in Seq(1 .. Updates)
    BY <2>1 DEF Ledger, Known
  <2>4. PICK b : b = Best(Pool) /\ b \in Pool /\ \A v \in Pool : merit[b].score >= merit[v].score
    BY <2>3, PoolIs, BestIs DEF Ledger
  <2>5. PICK c \in disk : c.update = b
    BY <2>1, <2>3, <2>4, PoolIs DEF Ledger, Known
  <2>6. ASSUME NEW d \in disk, d.result.eligible
        PROVE  c.result.eligible /\ c.result.score >= d.result.score
    <3>1. d.update \in ToSet(candidates) /\ d.result = merit[d.update] /\ c.result = merit[b]
      BY <2>1, <2>5 DEF Ledger, Known, Saved
    <3>2. d.update \in Pool /\ \A v \in Pool : merit[v].eligible
      BY <2>3, <2>6, <3>1, PoolIs
    <3> QED BY <2>4, <3>1, <3>2
  <2>7. Announced'
    BY <2>1, <2>2, <2>4, <2>5, <2>6 DEF Announced
  <2>8. \A e \in disk' : Saved(e)'
    BY <2>1, SavedKept DEF Ledger
  <2>9. Known'
    BY <2>1, <2>2, BestKept DEF Ledger, Known, Examined, Evaluating, Ending
  <2> QED BY <2>1, <2>7, <2>8, <2>9 DEF Ledger
<1>18. ASSUME Exit PROVE Ledger'
  BY <1>18, LedgerKept, Sizes DEF Exit, InProgress, Examined, Reloaded, Announced, Ledger, Control, Loop, Evaluating, Ending, batch, results
<1>19. ASSUME Fail PROVE Ledger'
  <2>1. /\ at' = "failed" /\ UNCHANGED <<candidates, merit, manifest>> /\ ~InProgress'
        /\ disk' = disk \/ (at = "checkpoint" /\ disk' = disk \cup {ThisCheckpoint})
    BY <1>19, Failing DEF Failed, InProgress
  <2>2. manifest = 0
    BY <1>19 DEF Fail, WorkerFails, TrainerFails, UpdateFails, CheckpointFails, Ledger, Announced
  <2> QED BY <2>1, <2>2, LedgerLeft
<1>20. ASSUME Killed PROVE Ledger'
  <2>1. /\ at' = "over" /\ UNCHANGED <<candidates, merit, manifest>> /\ ~InProgress'
        /\ disk' = disk \/ (at = "checkpoint" /\ disk' = disk \cup {ThisCheckpoint})
    BY <1>20 DEF Killed, InProgress
  <2> QED BY <2>1, LedgerLeft
<1>21. ASSUME WorkerEnds PROVE Ledger'
  BY <1>21, LedgerKept, Sizes DEF WorkerEnds, InProgress, Examined, Reloaded, Announced, Ledger, Control, Loop, Evaluating, Ending, driver, batch, results
<1>22. ASSUME TrainerEnds PROVE Ledger'
  BY <1>22, LedgerKept, Sizes DEF TrainerEnds, Counted, InProgress, Before, Examined, Reloaded, Announced, Ledger, Control, Loop, Evaluating, Ending, driver, batch, workers, results
<1> QED BY <1>1, <1>2, <1>3, <1>4, <1>5, <1>6, <1>7, <1>8, <1>9, <1>10, <1>11, <1>12, <1>13, <1>14, <1>15, <1>16, <1>17, <1>18, <1>19, <1>20, <1>21, <1>22 DEF Next, Drive, Evaluate, Train
-----------------------------------------------------------------------------
(* Who holds which place.                                                  *)

LEMMA Names ==
  /\ \A e \in Env, k \in Nat : TrainName(EnvName(e, k), e)
  /\ \A name : Handle(Launched(name)) /\ Launched(name).name = name
  /\ Handle(Nobody) /\ Nobody.name = NoName
BY DEF TrainName, EnvName, Handle, Launched, Nobody

LEMMA SeatsStep ==
  ASSUME Control, Counted, Seats, Next
  PROVE  Seats'
<1>1. ASSUME Start PROVE Seats'
  BY <1>1, Names, Sizes DEF Start, Env, GuestName, Seats, Before, InTrain, InProgress, Control, Evaluating, Loop, Ending, Places, batch, workers, results
<1>2. ASSUME EvaluateStart PROVE Seats'
  BY <1>2, Names, Sizes DEF EvaluateStart, Env, GuestName, Seats, Before, InTrain, InProgress, Control, Evaluating, Loop, Ending, Places, batch, results
<1>3. ASSUME EvaluatePlay PROVE Seats'
  BY <1>3, Names, Sizes DEF EvaluatePlay, Env, GuestName, Seats, Before, InTrain, InProgress, Control, Evaluating, Loop, Ending, Places, batch, workers, results
<1>4. ASSUME EvaluateClose PROVE Seats'
  <2>1. /\ at = "e_close" /\ UNCHANGED <<phase, env, fresh, outcomes, trainer>> /\ guest' = Nobody /\ InProgress
    BY <1>4 DEF EvaluateClose, InProgress, batch
  <2>2. \/ phase = "random" /\ at' = "t_start" /\ i' = 1
        \/ at' = "e_start"
        \/ phase = "reload" /\ at' = "reloaded"
        \/ phase = "candidate" /\ at' = "checkpoint"
    BY <1>4, Closing
  <2> QED BY <2>1, <2>2, Sizes DEF Env, Seats, Before, InTrain, InProgress, Control, Evaluating, Loop, Ending, Places
<1>5. ASSUME TrainStart PROVE Seats'
  BY <1>5, Names, Sizes DEF TrainStart, Env, GuestName, Seats, Before, InTrain, InProgress, Control, Evaluating, Loop, Ending, Places, results
<1>6. ASSUME Act PROVE Seats'
  BY <1>6, Names, Sizes DEF Act, Env, GuestName, Seats, Before, InTrain, InProgress, Control, Evaluating, Loop, Ending, Places, workers, results
<1>7. ASSUME Step PROVE Seats'
  BY <1>7, Names, Sizes DEF Step, Env, GuestName, Seats, Before, InTrain, InProgress, Control, Evaluating, Loop, Ending, Places, workers, results
<1>8. ASSUME Predict PROVE Seats'
  BY <1>8, Names, Sizes DEF Predict, Env, GuestName, Seats, Before, InTrain, InProgress, Control, Evaluating, Loop, Ending, Places, batch, workers, results
<1>9. ASSUME Record PROVE Seats'
  <2>1. /\ at = "record" /\ UNCHANGED <<fresh, phase, trainer>> /\ i \in Env /\ InProgress /\ InTrain /\ DOMAIN env = Env
        /\ DOMAIN outcomes' = Env
    BY <1>9 DEF Record, Control, InProgress, InTrain, Seats
  <2>2. \/ at' = "record" /\ i' = i + 1 /\ guest' = guest
        \/ at' = "assign" /\ guest' = guest
        \/ at' = "replace" /\ i' = i /\ guest' = guest
    BY <1>9, <2>1 DEF Record, NextEnvironment, workers
  <2>3. env' = env \/ env' = ObservedNext(i)
    BY <1>9 DEF Record
  <2>4. /\ DOMAIN env' = Env
        /\ \A e \in Env : Handle(env'[e]) /\ env'[e].name = env[e].name
    <3>1. CASE env' = ObservedNext(i)
      <4>1. \A e \in Env : Handle(env[e])
        BY DEF Seats
      <4>2. env' = [env EXCEPT ![i] = [env[i] EXCEPT !.decision = @ + 1]]
        BY <3>1 DEF ObservedNext
      <4>3. PICK h : h = env[i] /\ Handle(h)
        BY <2>1, <4>1
      <4>4. Handle([h EXCEPT !.decision = @ + 1]) /\ [h EXCEPT !.decision = @ + 1].name = h.name
        BY <4>3 DEF Handle
      <4>5. env' = [env EXCEPT ![i] = [h EXCEPT !.decision = @ + 1]]
        BY <4>2, <4>3
      <4> QED BY <2>1, <4>1, <4>3, <4>4, <4>5
    <3>2. CASE env' = env
      BY <2>1, <3>2 DEF Seats
    <3> QED BY <2>3, <3>1, <3>2
  <2>5. \A e \in Env : Handle(fresh'[e]) /\ TrainName(env'[e].name, e)
    BY <2>1, <2>4 DEF Seats
  <2>6. \A e \in Env : fresh'[e] # Nobody => TrainName(fresh'[e].name, e)
    BY <2>1 DEF Seats
  <2>7. guest' = Nobody /\ DOMAIN fresh' = Env
    BY <2>1, <2>2 DEF Seats
  <2>8. at' \in {"record", "replace"} => \A e \in i' .. Envs : fresh'[e] = Nobody
    <3>1. \A e \in i .. Envs : fresh[e] = Nobody
      BY <2>1 DEF Seats
    <3> QED BY <2>1, <2>2, <3>1, Sizes DEF Env
  <2>9. at' \in {"record", "replace", "assign"}
    BY <2>2
  <2> QED BY <2>1, <2>4, <2>5, <2>6, <2>7, <2>8, <2>9 DEF Seats, Before, Evaluating
<1>10. ASSUME Replace PROVE Seats'
  <2>1. /\ at = "replace" /\ UNCHANGED <<env, outcomes, phase, trainer, guest>> /\ i \in Env /\ InProgress /\ InTrain
    BY <1>10 DEF Replace, Control, InProgress, InTrain
  <2>2. (at' = "record" /\ i' = i + 1) \/ at' = "assign"
    BY <1>10 DEF Replace, NextEnvironment
  <2>3. PICK k \in Nat : k = env[i].name.episode + 1
    BY <2>1 DEF Seats, TrainName
  <2>4. fresh' = [fresh EXCEPT ![i] = Launched(EnvName(i, k))]
    BY <1>10, <2>3 DEF Replace
  <2>5. /\ DOMAIN fresh' = Env /\ \A e \in Env : Handle(fresh'[e])
        /\ \A e \in Env : fresh'[e] # Nobody => TrainName(fresh'[e].name, e)
        /\ \A e \in i + 1 .. Envs : fresh'[e] = Nobody
    <3>1. /\ DOMAIN fresh = Env /\ \A e \in Env : Handle(fresh[e])
          /\ \A e \in Env : fresh[e] # Nobody => TrainName(fresh[e].name, e)
          /\ \A e \in i .. Envs : fresh[e] = Nobody
      BY <2>1 DEF Seats
    <3>2. PICK h : h = Launched(EnvName(i, k)) /\ Handle(h) /\ TrainName(h.name, i)
      BY <2>1, <2>3, Names
    <3>3. fresh' = [fresh EXCEPT ![i] = h]
      BY <2>4, <3>2
    <3>4. i + 1 .. Envs \subseteq i .. Envs /\ i \notin i + 1 .. Envs /\ i .. Envs \subseteq Env
      BY <2>1, Sizes DEF Env
    <3> QED BY <2>1, <3>1, <3>2, <3>3, <3>4
  <2>6. DOMAIN env' = Env /\ DOMAIN outcomes' = Env /\ \A e \in Env : Handle(env'[e]) /\ TrainName(env'[e].name, e)
    BY <2>1 DEF Seats
  <2>7. guest' = Nobody
    BY <2>1 DEF Seats
  <2> QED BY <2>1, <2>2, <2>5, <2>6, <2>7 DEF Seats, Before, Evaluating
<1>11. ASSUME Assign PROVE Seats'
  BY <1>11, Names, Sizes DEF Assign, Env, GuestName, Seats, Before, InTrain, InProgress, Control, Evaluating, Loop, Ending, Places, workers, results
<1>12. ASSUME Update PROVE Seats'
  BY <1>12, Names, Sizes DEF Update, More, Env, GuestName, Seats, Before, InTrain, InProgress, Control, Evaluating, Loop, Ending, Places, workers, results
<1>13. ASSUME Checkpoint PROVE Seats'
  BY <1>13, Names, Sizes DEF Checkpoint, More, Env, GuestName, Seats, Before, InTrain, InProgress, Control, Evaluating, Loop, Ending, Places, workers
<1>14. ASSUME TrainClose PROVE Seats'
  BY <1>14, Names, Sizes DEF TrainClose, Env, GuestName, Seats, Before, InTrain, InProgress, Control, Evaluating, Loop, Ending, Places, batch, results
<1>15. ASSUME CloseTrainer PROVE Seats'
  BY <1>15, Names, Sizes DEF CloseTrainer, Env, GuestName, Seats, Before, InTrain, InProgress, Control, Evaluating, Loop, Ending, Places, batch, workers, results
<1>16. ASSUME Select PROVE Seats'
  BY <1>16, Names, Sizes DEF Select, Env, GuestName, Seats, Before, InTrain, InProgress, Control, Evaluating, Loop, Ending, Places, batch, workers, results
<1>17. ASSUME Finish PROVE Seats'
  BY <1>17, Names, Sizes DEF Finish, Env, GuestName, Seats, Before, InTrain, InProgress, Control, Evaluating, Loop, Ending, Places, batch, workers
<1>18. ASSUME Exit PROVE Seats'
  BY <1>18, Names, Sizes DEF Exit, Env, GuestName, Seats, Before, InTrain, InProgress, Control, Evaluating, Loop, Ending, Places, batch, results
<1>19. ASSUME Fail PROVE Seats'
  BY <1>19, Failing DEF Failed, Seats, Before, InTrain, InProgress, Control, Evaluating, Loop, Ending, Places, batch
<1>20. ASSUME Killed PROVE Seats'
  BY <1>20, Names, Sizes DEF Killed, Env, GuestName, Seats, Before, InTrain, InProgress, Control, Evaluating, Loop, Ending, Places, batch
<1>21. ASSUME WorkerEnds PROVE Seats'
  BY <1>21, Names, Sizes DEF WorkerEnds, Env, GuestName, Seats, Before, InTrain, InProgress, Control, Evaluating, Loop, Ending, Places, driver, batch, results
<1>22. ASSUME TrainerEnds PROVE Seats'
  BY <1>22, Names, Sizes DEF TrainerEnds, Env, GuestName, Seats, Before, InTrain, InProgress, Control, Evaluating, Loop, Ending, Places, driver, batch, workers, results
<1> QED BY <1>1, <1>2, <1>3, <1>4, <1>5, <1>6, <1>7, <1>8, <1>9, <1>10, <1>11, <1>12, <1>13, <1>14, <1>15, <1>16, <1>17, <1>18, <1>19, <1>20, <1>21, <1>22 DEF Next, Drive, Evaluate, Train
-----------------------------------------------------------------------------
(* Who runs, and whom a pipe reaches.                                      *)

LEMMA SeatIs ==
  /\ \A h : Seat(h).name = h.name /\ Seat(h).slot = h.slot
  /\ Seat(Nobody).name = NoName /\ Seat(Nobody).slot = 0 /\ 0 \notin Slots
  /\ \A g, h : g.name = h.name /\ g.slot = h.slot => Seat(g) = Seat(h)
BY DEF Seat, Nobody, Slots

\* A seat is an environment's, the evaluation's, or nobody's.
LEMMA Named ==
  ASSUME Control, Seats, InProgress, NEW h \in Live, h # Seat(Nobody)
  PROVE  \/ \E e \in Staffed : h = Seat(Current(e)) /\ TrainName(h.name, e)
         \/ h = Seat(guest) /\ h.name = GuestName /\ phase \in {"random", "candidate", "reload"}
<1>1. CASE h = Seat(guest)
  <2>1. at \in {"e_play", "e_close"}
    BY <1>1 DEF Seats
  <2> QED BY <1>1, <2>1, SeatIs DEF Seats, Control, Evaluating
<1>2. ASSUME NEW e \in Staffed, h = Seat(Current(e))
      PROVE  TrainName(h.name, e)
  <2>1. e \in Env /\ h.name = Current(e).name /\ (InTrain \/ at = "t_start")
    BY <1>2, SeatIs DEF Staffed
  <2>2. CASE InTrain
    BY <2>1, <2>2 DEF Seats, Current
  <2>3. CASE at = "t_start"
    <3>1. Current(e) = env[e] /\ Current(e) # Nobody
      BY <1>2, <2>1, <2>3 DEF Seats, Current
    <3> QED BY <2>1, <2>3, <3>1 DEF Seats
  <2> QED BY <2>1, <2>2, <2>3
<1> QED BY <1>1, <1>2 DEF Live

LEMMA Distinct ==
  ASSUME Control, Seats, InProgress, NEW g \in Live, NEW h \in Live
  PROVE  /\ g.name = h.name => g = h
         /\ g # Seat(Nobody) => g.name # NoName
<1>1. ASSUME NEW k \in Live, k # Seat(Nobody)
      PROVE  k.name # NoName
  <2>1. NoName.phase = "none" /\ (\A e : TrainName(k.name, e) => k.name.phase = "train") /\ GuestName.phase = phase
    BY DEF NoName, TrainName, EnvName, GuestName
  <2>2. k.name.phase \in {"train", "random", "candidate", "reload"}
    BY <1>1, <2>1, Named
  <2> QED BY <2>1, <2>2
<1>2. ASSUME g # Seat(Nobody), h # Seat(Nobody), g.name = h.name
      PROVE  g = h
  <2>1. ASSUME NEW e \in Staffed, NEW f \in Staffed, g = Seat(Current(e)), TrainName(g.name, e),
               h = Seat(Current(f)), TrainName(h.name, f)
        PROVE  g = h
    <3>1. e = f
      BY <1>2, <2>1 DEF TrainName, EnvName
    <3> QED BY <2>1, <3>1
  <2>2. ASSUME NEW e, NEW name, TrainName(name, e), name = GuestName, phase \in {"random", "candidate", "reload"}
        PROVE  FALSE
    BY <2>2 DEF TrainName, EnvName, GuestName
  <2> QED BY <1>2, <2>1, <2>2, Named
<1> QED BY <1>1, <1>2, SeatIs

LEMMA SameCrew ==
  ASSUME Manned, Piped, InProgress, Live' = Live, UNCHANGED <<alive, pipes>>
  PROVE  Manned' /\ Piped'
BY DEF Manned, Piped

LEMMA Joined ==
  ASSUME Control, Seats, Manned, Piped, InProgress, guest = Nobody,
         NEW name, name # NoName, Launch(name), Live' = Live \cup {Seat(Launched(name))}
  PROVE  Manned' /\ Piped'
<1>1. FreeSlot \in Slots /\ pipes[FreeSlot] = NoName
  BY FreeSlotIs
<1>2. PICK slot : slot = FreeSlot
  OBVIOUS
<1>3. /\ alive' = alive \cup {name} /\ pipes' = [pipes EXCEPT ![slot] = name]
      /\ slot \in Slots /\ pipes[slot] = NoName
  BY <1>1, <1>2 DEF Launch
<1>4. PICK n : n = Seat(Launched(name)) /\ n.name = name /\ n.slot = slot
  BY <1>2, SeatIs DEF Launched
<1>5. Manned'
  BY <1>3, <1>4 DEF Manned
<1>6. DOMAIN pipes' = Slots /\ pipes'[slot] = name /\ \A s \in Slots \ {slot} : pipes'[s] = pipes[s]
  BY <1>3 DEF Piped
<1>7. ASSUME NEW h \in Live, h # Seat(Nobody)
      PROVE  h.slot \in Slots /\ pipes'[h.slot] = h.name
  <2>1. h.slot \in Slots /\ pipes[h.slot] = h.name /\ h.name # NoName
    BY <1>7, Distinct DEF Piped
  <2> QED BY <1>3, <1>6, <2>1
<1>8. ASSUME NEW s \in Slots, pipes'[s] # NoName
      PROVE  \E h \in Live' : h.slot = s /\ h.name = pipes'[s]
  <2>1. CASE s = slot
    BY <1>4, <1>6, <2>1
  <2>2. CASE s # slot
    BY <1>6, <1>8, <2>2 DEF Piped
  <2> QED BY <2>1, <2>2
<1>9. \A h \in Live' : h = Seat(Nobody) \/ (h.slot \in Slots /\ pipes'[h.slot] = h.name)
  <2> SUFFICES ASSUME NEW h \in Live', h # Seat(Nobody)
               PROVE  h.slot \in Slots /\ pipes'[h.slot] = h.name
    OBVIOUS
  <2>1. h \in Live \/ h = n
    BY <1>4
  <2> QED BY <1>3, <1>4, <1>6, <1>7, <2>1
<1>10. Piped'
  BY <1>6, <1>8, <1>9 DEF Piped
<1> QED BY <1>5, <1>10

LEMMA Gone ==
  ASSUME Control, Seats, Manned, Piped, InProgress, NEW held, Abort(held),
         \A g \in held : Seat(g) \in Live,
         Live' = {Seat(Nobody)} \cup (Live \ {Seat(g) : g \in held})
  PROVE  Manned' /\ Piped'
<1>1. PICK out : out = {Seat(g) : g \in held}
  OBVIOUS
<1>2. out \subseteq Live /\ Live' = {Seat(Nobody)} \cup (Live \ out)
  BY <1>1
<1>3. \A x : x \in {g.name : g \in held} <=> \E o \in out : o.name = x
  BY <1>1, SeatIs
<1>4. \A s : (\E g \in held : g.slot = s) <=> \E o \in out : o.slot = s
  BY <1>1, SeatIs
<1>5. \A x : x \in alive' <=> x \in alive /\ ~\E o \in out : o.name = x
  BY <1>3 DEF Abort
<1>6. Manned'
  <2>1. ASSUME NEW x \in alive'
        PROVE  \E h \in Live' : h.name = x
    <3>1. PICK h \in Live : h.name = x
      BY <1>5, <2>1 DEF Manned
    <3> QED BY <1>2, <1>5, <2>1, <3>1
  <2> QED BY <1>5, <2>1 DEF Manned
<1>7. /\ DOMAIN pipes' = Slots
      /\ \A s \in Slots : pipes'[s] = IF \E o \in out : o.slot = s THEN NoName ELSE pipes[s]
  BY <1>4 DEF Abort
<1>8. ASSUME NEW h \in Live', h # Seat(Nobody)
      PROVE  h.slot \in Slots /\ pipes'[h.slot] = h.name
  <2>1. h \in Live /\ h \notin out
    BY <1>2, <1>8
  <2>2. h.slot \in Slots /\ pipes[h.slot] = h.name
    BY <1>8, <2>1 DEF Piped
  <2>3. ASSUME NEW o \in out, o.slot = h.slot PROVE FALSE
    <3>1. o \in Live /\ o # Seat(Nobody)
      BY <1>2, <2>2, <2>3, SeatIs
    <3>2. pipes[o.slot] = o.name
      BY <3>1 DEF Piped
    <3>3. o = h
      BY <2>1, <2>2, <2>3, <3>1, <3>2, Distinct
    <3> QED BY <2>1, <3>3
  <2> QED BY <1>7, <2>2, <2>3
<1>9. ASSUME NEW s \in Slots, pipes'[s] # NoName
      PROVE  \E h \in Live' : h.slot = s /\ h.name = pipes'[s]
  <2>1. pipes'[s] = pipes[s] /\ ~\E o \in out : o.slot = s
    BY <1>7, <1>9
  <2>2. PICK h \in Live : h.slot = s /\ h.name = pipes[s]
    BY <1>9, <2>1 DEF Piped
  <2> QED BY <1>2, <2>1, <2>2
<1>10. Piped'
  BY <1>7, <1>8, <1>9 DEF Piped
<1> QED BY <1>6, <1>10

LEMMA StaffedIs ==
  /\ InTrain \/ at = "t_start" => Staffed = IF at = "replace" THEN Env \ {i} ELSE Env
  /\ ~(InTrain \/ at = "t_start") => Staffed = {}
BY DEF Staffed

LEMMA SameStaff ==
  ASSUME Staffed' = Staffed, guest' = guest,
         \A e \in Staffed : Seat(Current(e))' = Seat(Current(e))
  PROVE  Live' = Live
<1>1. Seat(guest)' = Seat(guest) /\ Seat(Nobody)' = Seat(Nobody)
  BY DEF Seat, Nobody
<1> QED BY <1>1 DEF Live

LEMMA OneMore ==
  ASSUME NEW n, NEW e \in Env, Env \ {e} \subseteq Staffed, Staffed' = Env,
         e \in Staffed => Seat(Current(e)) = Seat(Nobody),
         \A f \in Env \ {e} : Seat(Current(f))' = Seat(Current(f)),
         Seat(Current(e))' = n, Seat(Nobody)' = Seat(Nobody), Seat(guest)' = Seat(guest)
  PROVE  Live' = Live \cup {n}
<1>1. Live \subseteq Live' \cup {Seat(Nobody)}
  <2>1. ASSUME NEW f \in Staffed PROVE Seat(Current(f)) \in Live' \cup {Seat(Nobody)}
    <3>1. CASE f = e
      BY <3>1
    <3>2. CASE f # e
      <4>1. f \in Env \ {e}
        BY <3>2 DEF Staffed
      <4>2. Seat(Current(f))' \in Live'
        BY <4>1 DEF Live
      <4> QED BY <4>1, <4>2
    <3> QED BY <3>1, <3>2
  <2> QED BY <2>1 DEF Live
<1>2. Live' \subseteq Live \cup {n}
  BY DEF Live
<1>3. n \in Live' /\ Seat(Nobody) \in Live'
  BY DEF Live
<1> QED BY <1>1, <1>2, <1>3

LEMMA CurrentSame ==
  ASSUME NEW e, env'[e].name = env[e].name, env'[e].slot = env[e].slot, fresh'[e] = fresh[e]
  PROVE  Seat(Current(e))' = Seat(Current(e))
<1>1. CASE fresh[e] = Nobody
  <2>1. Current(e) = env[e] /\ Current(e)' = env'[e]
    BY <1>1 DEF Current, Nobody
  <2> QED BY <2>1 DEF Seat
<1>2. CASE fresh[e] # Nobody
  <2>1. Current(e) = fresh[e] /\ Current(e)' = fresh[e]
    BY <1>2 DEF Current, Nobody
  <2> QED BY <2>1 DEF Seat
<1> QED BY <1>1, <1>2

LEMMA CrewStep ==
  ASSUME Control, Control', Counted, Seats, Seats', Manned, Piped, Next
  PROVE  Manned' /\ Piped'
<1>1. ASSUME Start PROVE Manned' /\ Piped'
  <2>1. InProgress /\ UNCHANGED <<env, guest, alive, pipes>>
    BY <1>1 DEF Start, InProgress, batch, workers
  <2>2. UNCHANGED <<Staffed>>
    BY <1>1 DEF Start, Staffed, InTrain
  <2>3. \A e \in Staffed : Seat(Current(e))' = Seat(Current(e))
    BY <1>1, <2>1, CurrentSame DEF Start, batch
  <2> QED BY <2>1, <2>2, <2>3, SameStaff, SameCrew
<1>2. ASSUME EvaluateStart PROVE Manned' /\ Piped'
  <2>1. /\ InProgress /\ at = "e_start" /\ at' = "e_play" /\ UNCHANGED <<env, fresh, phase>>
        /\ Launch(GuestName) /\ guest' = Launched(GuestName)
    BY <1>2 DEF EvaluateStart, InProgress, batch
  <2>2. guest = Nobody /\ GuestName # NoName
    BY <2>1 DEF Seats, Control, Evaluating, GuestName, NoName
  <2>3. Staffed' = Staffed
    BY <2>1 DEF Staffed, InTrain
  <2>4. \A e \in Staffed : Seat(Current(e))' = Seat(Current(e))
    BY <2>1, CurrentSame
  <2>5. Live' = Live \cup {Seat(Launched(GuestName))}
    <3>1. Seat(guest)' = Seat(Launched(GuestName)) /\ Seat(Nobody)' = Seat(Nobody) /\ Seat(guest) = Seat(Nobody)
      BY <2>1, <2>2 DEF Seat, Nobody
    <3> QED BY <2>3, <2>4, <3>1 DEF Live
  <2> QED BY <2>1, <2>2, <2>5, Joined
<1>3. ASSUME EvaluatePlay PROVE Manned' /\ Piped'
  <2>1. InProgress /\ UNCHANGED <<env, guest, alive, pipes>>
    BY <1>3 DEF EvaluatePlay, InProgress, batch, workers
  <2>2. UNCHANGED <<Staffed>>
    BY <1>3 DEF EvaluatePlay, Staffed, InTrain
  <2>3. \A e \in Staffed : Seat(Current(e))' = Seat(Current(e))
    BY <1>3, <2>1, CurrentSame DEF EvaluatePlay, batch
  <2> QED BY <2>1, <2>2, <2>3, SameStaff, SameCrew
<1>4. ASSUME EvaluateClose PROVE Manned' /\ Piped'
  <2>1. /\ InProgress /\ at = "e_close" /\ UNCHANGED <<env, fresh, phase>> /\ Abort({guest}) /\ guest' = Nobody
    BY <1>4 DEF EvaluateClose, InProgress, batch, Close
  <2>2. /\ phase = "random" => at' \in {"e_start", "t_start"} /\ Staffed = {}
        /\ phase = "candidate" => at' \in {"e_start", "checkpoint"} /\ Staffed = Env
        /\ phase = "reload" => at' \in {"e_start", "reloaded"} /\ Staffed = {}
    BY <1>4, <2>1, Closing DEF Staffed, InTrain
  <2>3. Seat(guest)' = Seat(Nobody) /\ Seat(Nobody)' = Seat(Nobody)
    BY <2>1 DEF Seat, Nobody
  <2>4. CASE phase = "candidate" \/ at' # "t_start"
    <3>1. Staffed' = Staffed
      BY <2>1, <2>2, <2>4, <1>4, Closing DEF Staffed, InTrain
    <3>2. \A e \in Staffed : Seat(Current(e))' = Seat(Current(e))
      BY <2>1, CurrentSame
    <3>3. ASSUME NEW e \in Staffed PROVE Seat(Current(e)) # Seat(guest)
      <4>1. phase = "candidate" /\ InTrain /\ e \in Env
        BY <2>1, <3>3 DEF Staffed, InTrain
      <4>2. fresh[e] = Nobody /\ TrainName(env[e].name, e) /\ guest.name = GuestName
        BY <2>1, <4>1 DEF Seats
      <4>3. Current(e) = env[e] /\ env[e].name.phase = "train" /\ guest.name.phase = phase
        BY <4>2 DEF TrainName, EnvName, GuestName, Current
      <4> QED BY <4>1, <4>3, SeatIs
    <3>4. Live' = {Seat(Nobody)} \cup (Live \ {Seat(g) : g \in {guest}})
      BY <2>3, <3>1, <3>2, <3>3 DEF Live
    <3> QED BY <2>1, <3>4, Gone DEF Live
  <2>5. CASE phase # "candidate" /\ at' = "t_start"
    <3>1. phase = "random" /\ Staffed = {}
      BY <1>4, <2>2, <2>5, Closing
    <3>2. \A e \in Env : env[e] = Nobody /\ fresh[e] = Nobody
      BY <2>1, <3>1 DEF Seats, Before, Evaluating
    <3>3. \A e \in Staffed' : Seat(Current(e))' = Seat(Nobody)
      BY <2>1, <3>2 DEF Current, Seat, Nobody, Staffed
    <3>4. Live' = {Seat(Nobody)} \cup (Live \ {Seat(g) : g \in {guest}})
      BY <2>3, <3>1, <3>3 DEF Live
    <3> QED BY <2>1, <3>4, Gone DEF Live
  <2> QED BY <2>4, <2>5
<1>5. ASSUME TrainStart PROVE Manned' /\ Piped'
  <2>1. /\ InProgress /\ at = "t_start" /\ UNCHANGED <<guest, fresh>> /\ i \in Env /\ guest = Nobody
        /\ Launch(EnvName(i, 0)) /\ env' = [env EXCEPT ![i] = Launched(EnvName(i, 0))]
    BY <1>5 DEF TrainStart, InProgress, Control, Seats
  <2>2. at' \in {"t_start", "act"}
    BY <1>5, <2>1 DEF TrainStart
  <2>3. Staffed = Env /\ Staffed' = Env
    BY <2>1, <2>2 DEF Staffed, InTrain
  <2>4. /\ DOMAIN env = Env /\ env[i] = Nobody /\ \A e \in Env : fresh[e] = Nobody
    BY <2>1, Sizes DEF Seats, Env
  <2>5. \A e \in Env \ {i} : Seat(Current(e))' = Seat(Current(e))
    BY <2>1, <2>4, CurrentSame
  <2>6. PICK h, k : h = Launched(EnvName(i, 0)) /\ k = i
    OBVIOUS
  <2>7. /\ Seat(Current(k)) = Seat(Nobody) /\ Seat(Current(k))' = Seat(h)
        /\ Seat(Nobody)' = Seat(Nobody) /\ Seat(guest)' = Seat(Nobody) /\ Seat(guest) = Seat(Nobody)
    <3>1. env'[k] = h /\ fresh'[k] = Nobody /\ Nobody' = Nobody
      BY <2>1, <2>4, <2>6 DEF Nobody
    <3>2. Current(k) = Nobody /\ Current(k)' = h
      BY <2>1, <2>4, <2>6, <3>1 DEF Current
    <3>3. Seat(guest) = Seat(Nobody) /\ Seat(guest)' = Seat(Nobody) /\ Seat(Nobody)' = Seat(Nobody)
      BY <2>1 DEF Seat, Nobody
    <3>4. Seat(Current(k))' = Seat(h)
      BY <3>2 DEF Seat
    <3> QED BY <3>2, <3>3, <3>4
  <2>8. Live' = Live \cup {Seat(h)}
    BY <2>1, <2>3, <2>5, <2>6, <2>7, OneMore
  <2>9. EnvName(i, 0) # NoName
    BY DEF EnvName, NoName
  <2> QED BY <2>1, <2>6, <2>9, <2>8, Joined
<1>6. ASSUME Act PROVE Manned' /\ Piped'
  <2>1. InProgress /\ UNCHANGED <<env, guest, alive, pipes>> /\ at = "act" /\ at' = "step"
    BY <1>6 DEF Act, InProgress, workers
  <2>2. Staffed' = Staffed
    BY <2>1 DEF Staffed, InTrain
  <2>3. \A e \in Env : fresh[e] = Nobody /\ fresh'[e] = Nobody
    BY <1>6, <2>1 DEF Act, Seats
  <2>4. \A e \in Staffed : Seat(Current(e))' = Seat(Current(e))
    BY <2>1, <2>3, CurrentSame DEF Staffed
  <2> QED BY <2>1, <2>2, <2>4, SameStaff, SameCrew
<1>7. ASSUME Step PROVE Manned' /\ Piped'
  <2>1. InProgress /\ UNCHANGED <<env, guest, alive, pipes>>
    BY <1>7 DEF Step, InProgress, workers
  <2>2. UNCHANGED <<Staffed>>
    BY <1>7 DEF Step, Staffed, InTrain
  <2>3. \A e \in Staffed : Seat(Current(e))' = Seat(Current(e))
    BY <1>7, <2>1, CurrentSame DEF Step
  <2> QED BY <2>1, <2>2, <2>3, SameStaff, SameCrew
<1>8. ASSUME Predict PROVE Manned' /\ Piped'
  <2>1. InProgress /\ UNCHANGED <<env, guest, alive, pipes>>
    BY <1>8 DEF Predict, InProgress, batch, workers
  <2>2. UNCHANGED <<Staffed>>
    BY <1>8 DEF Predict, Staffed, InTrain
  <2>3. \A e \in Staffed : Seat(Current(e))' = Seat(Current(e))
    BY <1>8, <2>1, CurrentSame DEF Predict, batch
  <2> QED BY <2>1, <2>2, <2>3, SameStaff, SameCrew
<1>9. ASSUME Record PROVE Manned' /\ Piped'
  <2>1. /\ InProgress /\ InTrain /\ at = "record" /\ UNCHANGED <<phase, fresh>> /\ i \in Env /\ guest = Nobody
        /\ Staffed = Env /\ fresh[i] = Nobody
    BY <1>9, Sizes DEF Record, InProgress, InTrain, Control, Seats, Staffed, Env
  <2>2. CASE outcomes[i] = "NONE"
    <3>1. /\ env' = ObservedNext(i) /\ NextEnvironment /\ UNCHANGED <<guest, alive, pipes>>
      BY <1>9, <2>2 DEF Record, workers
    <3>2. Staffed' = Env
      BY <3>1 DEF NextEnvironment, Staffed, InTrain
    <3>3. \A e \in Env : env'[e].name = env[e].name /\ env'[e].slot = env[e].slot
      <4>1. DOMAIN env = Env /\ \A e \in Env : Handle(env[e])
        BY DEF Seats
      <4>2. PICK h : h = env[i] /\ Handle(h)
        BY <2>1, <4>1
      <4>3. env' = [env EXCEPT ![i] = [h EXCEPT !.decision = @ + 1]]
        BY <3>1, <4>2 DEF ObservedNext
      <4>4. [h EXCEPT !.decision = @ + 1].name = h.name /\ [h EXCEPT !.decision = @ + 1].slot = h.slot
        BY <4>2 DEF Handle
      <4> QED BY <2>1, <4>1, <4>2, <4>3, <4>4
    <3>4. \A e \in Staffed : Seat(Current(e))' = Seat(Current(e))
      BY <2>1, <3>3, CurrentSame
    <3> QED BY <2>1, <3>1, <3>2, <3>4, SameStaff, SameCrew
  <2>3. CASE outcomes[i] # "NONE"
    <3>1. /\ Abort({env[i]}) /\ at' = "replace" /\ UNCHANGED <<i, env, guest>>
      BY <1>9, <2>3 DEF Record, Close
    <3>2. Staffed' = Env \ {i}
      BY <2>1, <3>1 DEF Staffed, InTrain
    <3>3. \A e \in Env : Seat(Current(e))' = Seat(Current(e))
      BY <2>1, <3>1, CurrentSame
    <3>4. Current(i) = env[i] /\ Seat(guest)' = Seat(guest) /\ Seat(Nobody)' = Seat(Nobody) /\ Seat(guest) = Seat(Nobody)
      BY <2>1, <3>1 DEF Current, Seat, Nobody
    <3>5. ASSUME NEW e \in Env \ {i} PROVE Seat(Current(e)) # Seat(env[i])
      <4>1. TrainName(Current(e).name, e) /\ TrainName(env[i].name, i)
        BY <2>1 DEF Seats, Current
      <4>2. Current(e).name.env = e /\ env[i].name.env = i
        BY <4>1 DEF TrainName, EnvName
      <4> QED BY <4>2, SeatIs
    <3>6. Live' = {Seat(Nobody)} \cup (Live \ {Seat(g) : g \in {env[i]}})
      BY <2>1, <3>2, <3>3, <3>4, <3>5 DEF Live
    <3>7. Seat(env[i]) \in Live
      BY <2>1, <3>4 DEF Live
    <3> QED BY <2>1, <3>1, <3>6, <3>7, Gone
  <2> QED BY <2>2, <2>3
<1>10. ASSUME Replace PROVE Manned' /\ Piped'
  <2>1. /\ InProgress /\ at = "replace" /\ UNCHANGED <<env, guest, phase>> /\ i \in Env /\ guest = Nobody
        /\ Staffed = Env \ {i} /\ fresh[i] = Nobody /\ DOMAIN fresh = Env
    BY <1>10, Sizes DEF Replace, InProgress, InTrain, Control, Seats, Staffed, Env
  <2>2. PICK name : /\ name = EnvName(i, env[i].name.episode + 1)
                    /\ Launch(name) /\ fresh' = [fresh EXCEPT ![i] = Launched(name)]
    BY <1>10 DEF Replace
  <2>3. NextEnvironment
    BY <1>10 DEF Replace
  <2>4. Staffed' = Env
    BY <2>3 DEF NextEnvironment, Staffed, InTrain
  <2>5. \A e \in Env \ {i} : Seat(Current(e))' = Seat(Current(e))
    BY <2>1, <2>2, CurrentSame
  <2>6. name # NoName /\ Launched(name) # Nobody
    BY <2>2 DEF EnvName, NoName, Launched, Nobody
  <2>7. PICK k : k = i
    OBVIOUS
  <2>8. /\ Seat(Current(k))' = Seat(Launched(name))
        /\ Seat(Nobody)' = Seat(Nobody) /\ Seat(guest)' = Seat(Nobody) /\ Seat(guest) = Seat(Nobody)
    <3>1. PICK h : h = Launched(name) /\ h # Nobody
      BY <2>6
    <3>2. fresh'[k] = h
      BY <2>1, <2>2, <2>7, <3>1
    <3>3. Nobody' = Nobody
      BY DEF Nobody, NoName
    <3>4. Current(k)' = h
      BY <3>1, <3>2, <3>3 DEF Current
    <3>5. Seat(Current(k))' = Seat(h)
      BY <3>4 DEF Seat
    <3> QED BY <2>1, <3>1, <3>5 DEF Seat, Nobody
  <2>9. Live' = Live \cup {Seat(Launched(name))}
    BY <2>1, <2>4, <2>5, <2>8, <2>7, OneMore
  <2> QED BY <2>1, <2>6, <2>2, <2>9, Joined
<1>11. ASSUME Assign PROVE Manned' /\ Piped'
  <2>1. /\ InProgress /\ at = "assign" /\ UNCHANGED <<guest, phase, alive, pipes>>
        /\ env' = [e \in Env |-> IF fresh[e] = Nobody THEN env[e] ELSE fresh[e]]
        /\ fresh' = [e \in Env |-> Nobody] /\ at' \in {"act", "update"}
    BY <1>11 DEF Assign, InProgress, workers
  <2>2. Staffed = Env /\ Staffed' = Env
    BY <2>1 DEF Staffed, InTrain
  <2>3. ASSUME NEW e \in Env PROVE Seat(Current(e))' = Seat(Current(e))
    <3>1. env'[e] = Current(e) /\ fresh'[e] = Nobody
      BY <2>1 DEF Current
    <3>2. Current(e)' = env'[e]
      BY <3>1 DEF Current, Nobody
    <3> QED BY <3>1, <3>2 DEF Seat
  <2> QED BY <2>1, <2>2, <2>3, SameStaff, SameCrew
<1>12. ASSUME Update PROVE Manned' /\ Piped'
  <2>1. InProgress /\ UNCHANGED <<env, fresh, guest, alive, pipes>>
    BY <1>12 DEF Update, InProgress, workers
  <2>2. at = "update" /\ (at' \in {"act", "stop"} \/ (at' = "e_start" /\ phase' = "candidate"))
    BY <1>12 DEF Update, More
  <2>3. Staffed' = Env /\ Staffed = Env
    BY <2>2 DEF Staffed, InTrain
  <2>4. \A e \in Staffed : Seat(Current(e))' = Seat(Current(e))
    BY <2>1, CurrentSame
  <2> QED BY <2>1, <2>3, <2>4, SameStaff, SameCrew
<1>13. ASSUME Checkpoint PROVE Manned' /\ Piped'
  <2>1. InProgress /\ UNCHANGED <<env, guest, alive, pipes>>
    BY <1>13 DEF Checkpoint, InProgress, workers
  <2>2. UNCHANGED <<Staffed>>
    BY <1>13 DEF Checkpoint, Staffed, InTrain, More, Control
  <2>3. \A e \in Staffed : Seat(Current(e))' = Seat(Current(e))
    BY <1>13, <2>1, CurrentSame DEF Checkpoint
  <2> QED BY <2>1, <2>2, <2>3, SameStaff, SameCrew
<1>14. ASSUME TrainClose PROVE Manned' /\ Piped'
  <2>1. /\ InProgress /\ at = "stop" /\ at' = "close" /\ UNCHANGED <<env, fresh, guest, phase>> /\ guest = Nobody
        /\ Abort({env[e] : e \in Env})
    BY <1>14 DEF TrainClose, InProgress, batch, Close, Seats
  <2>2. Staffed = Env /\ Staffed' = {} /\ \A e \in Env : Current(e) = env[e]
    BY <2>1 DEF Staffed, InTrain, Seats, Current
  <2>3. Seat(Nobody)' = Seat(Nobody) /\ Seat(guest)' = Seat(Nobody) /\ Seat(guest) = Seat(Nobody)
    BY <2>1 DEF Seat, Nobody
  <2>4. Live = {Seat(g) : g \in {env[e] : e \in Env}} \cup {Seat(Nobody)} /\ Live' = {Seat(Nobody)}
    BY <2>2, <2>3 DEF Live
  <2> QED BY <2>1, <2>4, Gone
<1>15. ASSUME CloseTrainer PROVE Manned' /\ Piped'
  <2>1. InProgress /\ UNCHANGED <<env, guest, alive, pipes>>
    BY <1>15 DEF CloseTrainer, InProgress, batch, workers
  <2>2. UNCHANGED <<Staffed>>
    BY <1>15 DEF CloseTrainer, Staffed, InTrain
  <2>3. \A e \in Staffed : Seat(Current(e))' = Seat(Current(e))
    BY <1>15, <2>1, CurrentSame DEF CloseTrainer, batch
  <2> QED BY <2>1, <2>2, <2>3, SameStaff, SameCrew
<1>16. ASSUME Select PROVE Manned' /\ Piped'
  <2>1. InProgress /\ UNCHANGED <<env, guest, alive, pipes>>
    BY <1>16 DEF Select, InProgress, batch, workers
  <2>2. UNCHANGED <<Staffed>>
    BY <1>16 DEF Select, Staffed, InTrain
  <2>3. \A e \in Staffed : Seat(Current(e))' = Seat(Current(e))
    BY <1>16, <2>1, CurrentSame DEF Select, batch
  <2> QED BY <2>1, <2>2, <2>3, SameStaff, SameCrew
<1>17. ASSUME Finish PROVE Manned' /\ Piped'
  <2>1. InProgress /\ UNCHANGED <<env, fresh, guest, alive, pipes>>
    BY <1>17 DEF Finish, InProgress, batch, workers
  <2>2. at = "reloaded" /\ at' = "completed" /\ phase' = phase
    BY <1>17 DEF Finish
  <2>3. Staffed' = {} /\ Staffed = {}
    BY <2>2 DEF Staffed, InTrain
  <2> QED BY <2>1, <2>3, SameStaff, SameCrew
<1>18. ASSUME Exit PROVE Manned' /\ Piped'
  <2>1. ~InProgress' /\ alive' = alive /\ DOMAIN pipes' = Slots
    BY <1>18 DEF Exit, InProgress
  <2> QED BY <2>1 DEF Manned, Piped
<1>19. ASSUME Fail PROVE Manned' /\ Piped'
  <2>1. ~InProgress' /\ alive' \subseteq alive /\ DOMAIN pipes' = Slots
    BY <1>19, Failing DEF Failed, InProgress, Abort
  <2> QED BY <2>1 DEF Manned, Piped
<1>20. ASSUME Killed PROVE Manned' /\ Piped'
  <2>1. ~InProgress' /\ alive' = alive /\ DOMAIN pipes' = Slots
    BY <1>20 DEF Killed, InProgress
  <2> QED BY <2>1 DEF Manned, Piped
<1>21. ASSUME WorkerEnds PROVE Manned' /\ Piped'
  <2>1. alive' \subseteq alive /\ UNCHANGED <<at, i, phase, env, fresh, guest, pipes>>
    BY <1>21 DEF WorkerEnds, driver, batch
  <2>2. (InProgress' <=> InProgress) /\ Staffed' = Staffed
    BY <2>1 DEF InProgress, Staffed, InTrain
  <2>3. \A e \in Staffed : Seat(Current(e))' = Seat(Current(e))
    BY <2>1, CurrentSame
  <2>4. Live' = Live
    BY <2>1, <2>2, <2>3, SameStaff
  <2> QED BY <2>1, <2>2, <2>4 DEF Manned, Piped
<1>22. ASSUME TrainerEnds PROVE Manned' /\ Piped'
  <2>1. ~InProgress' /\ UNCHANGED <<alive, pipes>>
    BY <1>22 DEF TrainerEnds, driver, workers, InProgress
  <2> QED BY <2>1 DEF Manned, Piped
<1> QED BY <1>1, <1>2, <1>3, <1>4, <1>5, <1>6, <1>7, <1>8, <1>9, <1>10, <1>11, <1>12, <1>13, <1>14, <1>15, <1>16, <1>17, <1>18, <1>19, <1>20, <1>21, <1>22 DEF Next, Drive, Evaluate, Train
LEMMA NameSame ==
  ASSUME NEW e, env'[e].name = env[e].name, fresh'[e] = fresh[e]
  PROVE  Current(e)'.name = Current(e).name
<1>1. CASE fresh[e] = Nobody
  BY <1>1 DEF Current, Nobody
<1>2. CASE fresh[e] # Nobody
  BY <1>2 DEF Current, Nobody
<1> QED BY <1>1, <1>2

LEMMA RootedStep ==
  ASSUME Control, Counted, Ledger, Seats, Seats', Rooted, Next
  PROVE  Rooted'
<1>1. ASSUME Start PROVE Rooted'
  <2>1. used' = used /\ at = "start" /\ phase = "none" /\ InProgress
    BY <1>1 DEF Start, workers, Control, InProgress
  <2> QED BY <2>1 DEF Rooted, UsedRight
<1>2. ASSUME EvaluateStart PROVE Rooted'
  <2>1. /\ used' = used \cup {GuestName} /\ UNCHANGED <<env, fresh, trainer, phase, i>>
        /\ at = "e_start" /\ at' = "e_play" /\ InProgress
    BY <1>2 DEF EvaluateStart, batch, Launch, InProgress
  <2>2. ASSUME NEW n, UsedRight(n) PROVE UsedRight(n)'
    <3>1. Current(n.env)'.name = Current(n.env).name
      BY <2>1, NameSame
    <3> QED BY <2>1, <2>2, <3>1, Sizes DEF UsedRight, InProgress, InTrain, Evaluating, Loop, Ending, Control, GuestName
  <2>3. PICK g : g = GuestName
    OBVIOUS
  <2>4. UsedRight(g)'
    <3>1. /\ g.phase = phase /\ g.env = i /\ phase \in {"random", "candidate", "reload"} /\ i \in Nat
          /\ g.episode \in Nat /\ (phase = "candidate" => g.episode <= trainer.updates)
      BY <2>1, <2>3, Sizes DEF GuestName, Control, Evaluating, Counted, WholeUpdates
    <3> QED BY <2>1, <3>1 DEF UsedRight
  <2> QED BY <2>1, <2>2, <2>3, <2>4 DEF Rooted
<1>3. ASSUME EvaluatePlay PROVE Rooted'
  <2>1. used' = used /\ UNCHANGED <<env, fresh>>
    BY <1>3 DEF EvaluatePlay, batch, workers
  <2>2. ASSUME NEW n, UsedRight(n) PROVE UsedRight(n)'
    <3>1. Current(n.env)'.name = Current(n.env).name
      BY <2>1, NameSame
    <3> QED BY <1>3, <2>1, <2>2, <3>1 DEF EvaluatePlay, UsedRight, InProgress, InTrain, Evaluating, Loop, Ending, Control, GuestName
  <2> QED BY <2>1, <2>2 DEF Rooted
<1>4. ASSUME EvaluateClose PROVE Rooted'
  <2>1. used' = used /\ UNCHANGED <<env, fresh, trainer, phase>> /\ at = "e_close"
    BY <1>4 DEF EvaluateClose, batch, Close
  <2>2. ASSUME NEW n, UsedRight(n) PROVE UsedRight(n)'
    <3>1. Current(n.env)'.name = Current(n.env).name
      BY <2>1, NameSame
    <3>2. n.env \in Nat
      BY <2>2 DEF UsedRight
    <3> QED BY <1>4, <2>1, <2>2, <3>1, <3>2, Closing DEF UsedRight, InProgress, InTrain, Evaluating, Loop, Ending, Control, GuestName
  <2> QED BY <2>1, <2>2 DEF Rooted
<1>5. ASSUME TrainStart PROVE Rooted'
  <2>1. PICK k, h : k = i /\ h = Launched(EnvName(i, 0)) /\ h.name = EnvName(k, 0)
    BY Names
  <2>2. /\ used' = used \cup {EnvName(k, 0)} /\ UNCHANGED <<fresh, trainer, phase>>
        /\ env' = [env EXCEPT ![k] = h]
        /\ at = "t_start" /\ InProgress /\ k \in Env /\ phase = "random"
        /\ IF k < Envs THEN i' = k + 1 /\ at' = "t_start" ELSE i' = i /\ at' = "act"
    BY <1>5, <2>1 DEF TrainStart, Launch, InProgress, Control
  <2>3. DOMAIN env = Env /\ \A e \in Env : fresh[e] = Nobody
    BY <2>2 DEF Seats
  <2>4. ASSUME NEW n, n \in used, UsedRight(n) PROVE UsedRight(n)'
    <3>1. n.phase = "train" => n.env \in Env /\ n.env < k /\ n.episode <= Current(n.env).name.episode
      BY <2>1, <2>2, <2>4 DEF UsedRight
    <3>2. n.phase = "train" => Current(n.env)'.name = Current(n.env).name
      <4>1. n.phase = "train" => env'[n.env] = env[n.env]
        BY <2>2, <2>3, <3>1 DEF Env
      <4> QED BY <2>2, <4>1, NameSame
    <3> QED BY <2>1, <2>2, <2>4, <3>1, <3>2, Sizes DEF UsedRight, InProgress, InTrain, Evaluating, Env
  <2>5. PICK m : m = EnvName(k, 0)
    OBVIOUS
  <2>6. UsedRight(m)'
    <3>1. m.phase = "train" /\ m.env = k /\ m.episode = 0 /\ k \in Nat
      BY <2>2, <2>5, Sizes DEF EnvName, Env
    <3>2. Current(k)'.name = m
      BY <2>1, <2>2, <2>3, <2>5 DEF Current, Nobody
    <3> QED BY <2>1, <2>2, <3>1, <3>2, Sizes DEF UsedRight, InProgress, InTrain, Evaluating, Env
  <2> QED BY <2>2, <2>4, <2>5, <2>6 DEF Rooted
<1>6. ASSUME Act PROVE Rooted'
  <2>1. used' = used /\ UNCHANGED <<env, phase>> /\ at = "act" /\ at' = "step" /\ trainer'.updates = trainer.updates
    BY <1>6, WholeTrainer, WholeSampled DEF Act, workers, InProgress
  <2>2. \A e \in Env : fresh[e] = Nobody /\ fresh'[e] = Nobody
    BY <1>6, <2>1 DEF Act, Seats, InProgress
  <2>3. ASSUME NEW n, UsedRight(n) PROVE UsedRight(n)'
    <3>1. n.env \in Env => Current(n.env)'.name = Current(n.env).name
      BY <2>1, <2>2, NameSame
    <3> QED BY <2>1, <2>3, <3>1 DEF UsedRight, InProgress, InTrain, Evaluating, Loop, Ending, Control, GuestName
  <2> QED BY <2>1, <2>3 DEF Rooted
<1>7. ASSUME Step PROVE Rooted'
  <2>1. used' = used /\ UNCHANGED <<env, fresh>>
    BY <1>7 DEF Step, workers
  <2>2. ASSUME NEW n, UsedRight(n) PROVE UsedRight(n)'
    <3>1. Current(n.env)'.name = Current(n.env).name
      BY <2>1, NameSame
    <3> QED BY <1>7, <2>1, <2>2, <3>1 DEF Step, UsedRight, InProgress, InTrain, Evaluating, Loop, Ending, Control, GuestName
  <2> QED BY <2>1, <2>2 DEF Rooted
<1>8. ASSUME Predict PROVE Rooted'
  <2>1. used' = used /\ UNCHANGED <<env, fresh>>
    BY <1>8 DEF Predict, batch, workers
  <2>2. ASSUME NEW n, UsedRight(n) PROVE UsedRight(n)'
    <3>1. Current(n.env)'.name = Current(n.env).name
      BY <2>1, NameSame
    <3> QED BY <1>8, <2>1, <2>2, <3>1 DEF Predict, UsedRight, InProgress, InTrain, Evaluating, Loop, Ending, Control, GuestName
  <2> QED BY <2>1, <2>2 DEF Rooted
<1>9. ASSUME Record PROVE Rooted'
  <2>1. /\ used' = used /\ UNCHANGED <<phase, fresh, trainer>> /\ at = "record" /\ at' \in {"record", "replace", "assign"}
        /\ i \in Env /\ InProgress
        /\ env' = env \/ env' = ObservedNext(i)
    BY <1>9, Sizes DEF Record, NextEnvironment, workers, Close, Control, InProgress
  <2>2. DOMAIN env = Env /\ \A e \in Env : Handle(env[e])
    BY DEF Seats
  <2>3. PICK k \in Env : k = i
    BY <2>1
  <2>4. \A e \in Env : env'[e].name = env[e].name
    <3>1. CASE env' = env
      BY <3>1
    <3>2. CASE env' = ObservedNext(i)
      <4>1. PICK h : h = env[k] /\ Handle(h)
        BY <2>2
      <4>2. env' = [env EXCEPT ![k] = [h EXCEPT !.decision = @ + 1]]
        BY <2>3, <3>2, <4>1 DEF ObservedNext
      <4>3. [h EXCEPT !.decision = @ + 1].name = h.name
        BY <4>1 DEF Handle
      <4> QED BY <2>2, <4>1, <4>2, <4>3
    <3> QED BY <2>1, <3>1, <3>2
  <2>5. ASSUME NEW n, UsedRight(n) PROVE UsedRight(n)'
    <3>1. n.env \in Env => Current(n.env)'.name = Current(n.env).name
      BY <2>1, <2>4, NameSame
    <3> QED BY <2>1, <2>5, <3>1 DEF UsedRight, InProgress, InTrain, Evaluating
  <2> QED BY <2>1, <2>5 DEF Rooted
<1>10. ASSUME Replace PROVE Rooted'
  <2>1. PICK k \in Env, last \in Nat : k = i /\ last = env[k].name.episode /\ fresh[k] = Nobody
    <3>1. i \in Env /\ InTrain /\ InProgress /\ at = "replace"
      BY <1>10 DEF Replace, Control, InTrain, InProgress
    <3>2. TrainName(env[i].name, i) /\ fresh[i] = Nobody
      BY <3>1, Sizes DEF Seats, Env
    <3> QED BY <3>1, <3>2 DEF TrainName
  <2>2. PICK m : m = EnvName(k, last + 1)
    OBVIOUS
  <2>3. PICK h : h = Launched(m) /\ h.name = m /\ h # Nobody
    BY <2>2, Names DEF EnvName, NoName
  <2>4. /\ used' = used \cup {m} /\ UNCHANGED <<env, phase, trainer>> /\ fresh' = [fresh EXCEPT ![k] = h]
        /\ at = "replace" /\ at' \in {"record", "assign"} /\ InProgress
    BY <1>10, <2>1, <2>2, <2>3 DEF Replace, Launch, NextEnvironment, InProgress
  <2>5. DOMAIN fresh = Env
    BY DEF Seats
  <2>6. Current(k).name.episode = last /\ Current(k)'.name = m
    <3>1. Current(k) = env[k]
      BY <2>1 DEF Current
    <3>2. fresh'[k] = h /\ Nobody' = Nobody
      BY <2>4, <2>5 DEF Nobody, NoName
    <3>3. Current(k)' = h
      BY <2>3, <3>2 DEF Current
    <3> QED BY <2>1, <2>3, <3>1, <3>3
  <2>7. m.phase = "train" /\ m.env = k /\ m.episode = last + 1 /\ k \in Nat
    BY <2>2 DEF EnvName, Env
  <2>8. ASSUME NEW n, UsedRight(n) PROVE UsedRight(n)'
    <3>1. n.env \in Env \ {k} => Current(n.env)'.name = Current(n.env).name
      BY <2>4, <2>5, NameSame
    <3>2. n.env \in Nat /\ n.episode \in Nat
      BY <2>8 DEF UsedRight
    <3>3. n.phase = "train" => n.episode <= Current(n.env).name.episode /\ n.env \in Env
      BY <2>4, <2>8 DEF UsedRight, InTrain
    <3>4. n.phase = "train" => n.episode <= Current(n.env)'.name.episode
      BY <2>6, <2>7, <3>1, <3>2, <3>3
    <3> QED BY <2>4, <2>8, <3>2, <3>3, <3>4 DEF UsedRight, InProgress, InTrain, Evaluating
  <2>9. UsedRight(m)'
    <3>1. phase \in {"random", "candidate"}
      BY <2>4 DEF Control, Loop
    <3>2. m.episode <= Current(m.env)'.name.episode /\ last + 1 \in Nat
      BY <2>6, <2>7
    <3> QED BY <2>4, <2>7, <3>1, <3>2 DEF UsedRight, InProgress, InTrain, Evaluating
  <2> QED BY <2>4, <2>8, <2>9 DEF Rooted
<1>11. ASSUME Assign PROVE Rooted'
  <2>1. /\ used' = used /\ UNCHANGED <<phase, trainer>> /\ at = "assign" /\ at' \in {"act", "update"}
        /\ env' = [e \in Env |-> Current(e)] /\ fresh' = [e \in Env |-> Nobody]
    BY <1>11 DEF Assign, workers, Current
  <2>2. \A e \in Env : Current(e)' = Current(e)
    <3>1. Nobody' = Nobody
      BY DEF Nobody, NoName
    <3>2. ASSUME NEW e \in Env PROVE env'[e] = Current(e) /\ fresh'[e] = Nobody
      BY <2>1
    <3>3. \A e \in Env : Current(e)' = env'[e]
      BY <3>1, <3>2 DEF Current
    <3> QED BY <3>2, <3>3
  <2>3. ASSUME NEW n, UsedRight(n) PROVE UsedRight(n)'
    BY <2>1, <2>2, <2>3 DEF UsedRight, InProgress, InTrain, Evaluating, Loop, Ending, Control, GuestName
  <2> QED BY <2>1, <2>3 DEF Rooted
<1>12. ASSUME Update PROVE Rooted'
  <2>1. /\ used' = used /\ UNCHANGED <<env, fresh>> /\ at = "update" /\ InProgress
        /\ (at' = "e_start" /\ phase' = "candidate") \/ (at' \in {"act", "stop"} /\ phase' = phase)
        /\ phase \in {"random", "candidate"} /\ trainer' = Trained(trainer, rollout)
    BY <1>12 DEF Update, workers, More, Control, InProgress, Loop, Ending
  <2>2. trainer'.updates = trainer.updates + 1 /\ trainer.updates \in Nat
    BY <2>1, UpdateCounts
  <2>3. ASSUME NEW n, UsedRight(n) PROVE UsedRight(n)'
    <3>1. Current(n.env)'.name = Current(n.env).name
      BY <2>1, NameSame
    <3>2. n.episode \in Nat
      BY <2>3 DEF UsedRight
    <3> QED BY <2>1, <2>2, <2>3, <3>1, <3>2 DEF UsedRight, InProgress, InTrain, Evaluating, GuestName
  <2> QED BY <2>1, <2>3 DEF Rooted
<1>13. ASSUME Checkpoint PROVE Rooted'
  <2>1. used' = used /\ UNCHANGED <<env, fresh>>
    BY <1>13 DEF Checkpoint, workers, More
  <2>2. ASSUME NEW n, UsedRight(n) PROVE UsedRight(n)'
    <3>1. Current(n.env)'.name = Current(n.env).name
      BY <2>1, NameSame
    <3> QED BY <1>13, <2>1, <2>2, <3>1 DEF Checkpoint, More, UsedRight, InProgress, InTrain, Evaluating, Loop, Ending, Control, GuestName
  <2> QED BY <2>1, <2>2 DEF Rooted
<1>14. ASSUME TrainClose PROVE Rooted'
  <2>1. used' = used /\ UNCHANGED <<env, fresh>>
    BY <1>14 DEF TrainClose, batch, Close
  <2>2. ASSUME NEW n, UsedRight(n) PROVE UsedRight(n)'
    <3>1. Current(n.env)'.name = Current(n.env).name
      BY <2>1, NameSame
    <3> QED BY <1>14, <2>1, <2>2, <3>1 DEF TrainClose, UsedRight, InProgress, InTrain, Evaluating, Loop, Ending, Control, GuestName
  <2> QED BY <2>1, <2>2 DEF Rooted
<1>15. ASSUME CloseTrainer PROVE Rooted'
  <2>1. used' = used /\ UNCHANGED <<env, fresh, phase>> /\ trainer'.updates = trainer.updates
    BY <1>15, TrainerLeft DEF CloseTrainer, batch, workers
  <2>2. ASSUME NEW n, UsedRight(n) PROVE UsedRight(n)'
    <3>1. Current(n.env)'.name = Current(n.env).name
      BY <2>1, NameSame
    <3> QED BY <1>15, <2>1, <2>2, <3>1 DEF CloseTrainer, UsedRight, InProgress, InTrain, Evaluating, Loop, Ending, Control, GuestName
  <2> QED BY <2>1, <2>2 DEF Rooted
<1>16. ASSUME Select PROVE Rooted'
  <2>1. /\ used' = used /\ at = "select" /\ at' = "e_start" /\ phase' = "reload" /\ phase # "reload" /\ InProgress
    BY <1>16 DEF Select, workers, Control, Loop, Ending, InProgress
  <2>2. ASSUME NEW n, UsedRight(n) PROVE UsedRight(n)'
    BY <2>1, <2>2 DEF UsedRight, InProgress, InTrain, Evaluating, GuestName
  <2> QED BY <2>1, <2>2 DEF Rooted
<1>17. ASSUME Finish PROVE Rooted'
  <2>1. used' = used /\ UNCHANGED <<env, fresh, phase>> /\ trainer'.updates = trainer.updates
    BY <1>17, TrainerLeft DEF Finish, batch, workers
  <2>2. ASSUME NEW n, UsedRight(n) PROVE UsedRight(n)'
    <3>1. Current(n.env)'.name = Current(n.env).name
      BY <2>1, NameSame
    <3> QED BY <1>17, <2>1, <2>2, <3>1 DEF Finish, UsedRight, InProgress, InTrain, Evaluating, Loop, Ending, Control, GuestName
  <2> QED BY <2>1, <2>2 DEF Rooted
<1>18. ASSUME Exit PROVE Rooted'
  <2>1. used' = used /\ ~InProgress'
    BY <1>18 DEF Exit, InProgress
  <2> QED BY <2>1 DEF Rooted, UsedRight
<1>19. ASSUME Fail PROVE Rooted'
  <2>1. used' = used /\ ~InProgress'
    BY <1>19, Failing DEF Failed, InProgress
  <2> QED BY <2>1 DEF Rooted, UsedRight
<1>20. ASSUME Killed PROVE Rooted'
  <2>1. used' = used /\ ~InProgress'
    BY <1>20 DEF Killed, InProgress
  <2> QED BY <2>1 DEF Rooted, UsedRight
<1>21. ASSUME WorkerEnds PROVE Rooted'
  <2>1. UNCHANGED <<used, at, i, phase, env, fresh, trainer>>
    BY <1>21 DEF WorkerEnds, driver, batch
  <2>2. ASSUME NEW n, UsedRight(n) PROVE UsedRight(n)'
    <3>1. Current(n.env)'.name = Current(n.env).name
      BY <2>1, NameSame
    <3> QED BY <2>1, <2>2, <3>1 DEF UsedRight, InProgress, InTrain, Evaluating, GuestName
  <2> QED BY <2>1, <2>2 DEF Rooted
<1>22. ASSUME TrainerEnds PROVE Rooted'
  <2>1. used' = used /\ ~InProgress'
    BY <1>22 DEF TrainerEnds, driver, workers, InProgress
  <2> QED BY <2>1 DEF Rooted, UsedRight
<1> QED BY <1>1, <1>2, <1>3, <1>4, <1>5, <1>6, <1>7, <1>8, <1>9, <1>10, <1>11, <1>12, <1>13, <1>14, <1>15, <1>16, <1>17, <1>18, <1>19, <1>20, <1>21, <1>22 DEF Next, Drive, Evaluate, Train
-----------------------------------------------------------------------------
(* The driver never lacks what it needs, and what an exception leaves.     *)

LEMMA Provided ==
  ASSUME Control, Counted, Ledger, Seats, Piped, Rooted, InProgress
  PROVE  Required
<1>1. CASE at = "e_start"
  <2>1. GuestName.env = i /\ GuestName.phase = phase /\ i \in Nat
    BY <1>1 DEF GuestName, Control
  <2>2. PICK g : g = GuestName
    OBVIOUS
  <2>3. ASSUME UsedRight(g) PROVE FALSE
    BY <1>1, <2>1, <2>2, <2>3 DEF UsedRight, Evaluating, InProgress
  <2>4. GuestName \notin used
    BY <2>2, <2>3 DEF Rooted
  <2> QED BY <1>1, <2>4 DEF Required
<1>2. CASE at = "t_start"
  <2>1. PICK m : m = EnvName(i, 0)
    OBVIOUS
  <2>2. m.phase = "train" /\ m.env = i /\ i \in Nat
    BY <2>1 DEF EnvName, Control
  <2>3. ASSUME UsedRight(m) PROVE FALSE
    BY <1>2, <2>2, <2>3 DEF UsedRight, InProgress
  <2> QED BY <1>2, <2>1, <2>3 DEF Required, Rooted
<1>3. CASE at = "replace"
  <2>1. i \in Env /\ InTrain
    BY <1>3 DEF Control, InTrain
  <2>2. fresh[i] = Nobody /\ TrainName(env[i].name, i)
    BY <1>3, <2>1, Sizes DEF Seats, Env
  <2>3. Current(i).name.episode = env[i].name.episode /\ env[i].name.episode \in Nat
    BY <2>2 DEF Current, TrainName
  <2>4. PICK m : m = EnvName(i, env[i].name.episode + 1)
    OBVIOUS
  <2>5. m.phase = "train" /\ m.env = i /\ m.episode = env[i].name.episode + 1
    BY <2>4 DEF EnvName
  <2>6. ASSUME UsedRight(m) PROVE FALSE
    <3>1. m.episode <= Current(m.env).name.episode
      BY <2>1, <2>5, <2>6 DEF UsedRight
    <3> QED BY <2>3, <2>5, <3>1
  <2> QED BY <1>3, <2>4, <2>6 DEF Required, Rooted
<1>4. CASE at \in {"e_play", "e_close"}
  <2>1. guest.name = GuestName /\ phase # "none" /\ phase \in {"random", "candidate", "reload"}
    BY <1>4 DEF Seats, Control, Evaluating
  <2>2. guest.name # NoName
    BY <2>1 DEF GuestName, NoName
  <2>3. Seat(guest) \in Live /\ Seat(guest) # Seat(Nobody)
    BY <2>2, SeatIs DEF Live
  <2>4. pipes[guest.slot] = guest.name
    BY <2>3, SeatIs DEF Piped
  <2> QED BY <1>4, <2>4 DEF Required
<1>5. CASE at = "step"
  <2>1. i \in Env /\ InTrain
    BY <1>5 DEF Control, InTrain
  <2>2. fresh[i] = Nobody /\ TrainName(env[i].name, i)
    BY <1>5, <2>1 DEF Seats
  <2>3. Current(i) = env[i] /\ env[i].name # NoName /\ i \in Staffed
    BY <1>5, <2>1, <2>2 DEF Current, TrainName, EnvName, NoName, Staffed
  <2>4. Seat(env[i]) \in Live /\ Seat(env[i]) # Seat(Nobody)
    BY <2>3, SeatIs DEF Live
  <2>5. pipes[env[i].slot] = env[i].name
    BY <2>4, SeatIs DEF Piped
  <2> QED BY <1>5, <2>5 DEF Required
<1>6. CASE at = "update"
  <2>1. time = Length /\ Len(rollout) = Position(time, Envs)
    BY <1>6 DEF Control, Counted, Recorded
  <2>2. Position(Length, Envs) = Length * Envs
    BY PositionStep, Sizes DEF Env
  <2> QED BY <1>6, <2>1, <2>2 DEF Required, UpdateAccepted
<1>7. CASE at = "checkpoint"
  BY <1>7, ThisIs DEF Required
<1>8. CASE at = "select"
  BY <1>8 DEF Required, Ledger, Known, Ending
<1>9. CASE at = "reloaded"
  BY <1>9 DEF Required, Ledger, Known, Reloaded
<1> QED BY <1>1, <1>2, <1>3, <1>4, <1>5, <1>6, <1>7, <1>8, <1>9 DEF Required

\* Only an exception brings the driver to "failed".
LEMMA GoesOn ==
  ASSUME Control, Drive \/ Killed
  PROVE  at' # "failed"
<1>1. ASSUME Start \/ EvaluateStart \/ EvaluatePlay PROVE at' # "failed"
  BY <1>1 DEF Start, EvaluateStart, EvaluatePlay
<1>2. ASSUME EvaluateClose PROVE at' # "failed"
  BY <1>2, Closing
<1>3. ASSUME TrainStart \/ Act \/ Step \/ Predict PROVE at' # "failed"
  BY <1>3 DEF TrainStart, Act, Step, Predict
<1>4. ASSUME Record \/ Replace \/ Assign PROVE at' # "failed"
  BY <1>4 DEF Record, Replace, Assign, NextEnvironment
<1>5. ASSUME Update \/ Checkpoint \/ TrainClose PROVE at' # "failed"
  BY <1>5 DEF Update, Checkpoint, TrainClose, More
<1>6. ASSUME CloseTrainer \/ Select \/ Finish \/ Exit \/ Killed PROVE at' # "failed"
  BY <1>6 DEF CloseTrainer, Select, Finish, Exit, Killed
<1> QED BY <1>1, <1>2, <1>3, <1>4, <1>5, <1>6 DEF Drive, Evaluate, Train

LEMMA FaultStep ==
  ASSUME Control, Counted, Ledger, Seats, Piped, Rooted, NoErrorWithoutFault, Next
  PROVE  NoErrorWithoutFault'
<1>1. CASE Drive \/ Killed
  BY <1>1, GoesOn DEF NoErrorWithoutFault
<1>2. CASE Fail
  BY <1>2, Failing, Provided DEF NoErrorWithoutFault
<1>3. CASE WorkerEnds \/ TrainerEnds
  BY <1>3 DEF WorkerEnds, TrainerEnds, driver, NoErrorWithoutFault
<1> QED BY <1>1, <1>2, <1>3 DEF Next

\* Who is neither held nor started in this step or batch does not run.
LEMMA LeftStep ==
  ASSUME Control, Counted, Seats, Manned, OnlyTheBatchIsLeft, Next
  PROVE  OnlyTheBatchIsLeft'
<1>1. CASE Drive \/ Killed
  BY <1>1, GoesOn DEF OnlyTheBatchIsLeft
<1>2. CASE Fail
  <2>1. /\ InProgress /\ UNCHANGED <<env, fresh>>
        /\ trainer' \in {[trainer EXCEPT !.up = FALSE], [TornTrainer EXCEPT !.up = FALSE]}
        /\ alive' = alive \ {h.name : h \in Held}
    BY <1>2, Failing DEF Failed, Abort, batch
  <2>2. trainer'.draws = trainer.draws
    BY <2>1, TrainerLeft
  <2>3. ASSUME NEW name \in alive, name \notin {h.name : h \in Held}
        PROVE  name \in {env[e].name : e \in {e \in Env : trainer.draws = 0}} \cup {fresh[e].name : e \in Env}
    <3>1. PICK s \in Live : s.name = name
      BY <2>1, <2>3 DEF Manned
    <3>2. name # NoName
      BY <2>3 DEF Manned
    <3>3. s # Seat(Nobody)
      BY <3>1, <3>2, SeatIs
    <3>4. s # Seat(guest)
      <4>1. guest \in Held
        BY DEF Held
      <4> QED BY <2>3, <3>1, <4>1, SeatIs
    <3>5. PICK e \in Staffed : s = Seat(Current(e))
      BY <3>3, <3>4 DEF Live
    <3>6. Current(e).name = name /\ e \in Env /\ (InTrain \/ at = "t_start")
      BY <3>1, <3>5, SeatIs DEF Staffed
    <3>7. CASE fresh[e] # Nobody
      BY <3>6, <3>7 DEF Current
    <3>8. CASE fresh[e] = Nobody
      <4>1. env[e].name = name
        BY <3>6, <3>8 DEF Current
      <4>2. ~InTrain
        BY <2>3, <3>6, <4>1 DEF Held
      <4>3. trainer.draws = 0
        BY <3>6, <4>2 DEF Counted, Drawn, Before
      <4> QED BY <3>6, <4>1, <4>3
    <3> QED BY <3>7, <3>8
  <2> QED BY <2>1, <2>2, <2>3 DEF OnlyTheBatchIsLeft
<1>3. CASE WorkerEnds
  <2>1. alive' \subseteq alive /\ UNCHANGED <<at, env, fresh, trainer>>
    BY <1>3 DEF WorkerEnds, driver, batch
  <2> QED BY <2>1 DEF OnlyTheBatchIsLeft
<1>4. CASE TrainerEnds
  BY <1>4 DEF TrainerEnds, driver, OnlyTheBatchIsLeft
<1> QED BY <1>1, <1>2, <1>3, <1>4 DEF Next

-----------------------------------------------------------------------------
(* A rollout grows by a sample, the training by a rollout.                 *)

LEMMA Agree ==
  ASSUME NEW a, NEW b, a.name = b.name, a.decision = b.decision, NEW s
  PROVE  (Follows(a, s) <=> Follows(b, s)) /\ (NotBefore(a, s) <=> NotBefore(b, s))
BY DEF Follows, NotBefore

LEMMA AwaitsAgree ==
  ASSUME NEW a, NEW b, a.name = b.name, a.decision = b.decision, NEW s, NEW trained, NEW e, Awaits(a, s, trained, e)
  PROVE  Awaits(b, s, trained, e)
BY Agree DEF Awaits

Listing(s) == \E S : s \in Seq(S)

LEMMA PlaceIs ==
  ASSUME NEW t \in 1 .. Length, NEW e \in Env
  PROVE  t \in Nat \ {0} /\ Position(t, e) \in Nat \ {0}
<1>1. t \in Nat \ {0}
  BY Sizes
<1> QED BY <1>1, PositionStep

Grows(s, x, t, e, w) ==
  /\ Len(w) = Position(t, e) /\ w[Position(t, e)] = x
  /\ \A r \in 1 .. Length, f \in Env :
       /\ Position(r, f) <= Len(s) => w[Position(r, f)] = s[Position(r, f)]
       /\ Position(r, f) <= Len(w) <=> Position(r, f) <= Len(s) \/ (r = t /\ f = e)

LEMMA Grown ==
  ASSUME NEW s, Listing(s), NEW x, NEW t \in 1 .. Length, NEW e \in Env, Len(s) = Position(t, e) - 1
  PROVE  Grows(s, x, t, e, Append(s, x))
<1>1. PICK S : s \in Seq(S)
  BY DEF Listing
<1>2. s \in Seq(S \cup {x}) /\ x \in S \cup {x}
  BY <1>1
<1>3. PICK p \in Nat \ {0} : p = Position(t, e) /\ Len(s) = p - 1
  BY PlaceIs
<1>4. /\ Len(Append(s, x)) = p /\ Append(s, x)[p] = x
      /\ \A q \in 1 .. Len(s) : Append(s, x)[q] = s[q]
  BY <1>2, <1>3
<1>5. ASSUME NEW r \in 1 .. Length, NEW f \in Env
      PROVE  /\ Position(r, f) \in Nat \ {0}
             /\ Position(r, f) = p <=> r = t /\ f = e
  <2>1. r \in Nat \ {0} /\ t \in Nat \ {0}
    BY PlaceIs
  <2>2. Position(r, f) \in Nat \ {0}
    BY PlaceIs
  <2> QED BY <1>3, <2>1, <2>2, PositionUnique
<1>6. PICK w : w = Append(s, x)
  OBVIOUS
<1>7. Grows(s, x, t, e, w)
  BY <1>3, <1>4, <1>5, <1>6 DEF Grows
<1> QED BY <1>6, <1>7

LEMMA ChosenGrown ==
  ASSUME NEW s, Listing(s), NEW x, NEW t \in 1 .. Length, NEW e \in Env, Len(s) = Position(t, e) - 1,
         NEW u, Chosen(s, u), x.policy = u, x.draw = u * Length + t,
         TrainName(x.name, e), x.decision \in Nat, x.continuation \in BOOLEAN
  PROVE  Chosen(Append(s, x), u)
<1>1. PICK w : w = Append(s, x)
  OBVIOUS
<1>2. Grows(s, x, t, e, w)
  BY <1>1, Grown, Zenon
<1>3. ASSUME NEW r \in 1 .. Length, NEW f \in Env, Position(r, f) <= Len(w)
      PROVE  /\ w[Position(r, f)].policy = u /\ w[Position(r, f)].draw = u * Length + r
             /\ TrainName(w[Position(r, f)].name, f) /\ w[Position(r, f)].decision \in Nat
             /\ w[Position(r, f)].continuation \in BOOLEAN
  <2>1. CASE Position(r, f) <= Len(s)
    <3>1. w[Position(r, f)] = s[Position(r, f)]
      BY <1>2, <2>1 DEF Grows
    <3> QED BY <2>1, <3>1 DEF Chosen
  <2>2. CASE r = t /\ f = e
    <3>1. w[Position(r, f)] = x
      BY <1>2, <2>2 DEF Grows
    <3> QED BY <2>2, <3>1
  <2> QED BY <1>3, <1>2, <2>1, <2>2 DEF Grows
<1> QED BY <1>1, <1>3 DEF Chosen

LEMMA ChainedGrown ==
  ASSUME NEW s, Listing(s), NEW x, NEW t \in 1 .. Length, NEW e \in Env, Len(s) = Position(t, e) - 1,
         NEW trained, Awaits(x, s, trained, e), Chained(s), InEpisodes(s), Linked(s, trained)
  PROVE  Chained(Append(s, x)) /\ InEpisodes(Append(s, x)) /\ Linked(Append(s, x), trained)
<1>1. PICK w : w = Append(s, x)
  OBVIOUS
<1>2. /\ Len(w) = Position(t, e) /\ w[Position(t, e)] = x
      /\ \A r \in 1 .. Length, f \in Env :
           /\ Position(r, f) <= Len(s) => w[Position(r, f)] = s[Position(r, f)]
           /\ Position(r, f) <= Len(w) <=> Position(r, f) <= Len(s) \/ (r = t /\ f = e)
  <2>1. Grows(s, x, t, e, w)
    BY <1>1, Grown, Zenon
  <2> QED BY <2>1 DEF Grows
<1>3. ASSUME NEW r \in 1 .. Length, NEW later \in 1 .. Length, NEW f \in Env, r < later, Position(later, f) <= Len(w)
      PROVE  /\ w[Position(r, f)] = s[Position(r, f)] /\ Position(r, f) <= Len(s)
             /\ Position(later, f) <= Len(s) \/ (later = t /\ f = e)
  <2>1. r \in Nat \ {0} /\ later \in Nat \ {0} /\ t \in Nat \ {0} /\ Position(r, f) \in Nat /\ Position(later, f) \in Nat
    BY PlaceIs
  <2>2. Position(r, f) <= Position(later, f)
    BY <1>3, <2>1, PositionOrder
  <2>3. Len(w) \in Nat
    BY <1>2, PlaceIs
  <2>4. Position(r, f) <= Len(w) /\ ~(r = t /\ f = e)
    <3>1. Position(r, f) <= Len(w)
      BY <1>3, <2>1, <2>2, <2>3
    <3>2. ASSUME r = t, f = e PROVE FALSE
      <4>1. Position(later, e) <= Position(t, e)
        BY <1>2, <1>3, <3>2
      <4>2. later <= t
        BY <2>1, <4>1, PositionOrder
      <4> QED BY <1>3, <2>1, <3>2, <4>2
    <3> QED BY <3>1, <3>2
  <2> QED BY <1>2, <1>3, <2>4
<1>4. ASSUME NEW r \in 1 .. Length, NEW f \in Env, r < Length, Position(r + 1, f) <= Len(w)
      PROVE  Follows(w[Position(r + 1, f)], w[Position(r, f)])
  <2>1. r + 1 \in 1 .. Length /\ r < r + 1
    BY <1>4, Sizes
  <2>2. w[Position(r, f)] = s[Position(r, f)] /\ Position(r, f) <= Len(s)
    BY <1>3, <1>4, <2>1
  <2>3. CASE Position(r + 1, f) <= Len(s)
    BY <1>2, <1>4, <2>1, <2>2, <2>3 DEF Chained
  <2>4. CASE r + 1 = t /\ f = e
    <3>1. Position(r + 1, e) > Len(s)
      <4>1. Position(t, e) \in Nat \ {0}
        BY PlaceIs
      <4> QED BY <2>4, <4>1
    <3>2. Follows(x, s[Position(r, e)])
      BY <2>2, <2>4, <3>1 DEF Awaits
    <3> QED BY <1>2, <2>2, <2>4, <3>2
  <2> QED BY <1>3, <1>4, <2>1, <2>3, <2>4
<1>5. ASSUME NEW r \in 1 .. Length, NEW later \in 1 .. Length, NEW f \in Env, r < later, Position(later, f) <= Len(w)
      PROVE  NotBefore(w[Position(later, f)], w[Position(r, f)])
  <2>1. w[Position(r, f)] = s[Position(r, f)] /\ Position(r, f) <= Len(s)
    BY <1>3, <1>5
  <2>2. CASE Position(later, f) <= Len(s)
    BY <1>2, <1>5, <2>1, <2>2 DEF InEpisodes
  <2>3. CASE later = t /\ f = e
    BY <1>2, <2>1, <2>3 DEF Awaits
  <2> QED BY <1>3, <1>5, <2>2, <2>3
<1>6. ASSUME NEW f \in Env, trained # <<>>, Position(1, f) <= Len(w)
      PROVE  Follows(w[Position(1, f)], trained[Len(trained)].samples[Position(Length, f)])
  <2>1. 1 \in 1 .. Length
    BY Sizes
  <2>2. CASE Position(1, f) <= Len(s)
    BY <1>2, <1>6, <2>1, <2>2 DEF Linked
  <2>3. CASE t = 1 /\ f = e
    <3>1. Position(1, e) > Len(s)
      <4>1. Position(t, e) \in Nat \ {0}
        BY PlaceIs
      <4> QED BY <2>3, <4>1
    <3> QED BY <1>2, <1>6, <2>3, <3>1 DEF Awaits
  <2> QED BY <1>2, <1>6, <2>1, <2>2, <2>3
<1> QED BY <1>1, <1>4, <1>5, <1>6 DEF Chained, InEpisodes, Linked

LEMMA AwaitsGrown ==
  ASSUME NEW s, Listing(s), NEW x, NEW t \in 1 .. Length, NEW e \in Env, Len(s) = Position(t, e) - 1,
         NEW trained, NEW u, Chosen(s, u)
  PROVE  /\ \A next : \A f \in Env : f # e /\ Awaits(next, s, trained, f) => Awaits(next, Append(s, x), trained, f)
         /\ \A next :
              /\ Awaits(x, s, trained, e) /\ Follows(next, x) /\ NotBefore(next, x)
              /\ x.name.episode \in Nat /\ next.name.episode \in Nat
              => Awaits(next, Append(s, x), trained, e)
<1>1. PICK w : w = Append(s, x)
  OBVIOUS
<1>2. /\ Len(w) = Position(t, e) /\ w[Position(t, e)] = x
      /\ \A r \in 1 .. Length, f \in Env :
           /\ Position(r, f) <= Len(s) => w[Position(r, f)] = s[Position(r, f)]
           /\ Position(r, f) <= Len(w) <=> Position(r, f) <= Len(s) \/ (r = t /\ f = e)
  <2>1. Grows(s, x, t, e, w)
    BY <1>1, Grown, Zenon
  <2> QED BY <2>1 DEF Grows
<1>3. \A r \in 1 .. Length, f \in Env : Position(r, f) > Len(s) <=> ~(Position(r, f) <= Len(s))
  BY PlaceIs
<1>4. \A r \in 1 .. Length, f \in Env : Position(r, f) > Len(w) <=> ~(Position(r, f) <= Len(w))
  BY <1>2, PlaceIs
<1>5. ASSUME NEW next, NEW f \in Env, f # e, Awaits(next, s, trained, f)
      PROVE  Awaits(next, w, trained, f)
  <2>1. ASSUME NEW r \in 1 .. Length, Position(r, f) <= Len(w)
        PROVE  /\ NotBefore(next, w[Position(r, f)])
               /\ r = Length \/ Position(r + 1, f) > Len(w) => Follows(next, w[Position(r, f)])
    <3>1. Position(r, f) <= Len(s) /\ w[Position(r, f)] = s[Position(r, f)]
      BY <1>2, <1>5, <2>1
    <3>2. r = Length \/ r + 1 \in 1 .. Length
      BY Sizes
    <3>3. Position(r + 1, f) > Len(w) /\ r # Length => Position(r + 1, f) > Len(s)
      BY <1>2, <1>3, <1>4, <3>2
    <3> QED BY <1>5, <3>1, <3>3 DEF Awaits
  <2>2. Position(1, f) > Len(w) => Position(1, f) > Len(s)
    <3>1. 1 \in 1 .. Length
      BY Sizes
    <3> QED BY <1>2, <1>3, <1>4, <3>1
  <2> QED BY <1>5, <2>1, <2>2 DEF Awaits
<1>6. ASSUME NEW next, Awaits(x, s, trained, e), Follows(next, x), NotBefore(next, x),
             x.name.episode \in Nat, next.name.episode \in Nat
      PROVE  Awaits(next, w, trained, e)
  <2>1. ASSUME NEW r \in 1 .. Length, Position(r, e) <= Len(w)
        PROVE  /\ NotBefore(next, w[Position(r, e)])
               /\ r = Length \/ Position(r + 1, e) > Len(w) => Follows(next, w[Position(r, e)])
    <3>1. CASE r = t
      BY <1>2, <1>6, <3>1
    <3>2. CASE r # t
      <4>1. Position(r, e) <= Len(s) /\ w[Position(r, e)] = s[Position(r, e)]
        BY <1>2, <2>1, <3>2
      <4>2. NotBefore(x, s[Position(r, e)]) /\ s[Position(r, e)].name.episode \in Nat
        BY <1>6, <4>1 DEF Awaits, Chosen, TrainName
      <4>3. NotBefore(next, s[Position(r, e)])
        BY <1>6, <4>2 DEF NotBefore
      <4>4. Position(r, e) <= Position(t, e) /\ r \in Nat \ {0} /\ t \in Nat \ {0}
        BY <1>2, <2>1, PlaceIs
      <4>5. r < t /\ r + 1 \in 1 .. Length
        BY <3>2, <4>4, PositionOrder, Sizes
      <4>6. Position(r + 1, e) <= Position(t, e)
        <5>1. r + 1 \in Nat \ {0} /\ r + 1 <= t
          BY <4>4, <4>5
        <5>2. r + 1 < t \/ (r + 1 = t /\ e <= e)
          BY <5>1, <4>4 DEF Env
        <5> QED BY <4>4, <5>1, <5>2, PositionOrder
      <4> QED BY <1>2, <1>4, <4>1, <4>3, <4>5, <4>6, Sizes
    <3> QED BY <3>1, <3>2
  <2>2. ~(Position(1, e) > Len(w))
    <3>1. 1 \in 1 .. Length /\ 1 \in Nat \ {0} /\ t \in Nat \ {0} /\ 1 <= t
      BY PlaceIs, Sizes
    <3>2. Position(1, e) <= Position(t, e)
      BY <3>1, PositionOrder DEF Env
    <3> QED BY <1>2, <1>4, <3>1, <3>2
  <2> QED BY <2>1, <2>2 DEF Awaits
<1> QED BY <1>1, <1>5, <1>6

\* A new rollout goes on where the last one ended.
LEMMA AwaitsAnew ==
  ASSUME NEW s, Len(s) = Length * Envs, NEW trained, NEW more, Len(more) \in Nat, more # <<>> => more[Len(more)].samples = s,
         NEW e \in Env, NEW next, Awaits(next, s, trained, e)
  PROVE  Awaits(next, <<>>, more, e)
<1>1. \A t \in 1 .. Length : ~(Position(t, e) <= Len(<<>>))
  BY PlaceIs
<1>2. Position(Length, e) <= Len(s) /\ Length \in 1 .. Length
  <2>1. Length \in 1 .. Length
    BY Sizes
  <2>2. Position(Length, e) \in 1 .. Length * Envs
    BY <2>1, PositionInside
  <2> QED BY <2>1, <2>2
<1>3. Follows(next, s[Position(Length, e)])
  BY <1>2 DEF Awaits
<1> QED BY <1>1, <1>3 DEF Awaits

LEMMA NoneYet ==
  /\ \A u : Chosen(<<>>, u)
  /\ Chained(<<>>) /\ InEpisodes(<<>>)
  /\ \A trained : Linked(<<>>, trained)
  /\ \A next : \A e \in Env : Awaits(next, <<>>, <<>>, e)
<1>1. \A t \in 1 .. Length, e \in Env : ~(Position(t, e) <= Len(<<>>))
  BY PlaceIs
<1>2. 1 \in 1 .. Length
  BY Sizes
<1>3. ASSUME NEW t \in 1 .. Length, NEW e \in Env, t < Length PROVE ~(Position(t + 1, e) <= Len(<<>>))
  <2>1. t + 1 \in 1 .. Length
    BY <1>3, Sizes
  <2> QED BY <1>1, <2>1
<1> QED BY <1>1, <1>2, <1>3 DEF Chosen, Chained, InEpisodes, Linked, Awaits

LEMMA AsPlayedGrown ==
  ASSUME NEW trained, NEW u \in Nat, Listing(trained), Len(trained) = u, AsPlayed(trained),
         NEW samples, Batch(samples, u), Linked(samples, trained)
  PROVE  AsPlayed(Append(trained, [samples |-> samples, credit |-> Credit(samples)]))
<1>1. PICK last : last = [samples |-> samples, credit |-> Credit(samples)]
  OBVIOUS
<1>2. PICK more : more = Append(trained, last)
  OBVIOUS
<1>3. /\ DOMAIN trained = 1 .. u /\ DOMAIN more = 1 .. u + 1 /\ more[u + 1] = last
      /\ \A k \in 1 .. u : more[k] = trained[k]
  <2>1. PICK S : trained \in Seq(S)
    BY DEF Listing
  <2>2. trained \in Seq(S \cup {last}) /\ last \in S \cup {last}
    BY <2>1
  <2> QED BY <1>2, <2>2
<1>4. ASSUME NEW k \in 1 .. u
      PROVE  LET these == more[k].samples IN
             /\ Len(these) = Length * Envs
             /\ \A t \in 1 .. Length, e \in Env :
                  LET sample == these[Position(t, e)] IN
                  /\ sample.policy = k - 1 /\ sample.draw = (k - 1) * Length + t /\ sample.name.env = e
                  /\ t < Length => Follows(these[Position(t + 1, e)], sample)
                  /\ t = Length /\ k + 1 \in DOMAIN more => Follows(more[k + 1].samples[Position(1, e)], sample)
             /\ \A n \in DOMAIN these :
                  more[k].credit[n] = {m \in n .. Len(these) : these[m].name = these[n].name}
  <2>1. more[k] = trained[k] /\ k \in DOMAIN trained
    BY <1>3
  <2>2. CASE k < u
    <3>1. k + 1 \in 1 .. u
      BY <2>2
    <3>2. more[k + 1] = trained[k + 1] /\ k + 1 \in DOMAIN trained
      BY <1>3, <3>1
    <3>3. PICK a, b : a = trained[k] /\ b = trained[k + 1] /\ more[k] = a /\ more[k + 1] = b
      BY <2>1, <3>2
    <3>4. /\ Len(a.samples) = Length * Envs
          /\ \A t \in 1 .. Length, e \in Env :
               LET sample == a.samples[Position(t, e)] IN
               /\ sample.policy = k - 1 /\ sample.draw = (k - 1) * Length + t /\ sample.name.env = e
               /\ t < Length => Follows(a.samples[Position(t + 1, e)], sample)
               /\ t = Length => Follows(b.samples[Position(1, e)], sample)
          /\ \A n \in DOMAIN a.samples :
               a.credit[n] = {m \in n .. Len(a.samples) : a.samples[m].name = a.samples[n].name}
      <4>1. /\ Len(trained[k].samples) = Length * Envs
            /\ \A t \in 1 .. Length, e \in Env :
                 LET sample == trained[k].samples[Position(t, e)] IN
                 /\ sample.policy = k - 1 /\ sample.draw = (k - 1) * Length + t /\ sample.name.env = e
                 /\ t < Length => Follows(trained[k].samples[Position(t + 1, e)], sample)
                 /\ t = Length /\ k + 1 \in DOMAIN trained =>
                      Follows(trained[k + 1].samples[Position(1, e)], sample)
            /\ \A n \in DOMAIN trained[k].samples :
                 trained[k].credit[n] = {m \in n .. Len(trained[k].samples) :
                                           trained[k].samples[m].name = trained[k].samples[n].name}
        BY <2>1 DEF AsPlayed
      <4> QED BY <3>2, <3>3, <4>1
    <3> QED BY <3>3, <3>4
  <2>3. CASE k = u
    <3>1. more[k + 1].samples = samples
      BY <1>1, <1>3, <2>3
    <3>2. trained # <<>>
      BY <1>3
    <3>3. ASSUME NEW e \in Env
          PROVE  Follows(samples[Position(1, e)], trained[k].samples[Position(Length, e)])
      <4>1. 1 \in 1 .. Length
        BY Sizes
      <4>2. Position(1, e) \in 1 .. Length * Envs
        BY <4>1, PositionInside
      <4>3. Position(1, e) <= Len(samples)
        BY <4>2 DEF Batch
      <4> QED BY <2>3, <3>2, <4>3 DEF Linked
    <3> QED BY <2>1, <3>1, <3>3 DEF AsPlayed
  <2> QED BY <2>2, <2>3
<1>5. /\ Len(samples) = Length * Envs
      /\ \A t \in 1 .. Length, e \in Env :
           LET sample == samples[Position(t, e)] IN
           /\ sample.policy = u /\ sample.draw = u * Length + t /\ sample.name.env = e
           /\ t < Length => Follows(samples[Position(t + 1, e)], sample)
  <2>1. Len(samples) = Length * Envs
    BY DEF Batch
  <2>2. \A t \in 1 .. Length, e \in Env : Position(t, e) <= Len(samples)
    BY <2>1, PositionInside
  <2>3. ASSUME NEW t \in 1 .. Length, NEW e \in Env
        PROVE  /\ samples[Position(t, e)].policy = u /\ samples[Position(t, e)].draw = u * Length + t
               /\ samples[Position(t, e)].name.env = e
    <3>1. PICK sample : sample = samples[Position(t, e)]
      OBVIOUS
    <3>2. sample.policy = u /\ sample.draw = u * Length + t /\ TrainName(sample.name, e)
      BY <2>2, <3>1 DEF Batch, Chosen
    <3>3. sample.name.env = e
      BY <3>2 DEF TrainName, EnvName
    <3> QED BY <3>1, <3>2, <3>3
  <2>4. ASSUME NEW t \in 1 .. Length, NEW e \in Env, t < Length
        PROVE  Follows(samples[Position(t + 1, e)], samples[Position(t, e)])
    <3>1. t + 1 \in 1 .. Length
      BY <2>4, Sizes
    <3> QED BY <2>2, <2>4, <3>1 DEF Batch, Chained
  <2> QED BY <2>1, <2>3, <2>4
<1>6. \A n \in DOMAIN samples : Credit(samples)[n] = {m \in n .. Len(samples) : samples[m].name = samples[n].name}
  BY CreditIs DEF Own
<1>7. /\ more[u + 1].samples = samples /\ more[u + 1].credit = Credit(samples)
      /\ (u + 1) - 1 = u /\ (u + 1) + 1 \notin DOMAIN more
  BY <1>1, <1>3
<1>8. AsPlayed(more)
  <2> SUFFICES ASSUME NEW k \in DOMAIN more
               PROVE  LET these == more[k].samples IN
                      /\ Len(these) = Length * Envs
                      /\ \A t \in 1 .. Length, e \in Env :
                           LET sample == these[Position(t, e)] IN
                           /\ sample.policy = k - 1 /\ sample.draw = (k - 1) * Length + t /\ sample.name.env = e
                           /\ t < Length => Follows(these[Position(t + 1, e)], sample)
                           /\ t = Length /\ k + 1 \in DOMAIN more => Follows(more[k + 1].samples[Position(1, e)], sample)
                      /\ \A n \in DOMAIN these :
                           more[k].credit[n] = {m \in n .. Len(these) : these[m].name = these[n].name}
    BY DEF AsPlayed
  <2>1. CASE k = u + 1
    BY <1>5, <1>6, <1>7, <2>1
  <2>2. CASE k \in 1 .. u
    BY <1>4, <2>2
  <2> QED BY <1>3, <2>1, <2>2
<1> QED BY <1>1, <1>2, <1>8
-----------------------------------------------------------------------------
(* What is trained is what was played.                                     *)

LEMMA PlayedKept ==
  ASSUME Played, trainer'.trained = trainer.trained, disk' \subseteq disk \cup {ThisCheckpoint}, Playing' => Rolling'
  PROVE  Played'
<1>1. ThisCheckpoint.trained = trainer.trained
  BY DEF ThisCheckpoint, State
<1> QED BY <1>1 DEF Played

LEMMA RollingKept ==
  ASSUME Rolling, rollout' = rollout, trainer'.trained = trainer.trained, trainer'.updates = trainer.updates,
         Examined' => Examined, at' \in Loop => at \in Loop,
         \A e \in Env : Upcoming(e)'.name = Upcoming(e).name /\ Upcoming(e)'.decision = Upcoming(e).decision
  PROVE  Rolling'
<1>1. Awaited'
  <2> SUFFICES ASSUME NEW e \in Env PROVE Awaits(Upcoming(e)', rollout, trainer.trained, e)
    BY DEF Awaited
  <2>1. PICK a, b : a = Upcoming(e) /\ b = Upcoming(e)' /\ a.name = b.name /\ a.decision = b.decision
    OBVIOUS
  <2>2. Awaits(a, rollout, trainer.trained, e)
    BY <2>1 DEF Rolling, Awaited
  <2> QED BY <2>1, <2>2, AwaitsAgree
<1> QED BY <1>1 DEF Rolling, Loop

LEMMA NextSame ==
  ASSUME NEW e, at # "replace", at' # "replace", env'[e] = env[e], fresh'[e] = fresh[e]
  PROVE  Upcoming(e)' = Upcoming(e)
<1>1. Nobody' = Nobody
  BY DEF Nobody, NoName
<1>2. Current(e)' = Current(e)
  BY <1>1 DEF Current
<1> QED BY <1>2 DEF Upcoming

LEMMA RolloutIs ==
  ASSUME Counted
  PROVE  /\ Listing(rollout) /\ Listing(trainer.trained)
         /\ Len(trainer.trained) = trainer.updates /\ trainer.updates \in Nat /\ trainer.updates * Length \in Nat
         /\ trainer.updates = 0 <=> trainer.trained = <<>>
<1>1. Listing(rollout) /\ Listing(trainer.trained) /\ Len(trainer.trained) = trainer.updates /\ trainer.updates \in Nat
  BY DEF Counted, WholeUpdates, Listing
<1>2. PICK S : trainer.trained \in Seq(S)
  BY <1>1 DEF Listing
<1> QED BY <1>1, <1>2, Sizes

\* A new rollout begins where a whole one has ended.
LEMMA RollingAnew ==
  ASSUME NEW s, Len(s) = Length * Envs, \A e \in Env : Awaits(Upcoming(e), s, trainer.trained, e),
         trainer'.trained = <<>> \/ trainer'.trained[Len(trainer'.trained)].samples = s, Len(trainer'.trained) \in Nat,
         rollout' = <<>>, ~Examined', \A e \in Env : Upcoming(e)' = Upcoming(e)
  PROVE  Rolling'
<1>1. PICK more : more = trainer'.trained
  OBVIOUS
<1>2. ASSUME NEW e \in Env PROVE Awaits(Upcoming(e)', <<>>, more, e)
  <2>1. PICK next : next = Upcoming(e) /\ Upcoming(e)' = next
    OBVIOUS
  <2>2. Awaits(next, <<>>, more, e)
    BY <1>1, <2>1, AwaitsAnew
  <2> QED BY <2>1, <2>2
<1>3. Awaited'
  BY <1>1, <1>2 DEF Awaited
<1> QED BY <1>3, NoneYet DEF Rolling

\* A sample is the one its environment awaited.
LEMMA RecordStep ==
  ASSUME Control, Counted, Seats, Playing, Rolling, Record
  PROVE  Rolling'
<1>1. PICK k \in Env, t \in 1 .. Length : k = i /\ t = time
  BY DEF Record, Control, Loop
<1>2. PICK u \in Nat : u = trainer.updates
  BY RolloutIs
<1>3. PICK trained : trained = trainer.trained
  OBVIOUS
<1>4. PICK s : s = rollout
  OBVIOUS
<1>5. /\ at = "record" /\ InProgress /\ InTrain /\ UNCHANGED <<trainer, fresh, phase, time>>
      /\ \/ outcomes[k] = "NONE" /\ env' = ObservedNext(k) /\ at' \in {"record", "assign"}
         \/ outcomes[k] # "NONE" /\ env' = env /\ at' = "replace" /\ i' = k
  <2>1. at = "record" /\ InProgress /\ InTrain /\ UNCHANGED <<trainer, fresh, phase, time>>
    BY DEF Record, Playing
  <2>2. outcomes[i] = "NONE" => env' = ObservedNext(i) /\ at' \in {"record", "assign"}
    BY DEF Record, NextEnvironment
  <2>3. outcomes[i] # "NONE" => env' = env /\ at' = "replace" /\ i' = i
    BY DEF Record
  <2> QED BY <1>1, <2>1, <2>2, <2>3
<1>6. /\ Listing(s) /\ Len(s) = Position(t, k) - 1 /\ Chosen(s, u) /\ Chained(s) /\ InEpisodes(s) /\ Linked(s, trained)
      /\ trainer.draws = u * Length + t
      /\ \A e \in Env : Awaits(Upcoming(e), s, trained, e)
  <2>1. Listing(s) /\ Len(s) = Position(t, k) - 1
    BY <1>1, <1>4, <1>5, RolloutIs DEF Counted, Recorded
  <2>2. Chosen(s, u) /\ Chained(s) /\ InEpisodes(s) /\ Linked(s, trained)
    BY <1>2, <1>3, <1>4, <1>5 DEF Rolling, Loop
  <2>3. trainer.draws = u * Length + t
    BY <1>1, <1>2, <1>5 DEF Counted, Drawn, Loop
  <2> QED BY <1>3, <1>4, <2>1, <2>2, <2>3 DEF Rolling, Awaited
<1>7. DOMAIN env = Env /\ \A e \in Env : Handle(env[e]) /\ TrainName(env[e].name, e) /\ (e \in k .. Envs => fresh[e] = Nobody)
  BY <1>1, <1>5 DEF Seats
<1>8. fresh[k] = Nobody
  BY <1>7, Sizes DEF Env
<1>9. PICK h : h = env[k] /\ Handle(h) /\ TrainName(h.name, k)
  BY <1>7
<1>10. PICK x : x = Transition
  OBVIOUS
<1>11. /\ rollout' = Append(s, x) /\ x.name = h.name /\ x.decision = h.decision /\ x.draw = u * Length + t /\ x.policy = u
       /\ x.continuation \in BOOLEAN /\ (x.continuation <=> outcomes[k] = "NONE")
  BY <1>1, <1>2, <1>4, <1>6, <1>9, <1>10 DEF Record, Transition
<1>12. Upcoming(k) = h
  BY <1>1, <1>5, <1>8, <1>9 DEF Upcoming, Current
<1>13. Awaits(x, s, trained, k)
  <2>1. Awaits(h, s, trained, k)
    BY <1>6, <1>12
  <2> QED BY <1>11, <2>1, AwaitsAgree
<1>14. h.name.episode \in Nat /\ h.name = EnvName(k, h.name.episode) /\ h.decision \in Nat
  BY <1>9 DEF TrainName, Handle
<1>15. PICK next : next = Upcoming(k)'
  OBVIOUS
<1>16. Follows(next, x) /\ NotBefore(next, x) /\ next.name.episode \in Nat
  <2>1. CASE outcomes[k] = "NONE"
    <3>1. env' = ObservedNext(k) /\ at' # "replace"
      BY <1>5, <2>1
    <3>2. env' = [env EXCEPT ![k] = [h EXCEPT !.decision = @ + 1]]
      BY <1>9, <3>1 DEF ObservedNext
    <3>3. PICK g : g = [h EXCEPT !.decision = @ + 1]
      OBVIOUS
    <3>4. g.name = h.name /\ g.decision = h.decision + 1
      BY <1>9, <3>3 DEF Handle
    <3>5. env'[k] = g /\ fresh'[k] = Nobody /\ Nobody' = Nobody
      <4>1. Nobody' = Nobody
        BY DEF Nobody, NoName
      <4> QED BY <1>5, <1>7, <1>8, <3>2, <3>3, <4>1
    <3>6. Current(k)' = g
      BY <3>5 DEF Current
    <3>7. next = g
      BY <1>15, <3>1, <3>6 DEF Upcoming
    <3> QED BY <1>11, <1>14, <2>1, <3>4, <3>7 DEF Follows, NotBefore
  <2>2. CASE outcomes[k] # "NONE"
    <3>1. at' = "replace" /\ i' = k /\ env' = env
      BY <1>5, <2>2
    <3>2. next = [name |-> EnvName(k, h.name.episode + 1), slot |-> 0, decision |-> 0]
      BY <1>9, <1>15, <3>1 DEF Upcoming, EnvName
    <3>3. next.name = EnvName(k, h.name.episode + 1) /\ next.decision = 0 /\ next.name.episode = h.name.episode + 1
      BY <3>2 DEF EnvName
    <3>4. h.name.env = k
      BY <1>14 DEF EnvName
    <3> QED BY <1>11, <1>14, <2>2, <3>3, <3>4 DEF Follows, NotBefore
  <2> QED BY <2>1, <2>2
<1>17. PICK w : w = Append(s, x)
  OBVIOUS
<1>18. Chosen(w, u) /\ Chained(w) /\ InEpisodes(w) /\ Linked(w, trained)
  <2>1. TrainName(x.name, k) /\ x.decision \in Nat
    BY <1>9, <1>11, <1>14
  <2>2. Chosen(w, u)
    BY <1>6, <1>11, <1>17, <2>1, ChosenGrown, Zenon
  <2>3. Chained(w) /\ InEpisodes(w) /\ Linked(w, trained)
    BY <1>6, <1>13, <1>17, ChainedGrown, Zenon
  <2> QED BY <2>2, <2>3
<1>19. ASSUME NEW e \in Env PROVE Awaits(Upcoming(e)', w, trained, e)
  <2>1. CASE e = k
    <3>1. x.name.episode \in Nat
      BY <1>11, <1>14
    <3>2. Awaits(next, w, trained, k)
      BY <1>6, <1>13, <1>16, <1>17, <3>1, AwaitsGrown, Zenon
    <3> QED BY <1>15, <2>1, <3>2
  <2>2. CASE e # k
    <3>1. env'[e] = env[e] /\ fresh'[e] = fresh[e]
      BY <1>5, <1>7, <2>2 DEF ObservedNext
    <3>2. Nobody' = Nobody
      BY DEF Nobody, NoName
    <3>3. Current(e)' = Current(e)
      BY <3>1, <3>2 DEF Current
    <3>4. Upcoming(e) = Current(e) /\ Upcoming(e)' = Current(e)'
      BY <1>5, <2>2 DEF Upcoming
    <3>5. PICK a : a = Upcoming(e) /\ a = Upcoming(e)'
      BY <3>3, <3>4
    <3>6. Awaits(a, w, trained, e)
      <4>1. Awaits(a, s, trained, e)
        BY <1>6, <3>5
      <4>2. \A b : \A f \in Env : f # k /\ Awaits(b, s, trained, f) => Awaits(b, w, trained, f)
        BY <1>6, <1>17, AwaitsGrown, Zenon
      <4> QED BY <2>2, <4>1, <4>2, Zenon
    <3> QED BY <3>5, <3>6
  <2> QED BY <2>1, <2>2
<1>20. Awaited'
  BY <1>3, <1>5, <1>11, <1>17, <1>19 DEF Awaited
<1>21. ~Examined'
  BY <1>5 DEF Examined, Evaluating
<1> QED BY <1>2, <1>3, <1>5, <1>11, <1>17, <1>18, <1>20, <1>21 DEF Rolling

LEMMA NoneTrained == AsPlayed(<<>>)
BY DEF AsPlayed

\* An accepted update trains the rollout as it was played.
LEMMA UpdateStep ==
  ASSUME Control, Counted, Played, Update
  PROVE  Played'
<1>1. /\ at = "update" /\ time = Length /\ Playing /\ Rolling /\ trainer' = Trained(trainer, rollout)
      /\ UNCHANGED <<env, fresh, disk>> /\ at' \in {"e_start", "act", "stop"} /\ (at' = "e_start" => phase' = "candidate")
      /\ at' = "e_start" => rollout' = rollout
      /\ at' = "act" => rollout' = <<>>
  <2>1. at = "update" /\ InProgress /\ InTrain
    BY DEF Update, InProgress, InTrain
  <2> QED BY <2>1 DEF Update, More, Control, Played, Playing, results
<1>2. PICK u \in Nat : u = trainer.updates
  BY RolloutIs
<1>3. PICK s, trained, more : s = rollout /\ trained = trainer.trained /\ more = trainer'.trained
  OBVIOUS
<1>4. trainer'.updates = u + 1 /\ more = Append(trained, [samples |-> s, credit |-> Credit(s)])
  BY <1>1, <1>2, <1>3, UpdateCounts
<1>5. /\ Listing(s) /\ Listing(trained) /\ Len(trained) = u /\ Len(s) = Length * Envs
      /\ Chosen(s, u) /\ Chained(s) /\ InEpisodes(s) /\ Linked(s, trained)
  <2>1. Listing(s) /\ Listing(trained) /\ Len(trained) = u
    BY <1>2, <1>3, RolloutIs
  <2>2. Len(s) = Position(Length, Envs)
    BY <1>1, <1>3 DEF Counted, Recorded
  <2>3. Position(Length, Envs) = Length * Envs
    BY PositionStep, Sizes DEF Env
  <2> QED BY <1>1, <1>2, <1>3, <2>1, <2>2, <2>3 DEF Rolling, Loop
<1>6. AsPlayed(more)
  <2>1. Batch(s, u)
    BY <1>5 DEF Batch, Listing
  <2>2. AsPlayed(trained)
    BY <1>3 DEF Played
  <2> QED BY <1>4, <1>5, <2>1, <2>2, AsPlayedGrown, Zenon
<1>7. Len(more) = u + 1 /\ more[Len(more)].samples = s /\ more # <<>>
  <2>1. PICK S : trained \in Seq(S)
    BY <1>5 DEF Listing
  <2>2. PICK last : last = [samples |-> s, credit |-> Credit(s)]
    OBVIOUS
  <2>3. trained \in Seq(S \cup {last}) /\ last \in S \cup {last} /\ more = Append(trained, last)
    BY <1>4, <2>1, <2>2
  <2>4. Len(more) = u + 1 /\ more[u + 1] = last
    BY <1>5, <2>3
  <2> QED BY <2>2, <2>3, <2>4
<1>8. \A e \in Env : Awaits(Upcoming(e), s, trained, e) /\ Upcoming(e)' = Upcoming(e)
  BY <1>1, <1>3, NextSame DEF Rolling, Awaited
<1>9. ASSUME Playing' PROVE Rolling'
  <2>1. CASE at' = "act"
    <3>1. ~Examined'
      BY <2>1 DEF Examined, Evaluating
    <3> QED BY <1>1, <1>3, <1>5, <1>7, <1>8, <2>1, <3>1, RollingAnew
  <2>2. CASE at' = "e_start"
    <3>1. ASSUME NEW e \in Env PROVE Awaits(Upcoming(e)', s, more, e)
      <4>1. PICK next : next = Upcoming(e) /\ next = Upcoming(e)'
        BY <1>8
      <4>2. Awaits(next, s, trained, e)
        BY <1>8, <4>1
      <4>3. ~(Position(1, e) > Len(s))
        <5>1. 1 \in 1 .. Length
          BY Sizes
        <5>2. Position(1, e) \in 1 .. Length * Envs
          BY <5>1, PositionInside
        <5> QED BY <1>5, <5>2, PlaceIs, Sizes
      <4>4. Awaits(next, s, more, e)
        BY <4>2, <4>3 DEF Awaits
      <4> QED BY <4>1, <4>4
    <3>2. Awaited'
      BY <1>1, <1>3, <2>2, <3>1 DEF Awaited
    <3>3. rollout' = trainer'.trained[trainer'.updates].samples
      BY <1>1, <1>3, <1>4, <1>7, <2>2
    <3> QED BY <2>2, <3>2, <3>3 DEF Rolling, Loop
  <2> QED BY <1>1, <1>9, <2>1, <2>2 DEF Playing
<1> QED BY <1>1, <1>3, <1>6, <1>9 DEF Played

LEMMA CheckpointStep ==
  ASSUME Control, Counted, Played, Checkpoint
  PROVE  Played'
<1>1. /\ at = "checkpoint" /\ Examined /\ Playing /\ Rolling /\ UNCHANGED <<env, fresh, trainer>>
      /\ disk' = disk \cup {ThisCheckpoint} /\ at' \in {"act", "stop"} /\ (at' = "act" => rollout' = <<>>)
  <2>1. at = "checkpoint" /\ InProgress /\ InTrain /\ Examined
    BY DEF Checkpoint, InProgress, InTrain, Examined, Control
  <2> QED BY <2>1 DEF Checkpoint, Publish, More, Played, Playing
<1>2. PICK s, trained : s = rollout /\ trained = trainer.trained
  OBVIOUS
<1>3. Len(trained) = trainer.updates /\ trainer.updates \in Nat /\ trained[Len(trained)].samples = s
  BY <1>1, <1>2, RolloutIs DEF Rolling
<1>4. Len(s) = Length * Envs
  <2>1. trainer.updates \in 1 .. Len(trained)
    BY <1>1, <1>3 DEF Counted
  <2>2. PICK S : trained \in Seq(S)
    BY <1>2, RolloutIs DEF Listing
  <2>3. Len(trained) \in DOMAIN trained
    BY <1>3, <2>1, <2>2
  <2>4. AsPlayed(trained)
    BY <1>2 DEF Played
  <2> QED BY <1>3, <2>3, <2>4 DEF AsPlayed
<1>5. \A e \in Env : Awaits(Upcoming(e), s, trained, e) /\ Upcoming(e)' = Upcoming(e)
  BY <1>1, <1>2, NextSame DEF Rolling, Awaited
<1>6. ASSUME Playing' PROVE Rolling'
  <2>1. at' = "act"
    BY <1>1, <1>6 DEF Playing
  <2>2. ~Examined'
    BY <2>1 DEF Examined, Evaluating
  <2> QED BY <1>1, <1>2, <1>3, <1>4, <1>5, <2>1, <2>2, RollingAnew
<1> QED BY <1>1, <1>6, PlayedKept

LEMMA PlayedStep ==
  ASSUME Control, Counted, Seats, Played, Next
  PROVE  Played'
<1>1. ASSUME Start PROVE Played'
  <2>1. ~Playing'
    BY <1>1 DEF Start, Playing, InTrain
  <2>2. trainer'.trained = <<>> /\ disk' = disk
    BY <1>1 DEF Start, NewTrainer, results
  <2> QED BY <2>1, <2>2, NoneTrained DEF Played
<1>2. ASSUME EvaluateStart PROVE Played'
  <2>1. UNCHANGED <<env, fresh, rollout, trainer, disk, phase>> /\ at # "replace" /\ at' # "replace"
    BY <1>2 DEF EvaluateStart, batch, results
  <2>2. Playing' => Playing /\ (Examined' => Examined) /\ (at' \in Loop => at \in Loop)
    BY <1>2, <2>1 DEF EvaluateStart, Playing, InProgress, InTrain, Examined, Evaluating, Loop
  <2>3. \A e \in Env : Upcoming(e)' = Upcoming(e)
    BY <2>1, NextSame
  <2> QED BY <2>1, <2>2, <2>3, RollingKept, PlayedKept DEF Played
<1>3. ASSUME EvaluatePlay PROVE Played'
  <2>1. UNCHANGED <<env, fresh, rollout, trainer, disk, phase>> /\ at # "replace" /\ at' # "replace"
    BY <1>3 DEF EvaluatePlay, batch, results
  <2>2. Playing' => Playing /\ (Examined' => Examined) /\ (at' \in Loop => at \in Loop)
    BY <1>3, <2>1 DEF EvaluatePlay, Playing, InProgress, InTrain, Examined, Evaluating, Loop
  <2>3. \A e \in Env : Upcoming(e)' = Upcoming(e)
    BY <2>1, NextSame
  <2> QED BY <2>1, <2>2, <2>3, RollingKept, PlayedKept DEF Played
<1>4. ASSUME EvaluateClose PROVE Played'
  <2>1. UNCHANGED <<env, fresh, rollout, trainer, disk, phase>> /\ at = "e_close"
    BY <1>4 DEF EvaluateClose, batch
  <2>2. at' \in {"e_start", "t_start", "checkpoint", "reloaded"}
    BY <1>4, Closing
  <2>3. Playing' => Playing /\ (Examined' => Examined) /\ (at' \in Loop => at \in Loop)
    BY <2>1, <2>2 DEF Playing, InProgress, InTrain, Examined, Evaluating, Loop
  <2>4. \A e \in Env : Upcoming(e)' = Upcoming(e)
    BY <2>1, <2>2, NextSame
  <2> QED BY <2>1, <2>3, <2>4, RollingKept, PlayedKept DEF Played
<1>5. ASSUME TrainStart PROVE Played'
  <2>1. UNCHANGED <<rollout, trainer, disk, phase>> /\ at = "t_start" /\ at' \in {"t_start", "act"} /\ phase = "random"
    BY <1>5 DEF TrainStart, results, Control
  <2>2. rollout = <<>> /\ trainer.trained = <<>>
    BY <2>1, RolloutIs DEF Counted, Recorded, Before
  <2>3. ASSUME Playing' PROVE Rolling'
    <3>1. ~Examined'
      BY <2>1 DEF Examined, Evaluating
    <3>2. Awaited'
      BY <2>1, <2>2, NoneYet DEF Awaited
    <3> QED BY <2>1, <2>2, <3>1, <3>2, NoneYet DEF Rolling
  <2> QED BY <2>1, <2>3, PlayedKept
<1>6. ASSUME Act PROVE Played'
  <2>1. UNCHANGED <<env, rollout, disk, phase>> /\ at = "act" /\ at' = "step"
    BY <1>6 DEF Act, results
  <2>2. trainer'.trained = trainer.trained /\ trainer'.updates = trainer.updates
    BY <1>6, WholeTrainer, WholeSampled DEF Act, InProgress
  <2>3. \A e \in Env : fresh[e] = Nobody /\ fresh'[e] = Nobody
    BY <1>6, <2>1 DEF Act, Seats, InProgress
  <2>4. \A e \in Env : Upcoming(e)' = Upcoming(e)
    BY <2>1, <2>3, NextSame
  <2>5. Playing /\ ~Examined' /\ at \in Loop
    BY <2>1 DEF Playing, InProgress, InTrain, Examined, Evaluating, Loop
  <2> QED BY <2>1, <2>2, <2>4, <2>5, RollingKept, PlayedKept DEF Played
<1>7. ASSUME Step PROVE Played'
  <2>1. UNCHANGED <<env, fresh, rollout, trainer, disk, phase>> /\ at # "replace" /\ at' # "replace"
    BY <1>7 DEF Step, results
  <2>2. Playing' => Playing /\ (Examined' => Examined) /\ (at' \in Loop => at \in Loop)
    BY <1>7, <2>1 DEF Step, Playing, InProgress, InTrain, Examined, Evaluating, Loop
  <2>3. \A e \in Env : Upcoming(e)' = Upcoming(e)
    BY <2>1, NextSame
  <2> QED BY <2>1, <2>2, <2>3, RollingKept, PlayedKept DEF Played
<1>8. ASSUME Predict PROVE Played'
  <2>1. UNCHANGED <<env, fresh, rollout, trainer, disk, phase>> /\ at # "replace" /\ at' # "replace"
    BY <1>8 DEF Predict, batch, results
  <2>2. Playing' => Playing /\ (Examined' => Examined) /\ (at' \in Loop => at \in Loop)
    BY <1>8, <2>1 DEF Predict, Playing, InProgress, InTrain, Examined, Evaluating, Loop
  <2>3. \A e \in Env : Upcoming(e)' = Upcoming(e)
    BY <2>1, NextSame
  <2> QED BY <2>1, <2>2, <2>3, RollingKept, PlayedKept DEF Played
<1>9. ASSUME Record PROVE Played'
  <2>1. Playing /\ UNCHANGED <<trainer, disk>>
    BY <1>9 DEF Record, Playing, InProgress, InTrain, results
  <2>2. Rolling'
    BY <1>9, <2>1, RecordStep DEF Played
  <2> QED BY <2>1, <2>2, PlayedKept
<1>10. ASSUME Replace PROVE Played'
  <2>1. PICK k \in Env : k = i /\ DOMAIN fresh = Env
    BY <1>10 DEF Replace, Control, Seats
  <2>2. PICK m : m = EnvName(k, env[k].name.episode + 1)
    OBVIOUS
  <2>3. PICK h : h = Launched(m) /\ h.name = m /\ h.decision = 0 /\ h # Nobody
    <3>1. m # NoName
      BY <2>2 DEF EnvName, NoName
    <3>2. PICK h : h = Launched(m)
      OBVIOUS
    <3>3. h.name = m /\ h.decision = 0
      BY <3>2 DEF Launched
    <3> QED BY <3>1, <3>2, <3>3, Names
  <2>4. /\ UNCHANGED <<env, rollout, trainer, disk, phase>> /\ fresh' = [fresh EXCEPT ![k] = h]
        /\ at = "replace" /\ at' \in {"record", "assign"}
    BY <1>10, <2>1, <2>2, <2>3 DEF Replace, NextEnvironment, results
  <2>5. Nobody' = Nobody
    BY DEF Nobody, NoName
  <2>6. ASSUME NEW e \in Env
        PROVE  Upcoming(e)'.name = Upcoming(e).name /\ Upcoming(e)'.decision = Upcoming(e).decision
    <3>1. CASE e = k
      <4>1. Upcoming(e).name = m /\ Upcoming(e).decision = 0
        BY <2>1, <2>2, <2>4, <3>1 DEF Upcoming
      <4>2. fresh'[k] = h
        BY <2>1, <2>4
      <4>3. Current(k)' = h
        BY <2>3, <2>5, <4>2 DEF Current
      <4>4. Upcoming(k)' = h
        BY <2>4, <4>3 DEF Upcoming
      <4> QED BY <2>3, <3>1, <4>1, <4>4
    <3>2. CASE e # k
      <4>1. fresh'[e] = fresh[e] /\ env'[e] = env[e]
        BY <2>1, <2>4, <3>2
      <4>2. Current(e)' = Current(e)
        BY <2>5, <4>1 DEF Current
      <4>3. Upcoming(e) = Current(e) /\ Upcoming(e)' = Current(e)'
        BY <2>1, <2>4, <3>2 DEF Upcoming
      <4> QED BY <4>2, <4>3
    <3> QED BY <3>1, <3>2
  <2>7. Playing /\ ~Examined' /\ at \in Loop
    BY <2>4 DEF Playing, InProgress, InTrain, Examined, Evaluating, Loop
  <2> QED BY <2>4, <2>6, <2>7, RollingKept, PlayedKept DEF Played
<1>11. ASSUME Assign PROVE Played'
  <2>1. /\ UNCHANGED <<rollout, trainer, disk, phase>> /\ at = "assign" /\ at' \in {"act", "update"}
        /\ env' = [e \in Env |-> Current(e)] /\ fresh' = [e \in Env |-> Nobody]
    BY <1>11 DEF Assign, results, Current
  <2>2. Nobody' = Nobody
    BY DEF Nobody, NoName
  <2>3. ASSUME NEW e \in Env PROVE Upcoming(e)' = Upcoming(e)
    <3>1. env'[e] = Current(e) /\ fresh'[e] = Nobody
      BY <2>1
    <3>2. Current(e)' = Current(e)
      BY <2>2, <3>1 DEF Current
    <3> QED BY <2>1, <3>2 DEF Upcoming
  <2>4. Playing /\ ~Examined' /\ at \in Loop
    BY <2>1 DEF Playing, InProgress, InTrain, Examined, Evaluating, Loop
  <2> QED BY <2>1, <2>3, <2>4, RollingKept, PlayedKept DEF Played
<1>12. ASSUME Update PROVE Played'
  BY <1>12, UpdateStep
<1>13. ASSUME Checkpoint PROVE Played'
  BY <1>13, CheckpointStep
<1>14. ASSUME TrainClose PROVE Played'
  <2>1. ~Playing'
    BY <1>14 DEF TrainClose, Playing, InTrain
  <2>2. trainer'.trained = trainer.trained /\ disk' \subseteq disk \cup {ThisCheckpoint}
    BY <1>14 DEF TrainClose, results
  <2> QED BY <2>1, <2>2, PlayedKept
<1>15. ASSUME CloseTrainer PROVE Played'
  <2>1. ~Playing'
    BY <1>15 DEF CloseTrainer, Playing, InTrain
  <2>2. trainer'.trained = trainer.trained /\ disk' \subseteq disk \cup {ThisCheckpoint}
    BY <1>15, TrainerLeft DEF CloseTrainer, results
  <2> QED BY <2>1, <2>2, PlayedKept
<1>16. ASSUME Select PROVE Played'
  <2>1. ~Playing' /\ disk' = disk
    BY <1>16 DEF Select, Playing, InTrain, results
  <2>2. PICK c \in disk : trainer' = Loaded(c)
    BY <1>16 DEF Select
  <2>3. trainer'.trained = c.trained
    BY <2>2 DEF Loaded
  <2> QED BY <2>1, <2>2, <2>3 DEF Played
<1>17. ASSUME Finish PROVE Played'
  <2>1. ~Playing'
    BY <1>17 DEF Finish, Playing, InTrain
  <2>2. trainer'.trained = trainer.trained /\ disk' \subseteq disk \cup {ThisCheckpoint}
    BY <1>17, TrainerLeft DEF Finish
  <2> QED BY <2>1, <2>2, PlayedKept
<1>18. ASSUME Exit PROVE Played'
  <2>1. ~Playing'
    BY <1>18 DEF Exit, Playing, InTrain
  <2>2. trainer'.trained = trainer.trained /\ disk' \subseteq disk \cup {ThisCheckpoint}
    BY <1>18 DEF Exit, results
  <2> QED BY <2>1, <2>2, PlayedKept
<1>19. ASSUME Fail PROVE Played'
  <2>1. ~Playing'
    BY <1>19, Failing DEF Failed, Playing, InTrain
  <2>2. trainer'.trained = trainer.trained /\ disk' \subseteq disk \cup {ThisCheckpoint}
    BY <1>19, Failing, TrainerLeft DEF Failed
  <2> QED BY <2>1, <2>2, PlayedKept
<1>20. ASSUME Killed PROVE Played'
  <2>1. ~Playing'
    BY <1>20 DEF Killed, Playing, InProgress
  <2>2. trainer'.trained = trainer.trained /\ disk' \subseteq disk \cup {ThisCheckpoint}
    BY <1>20 DEF Killed
  <2> QED BY <2>1, <2>2, PlayedKept
<1>21. ASSUME WorkerEnds PROVE Played'
  <2>1. UNCHANGED <<at, i, phase, env, fresh, rollout, trainer, disk>>
    BY <1>21 DEF WorkerEnds, driver, batch, results
  <2>2. (Playing' => Playing) /\ (Examined' => Examined)
    BY <2>1 DEF Playing, InProgress, InTrain, Examined, Evaluating
  <2>3. \A e \in Env : Upcoming(e)' = Upcoming(e)
    BY <2>1 DEF Upcoming, Current, Nobody, NoName, EnvName
  <2> QED BY <2>1, <2>2, <2>3, RollingKept, PlayedKept DEF Played
<1>22. ASSUME TrainerEnds PROVE Played'
  <2>1. ~Playing'
    BY <1>22 DEF TrainerEnds, driver, Playing, InTrain
  <2>2. trainer'.trained = trainer.trained /\ disk' \subseteq disk \cup {ThisCheckpoint}
    BY <1>22, TrainerLeft DEF TrainerEnds, results
  <2> QED BY <2>1, <2>2, PlayedKept
<1> QED BY <1>1, <1>2, <1>3, <1>4, <1>5, <1>6, <1>7, <1>8, <1>9, <1>10, <1>11, <1>12, <1>13, <1>14, <1>15, <1>16, <1>17, <1>18, <1>19, <1>20, <1>21, <1>22 DEF Next, Drive, Evaluate, Train
-----------------------------------------------------------------------------
(* The theorems.                                                           *)

LEMMA InitInv == Init => IInv
<1> SUFFICES ASSUME Init PROVE IInv
  OBVIOUS
<1>1. /\ at = "start" /\ i = 0 /\ time = 0 /\ phase = "none" /\ faulted = FALSE /\ guest = Nobody /\ alive = {} /\ used = {}
      /\ disk = {} /\ candidates = <<>> /\ manifest = 0 /\ rollout = <<>> /\ InProgress /\ ~InTrain
      /\ trainer = [NewTrainer EXCEPT !.up = FALSE]
  BY DEF Init, InProgress, InTrain
<1>2. Control
  BY <1>1 DEF Control, Places, Loop, Evaluating, Ending
<1>3. Whole(trainer) /\ trainer.updates = 0 /\ trainer.draws = 0 /\ trainer.trained = <<>>
  BY <1>1, WholeNew, WholeDown DEF NewTrainer
<1>4. Counted
  <2>1. rollout \in Seq({}) /\ ~Examined
    BY <1>1 DEF Examined, Evaluating
  <2> QED BY <1>1, <1>3, <2>1 DEF Counted, Whole, Drawn, Recorded, Loop, Ending
<1>5. Ledger
  <2>1. ToSet(candidates) = {} /\ candidates \in Seq(1 .. Updates)
    BY <1>1 DEF ToSet
  <2>2. merit \in [1 .. Updates -> Merits \cup {Unknown}]
    BY DEF Init
  <2>3. ~Reloaded /\ at \notin Ending /\ at # "checkpoint"
    BY <1>1 DEF Reloaded, Evaluating, Ending
  <2> QED BY <1>1, <2>1, <2>2, <2>3 DEF Ledger, Known, Announced
<1>6. Seats
  BY <1>1, Names DEF Init, Seats, Before
<1>7. Live = {Seat(Nobody)} /\ Seat(Nobody).name = NoName
  <2>1. Staffed = {}
    BY <1>1, StaffedIs
  <2> QED BY <1>1, <2>1, SeatIs DEF Live
<1>8. Manned /\ Piped
  BY <1>1, <1>7 DEF Init, Manned, Piped
<1>9. Rooted
  BY <1>1 DEF Rooted
<1>10. Played
  BY <1>1, <1>3, NoneTrained DEF Played, Playing
<1> QED BY <1>1, <1>2, <1>4, <1>5, <1>6, <1>8, <1>9, <1>10 DEF IInv, NoErrorWithoutFault, OnlyTheBatchIsLeft

LEMMA StepInv == IInv /\ [Next]_vars => IInv'
<1>1. ASSUME IInv, Next PROVE IInv'
  <2>1. Control' /\ Counted'
    BY <1>1, ControlStep, CountedStep DEF IInv
  <2>2. Ledger' /\ Seats'
    BY <1>1, LedgerStep, SeatsStep DEF IInv
  <2>3. Manned' /\ Piped'
    BY <1>1, <2>1, <2>2, CrewStep DEF IInv
  <2>4. Rooted'
    BY <1>1, <2>2, RootedStep DEF IInv
  <2>5. Played'
    BY <1>1, PlayedStep DEF IInv
  <2>6. NoErrorWithoutFault' /\ OnlyTheBatchIsLeft'
    BY <1>1, FaultStep, LeftStep DEF IInv
  <2> QED BY <2>1, <2>2, <2>3, <2>4, <2>5, <2>6 DEF IInv
<1>2. ASSUME IInv, UNCHANGED vars PROVE IInv'
  <2> USE <1>2 DEF IInv, vars, driver, batch, workers, results
  <2>1. Control'
    BY DEF Control
  <2>2. Counted'
    BY DEF Counted, Drawn, Recorded, Before, Examined, InProgress
  <2>3. Ledger'
    BY BestKept DEF Ledger, Saved, Known, Announced, Examined, Reloaded, InProgress
  <2>4. Seats'
    BY DEF Seats, InProgress, InTrain, GuestName, Before
  <2>5. Live' = Live
    BY SameStaff, CurrentSame DEF Staffed, InTrain
  <2>6. Manned' /\ Piped'
    BY <2>5 DEF Manned, Piped, InProgress
  <2>7. Rooted'
    BY DEF Rooted, UsedRight, InProgress, InTrain, GuestName, Current, Nobody
  <2>8. Played'
    <3>1. \A e \in Env : Upcoming(e)' = Upcoming(e)
      BY DEF Upcoming, Current, Nobody, NoName, EnvName
    <3>2. (Playing' => Playing) /\ (Examined' => Examined)
      BY DEF Playing, InProgress, InTrain, Examined
    <3> QED BY <3>1, <3>2, RollingKept, PlayedKept DEF Played
  <2>9. NoErrorWithoutFault' /\ OnlyTheBatchIsLeft'
    BY DEF NoErrorWithoutFault, OnlyTheBatchIsLeft
  <2> QED BY <2>1, <2>2, <2>3, <2>4, <2>6, <2>7, <2>8, <2>9
<1> QED BY <1>1, <1>2

(* The inductive invariant: the driver's place fixes how much is drawn and      *)
(* recorded, who plays and who can be reached, which run roots exist, what is   *)
(* published, and what each environment awaits (run_m07_cpu_ppo.py main, train, *)
(* evaluate, retain_candidate).                                                 *)
THEOREM Inductive == Spec => []IInv
<1>1. Init => IInv
  BY InitInv
<1>2. IInv /\ [Next]_vars => IInv'
  BY StepInv
<1> QED BY <1>1, <1>2, PTL DEF Spec

LEMMA InvPlayed == IInv => TrainedAsPlayed
BY DEF IInv, Played, TrainedAsPlayed

(* For any number of environments, rollout length and updates: what is trained  *)
(* is what was played, each sample once, by the policy it updates and in order, *)
(* and an advantage holds the rewards of its own episode (run_m07_cpu_ppo.py    *)
(* train, m07_trainer.cpp compute_gae).                                         *)
THEOREM TrainsWhatIsPlayed == Spec => []TrainedAsPlayed
BY Inductive, InvPlayed, PTL

LEMMA InvHonest == IInv => HonestCheckpoints
<1> SUFFICES ASSUME IInv PROVE HonestCheckpoints
  OBVIOUS
<1>1. (\A c \in disk : Saved(c)) /\ Announced
  BY DEF IInv, Ledger
<1>2. manifest # 0 => \E c \in disk :
        /\ c.update = manifest
        /\ \A d \in disk : d.result.eligible => c.result.eligible /\ c.result.score >= d.result.score
  BY <1>1 DEF Announced
<1> QED BY <1>1, <1>2 DEF HonestCheckpoints, Saved, WholeUpdates

(* Whatever fails and whenever the driver is killed, a published checkpoint is  *)
(* of whole updates and carries its own evaluation and parent, and the manifest *)
(* names the best eligible one (run_m07_cpu_ppo.py retain_candidate, main;      *)
(* m07_trainer.cpp save_checkpoint).                                            *)
THEOREM PublishesHonestly == Spec => []HonestCheckpoints
BY Inductive, InvHonest, PTL

LEMMA InvRest == IInv => NoErrorWithoutFault /\ OnlyTheBatchIsLeft
BY DEF IInv

(* The driver never raises of itself: the run roots it needs are free, its      *)
(* descriptors reach the workers it means, and its records are in order         *)
(* (run_m07_cpu_ppo.py, m05_controller.py WorkerProcess).                       *)
THEOREM FailsForCause == Spec => []NoErrorWithoutFault
BY Inductive, InvRest, PTL

(* An exception leaves no worker behind but those of a batch being started      *)
(* (run_m07_cpu_ppo.py train's except block, which closes its list as it is).   *)
THEOREM LeavesTheBatch == Spec => []OnlyTheBatchIsLeft
BY Inductive, InvRest, PTL

=============================================================================
