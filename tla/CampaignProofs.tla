--------------------------- MODULE CampaignProofs ---------------------------
(***************************************************************************)
(* What the generalist campaign guarantees for any set of members, any     *)
(* periods, stages and budget, and however often anyone resumes what is    *)
(* published: an update of a member is one update and a checkpoint one     *)
(* checkpoint, no published checkpoint has lost what its member passed     *)
(* before, and a harness fails only for a cause.                           *)
(*                                                                         *)
(* Everything rests on one fact: the state of a campaign is a function of  *)
(* its member, its updates and what evaluations show.  CampaignAt is that  *)
(* function, without a recursion: what a check remembers of the checks     *)
(* before it is the union of what they passed.                             *)
(***************************************************************************)
EXTENDS Campaign, Integers, FiniteSetTheorems, TLAPS

-----------------------------------------------------------------------------
(* Periods.                                                                *)

LEMMA DivDef == ASSUME NEW u \in Nat, NEW d \in Nat \ {0}
  PROVE u \div d \in Nat /\ u % d \in 0 .. d - 1 /\ u = d * (u \div d) + (u % d)
OBVIOUS
LEMMA DivUnique == ASSUME NEW u \in Nat, NEW d \in Nat \ {0}, NEW q \in Nat, NEW r \in 0 .. d - 1, u = d * q + r
  PROVE u \div d = q /\ u % d = r
OBVIOUS

LEMMA Multiple ==
  ASSUME NEW d \in Nat \ {0}, NEW k \in Nat
  PROVE  (k * d) \div d = k /\ (k * d) % d = 0 /\ k * d \in Nat
<1>1. k * d \in Nat /\ k * d = d * k + 0
  OBVIOUS
<1> QED BY <1>1, DivUnique

LEMMA Successor ==
  ASSUME NEW d \in Nat \ {0}, NEW u \in Nat
  PROVE  /\ (u + 1) % d # 0 => (u + 1) \div d = u \div d
         /\ (u + 1) % d = 0 => (u + 1) \div d = u \div d + 1 /\ u + 1 = (u \div d + 1) * d
<1>1. PICK q \in Nat, r \in 0 .. d - 1 : q = u \div d /\ r = u % d /\ u = d * q + r
  BY DivDef
<1>2. CASE r < d - 1
  <2>1. u + 1 \in Nat /\ r + 1 \in 0 .. d - 1 /\ u + 1 = d * q + (r + 1)
    BY <1>1, <1>2
  <2>2. (u + 1) \div d = q /\ (u + 1) % d = r + 1
    BY <2>1, DivUnique
  <2> QED BY <1>1, <2>1, <2>2
<1>3. CASE r = d - 1
  <2>1. u + 1 \in Nat /\ q + 1 \in Nat /\ 0 \in 0 .. d - 1 /\ u + 1 = d * (q + 1) + 0
    BY <1>1, <1>3
  <2>2. (u + 1) \div d = q + 1 /\ (u + 1) % d = 0
    BY <2>1, DivUnique
  <2> QED BY <1>1, <2>1, <2>2
<1> QED BY <1>1, <1>2, <1>3

\* A count that is a multiple of the larger period is one of the smaller.
LEMMA Divides ==
  ASSUME NEW d \in Nat \ {0}, NEW e \in Nat \ {0}, e % d = 0, NEW u \in Nat, u % e = 0
  PROVE  u % d = 0
<1>1. e \div d \in Nat /\ e = d * (e \div d)
  BY DivDef
<1>2. u \div e \in Nat /\ u = e * (u \div e)
  BY DivDef
<1>3. PICK p \in Nat, q \in Nat : e = d * p /\ u = e * q
  BY <1>1, <1>2
<1>4. u = d * (p * q) + 0 /\ p * q \in Nat
  BY <1>3
<1> QED BY <1>4, DivUnique

LEMMA DivMonotone ==
  ASSUME NEW d \in Nat \ {0}, NEW u \in Nat, NEW v \in Nat, u <= v
  PROVE  u \div d <= v \div d
<1>1. /\ u \div d \in Nat /\ u = d * (u \div d) + (u % d) /\ u % d \in 0 .. d - 1
      /\ v \div d \in Nat /\ v = d * (v \div d) + (v % d) /\ v % d \in 0 .. d - 1
  BY DivDef
<1> DEFINE p == u \div d
           q == v \div d
<1>2. ASSUME p > q PROVE FALSE
  <2>1. p \in Nat /\ q \in Nat /\ d * p <= u /\ v < d * (q + 1) /\ p >= q + 1
    BY <1>1, <1>2
  <2> HIDE DEF p, q
  <2>2. d * p >= d * (q + 1)
    BY <2>1
  <2> QED BY <2>1, <2>2
<1> QED BY <1>1, <1>2

\* A multiple of the period in a job that starts at one.
LEMMA Shifted ==
  ASSUME NEW d \in Nat \ {0}, NEW s \in Nat, s % d = 0, NEW m \in Nat
  PROVE  /\ (s + m) % d = 0 <=> m % d = 0
         /\ (s + m) \div d = s \div d + m \div d
<1>1. /\ s \div d \in Nat /\ s = d * (s \div d)
      /\ m \div d \in Nat /\ m = d * (m \div d) + (m % d) /\ m % d \in 0 .. d - 1
  BY DivDef
<1>2. ASSUME NEW p \in Nat, NEW q \in Nat, NEW r \in 0 .. d - 1, s = d * p, m = d * q + r
      PROVE  (s + m) \div d = p + q /\ (s + m) % d = r
  <2>1. s + m \in Nat /\ p + q \in Nat
    OBVIOUS
  <2>2. s + m = d * (p + q) + r
    BY <1>2
  <2> QED BY <2>1, <2>2, DivUnique
<1>3. m % d \in 0 .. d - 1
  BY <1>1
<1> QED BY <1>1, <1>2, <1>3
-----------------------------------------------------------------------------
(* The campaign of a member as a function of its updates.                  *)

StageFor(u) == IF u \div CheckEvery < Stages THEN u \div CheckEvery ELSE Stages - 1
StageAt(u) == IF u = 0 THEN 0 ELSE StageFor(u - 1)
ModelAt(u) == [k \in 1 .. u |-> <<k - 1, k - 1, k - 1, k - 1, StageFor(k - 1)>>]

\* What the k-th check of a member evaluates, and, of the evaluations J, what it passes.
Subject(m, k) ==
  [member |-> m, model |-> ModelAt(k * CheckEvery), stage |-> StageAt(k * CheckEvery)]
Verdict(J, m, k) == (CHOOSE j \in J : j.of = Subject(m, k)).passed

\* What the first n checks have passed, and the result of one check.
Mask(J, m, n) == UNION {Verdict(J, m, k) : k \in 1 .. n}

ResultAt(J, m, k) ==
  LET regressed == ~(Mask(J, m, k - 1) \subseteq Verdict(J, m, k))
      stage == StageAt(k * CheckEvery)
  IN  [update |-> k * CheckEvery, stage |-> stage, passed |-> Verdict(J, m, k),
       catastrophic |-> regressed, allowed |-> ~regressed,
       eligible |-> ~regressed /\ Verdict(J, m, k) = Introduced(stage)]

\* The first n checks of the member have been evaluated.
Known(J, m, n) == \A k \in 1 .. n : \E j \in J : j.of = Subject(m, k)

TrainerAt(m, u) ==
  [member |-> m, updates |-> u, model |-> ModelAt(u),
   action |-> u, minibatch |-> u, environment |-> u, curriculum |-> u]

\* After u updates and n checks, when the process remembers the last of them as last.
CampaignAt(J, m, u, n, last) ==
  [trainer |-> TrainerAt(m, u), hidden |-> u, stage |-> StageAt(u), passMask |-> Mask(J, m, n),
   transition |-> u, history |-> [k \in 1 .. n |-> ResultAt(J, m, k)], last |-> last]

TraceAt(u) ==
  [environment |-> u, curriculum |-> u, action |-> u, model |-> ModelAt(u), stage |-> StageFor(u)]

LineOf(u, trace, ran, retention) ==
  [update |-> u, transitions |-> u, trace |-> trace, hidden |-> u, stage |-> StageAt(u),
   ran |-> ran, retention |-> retention]

LineAt(J, m, u) ==
  IF u % CheckEvery = 0 THEN LineOf(u, TraceAt(u - 1), TRUE, ResultAt(J, m, u \div CheckEvery))
  ELSE LineOf(u, TraceAt(u - 1), FALSE, NoCheck)

ContentAt(J, m, u) ==
  Content(CampaignAt(J, m, u, u \div CheckEvery, ResultAt(J, m, u \div CheckEvery)))

\* An evaluation is repeated exactly.
Deterministic(J) ==
  /\ \A a \in J : a = [of |-> a.of, passed |-> a.passed]
  /\ \A a, b \in J : a.of = b.of => a.passed = b.passed

LEMMA Periods ==
  /\ CheckEvery \in Nat \ {0} /\ SaveEvery \in Nat \ {0} /\ Stages \in Nat \ {0}
  /\ Fork \in Nat \ {0} /\ SaveEvery % CheckEvery = 0 /\ Fork % SaveEvery = 0
  /\ Budget \in Nat /\ Budget >= Fork + SaveEvery
BY CampaignAssumption

LEMMA NoCheckIsNoResult ==
  ASSUME NEW J, NEW m, NEW k
  PROVE  ResultAt(J, m, k) # NoCheck
<1>1. "stage" \in DOMAIN ResultAt(J, m, k)
  BY DEF ResultAt
<1>2. "stage" \notin DOMAIN NoCheck
  BY DEF NoCheck
<1> QED BY <1>1, <1>2

\* A new evaluation leaves what is known as it is.
LEMMA VerdictKept ==
  ASSUME NEW J, NEW K, J \subseteq K, Deterministic(K), NEW m, NEW n \in Nat, Known(J, m, n)
  PROVE  /\ \A k \in 1 .. n : Verdict(K, m, k) = Verdict(J, m, k)
         /\ Known(K, m, n)
<1>1. ASSUME NEW k \in 1 .. n
      PROVE  Verdict(K, m, k) = Verdict(J, m, k)
  <2>1. PICK j \in J : j.of = Subject(m, k)
    BY DEF Known
  <2>2. (CHOOSE a \in J : a.of = Subject(m, k)) \in J /\ (CHOOSE a \in J : a.of = Subject(m, k)).of = Subject(m, k)
    BY <2>1
  <2>3. (CHOOSE a \in K : a.of = Subject(m, k)) \in K /\ (CHOOSE a \in K : a.of = Subject(m, k)).of = Subject(m, k)
    BY <2>1
  <2> QED BY <2>2, <2>3 DEF Verdict, Deterministic
<1> QED BY <1>1 DEF Known

LEMMA KnownLess ==
  ASSUME NEW J, NEW m, NEW n \in Nat, NEW i \in 0 .. n, Known(J, m, n)
  PROVE  Known(J, m, i)
BY DEF Known

LEMMA ResultKept ==
  ASSUME NEW J, NEW K, J \subseteq K, Deterministic(K), NEW m, NEW n \in Nat, Known(J, m, n)
  PROVE  /\ \A i \in 0 .. n : Mask(K, m, i) = Mask(J, m, i)
         /\ \A k \in 1 .. n : ResultAt(K, m, k) = ResultAt(J, m, k)
<1>1. \A k \in 1 .. n : Verdict(K, m, k) = Verdict(J, m, k)
  BY VerdictKept
<1>2. ASSUME NEW i \in 0 .. n
      PROVE  Mask(K, m, i) = Mask(J, m, i)
  <2>1. \A k \in 1 .. i : Verdict(K, m, k) = Verdict(J, m, k)
    BY <1>1
  <2> QED BY <2>1, Zenon DEF Mask
<1>3. ASSUME NEW k \in 1 .. n
      PROVE  ResultAt(K, m, k) = ResultAt(J, m, k)
  <2>1. Mask(K, m, k - 1) = Mask(J, m, k - 1) /\ Verdict(K, m, k) = Verdict(J, m, k)
    BY <1>1, <1>2
  <2> QED BY <2>1, Zenon DEF ResultAt
<1> QED BY <1>2, <1>3

LEMMA CampaignKept ==
  ASSUME NEW J, NEW K, J \subseteq K, Deterministic(K), NEW m, NEW u, NEW n \in Nat, NEW last,
         Known(J, m, n)
  PROVE  CampaignAt(K, m, u, n, last) = CampaignAt(J, m, u, n, last)
<1>1. Mask(K, m, n) = Mask(J, m, n) /\ \A k \in 1 .. n : ResultAt(K, m, k) = ResultAt(J, m, k)
  BY ResultKept
<1>2. [k \in 1 .. n |-> ResultAt(K, m, k)] = [k \in 1 .. n |-> ResultAt(J, m, k)]
  BY <1>1, Zenon
<1> QED BY <1>1, <1>2, Zenon DEF CampaignAt

LEMMA LineKept ==
  ASSUME NEW J, NEW K, J \subseteq K, Deterministic(K), NEW m, NEW u \in Nat \ {0},
         Known(J, m, u \div CheckEvery)
  PROVE  LineAt(K, m, u) = LineAt(J, m, u)
<1>1. u \div CheckEvery \in Nat
  BY Periods, DivDef
<1>2. CASE u % CheckEvery = 0
  <2>1. u \div CheckEvery \in 1 .. u \div CheckEvery
    BY <1>1, <1>2, Periods, DivDef
  <2>2. ResultAt(K, m, u \div CheckEvery) = ResultAt(J, m, u \div CheckEvery)
    BY <1>1, <2>1, ResultKept
  <2> QED BY <1>2, <2>2, Zenon DEF LineAt
<1>3. CASE u % CheckEvery # 0
  BY <1>3, Zenon DEF LineAt
<1> QED BY <1>2, <1>3

LEMMA ContentKept ==
  ASSUME NEW J, NEW K, J \subseteq K, Deterministic(K), NEW m, NEW u \in Nat \ {0},
         u % CheckEvery = 0, Known(J, m, u \div CheckEvery)
  PROVE  ContentAt(K, m, u) = ContentAt(J, m, u)
<1> DEFINE n == u \div CheckEvery
<1>1. n \in Nat /\ n \in 1 .. n
  BY Periods, DivDef
<1>2. ResultAt(K, m, n) = ResultAt(J, m, n)
  BY <1>1, ResultKept
<1>3. CampaignAt(K, m, u, n, ResultAt(J, m, n)) = CampaignAt(J, m, u, n, ResultAt(J, m, n))
  BY <1>1, CampaignKept
<1> QED BY <1>2, <1>3, Zenon DEF ContentAt

-----------------------------------------------------------------------------
(* What a process does to a campaign.                                      *)

LEMMA NewAt ==
  ASSUME NEW J, NEW m
  PROVE  NewCampaign(m) = CampaignAt(J, m, 0, 0, NoCheck)
<1>1. ModelAt(0) = <<>> /\ [k \in 1 .. 0 |-> ResultAt(J, m, k)] = <<>> /\ StageAt(0) = 0
  BY DEF ModelAt, StageAt
<1>2. Mask(J, m, 0) = {}
  BY DEF Mask
<1> QED BY <1>1, <1>2 DEF NewCampaign, NewTrainer, CampaignAt, TrainerAt

LEMMA StageNext ==
  ASSUME NEW J, NEW m, NEW u, NEW n, NEW last
  PROVE  StageForNextUpdate(CampaignAt(J, m, u, n, last)) = StageFor(u)
BY DEF StageForNextUpdate, CampaignAt, TrainerAt, StageFor

LEMMA TraceIs ==
  ASSUME NEW J, NEW m, NEW u, NEW n, NEW last
  PROVE  Trace(CampaignAt(J, m, u, n, last)) = TraceAt(u)
BY StageNext DEF Trace, CampaignAt, TrainerAt, TraceAt

LEMMA ModelGrows ==
  ASSUME NEW u \in Nat
  PROVE  Append(ModelAt(u), <<u, u, u, u, StageFor(u)>>) = ModelAt(u + 1)
BY DEF ModelAt

LEMMA TrainedIs ==
  ASSUME NEW J, NEW m, NEW u \in Nat, NEW n, NEW last
  PROVE  Trained(CampaignAt(J, m, u, n, last)) = CampaignAt(J, m, u + 1, n, last)
<1> DEFINE c == CampaignAt(J, m, u, n, last)
<1>1. StageForNextUpdate(c) = StageFor(u) /\ StageAt(u + 1) = StageFor(u)
  BY StageNext DEF StageAt
<1>2. c.trainer = TrainerAt(m, u) /\ c.passMask = Mask(J, m, n) /\ c.transition = u
      /\ c.history = [k \in 1 .. n |-> ResultAt(J, m, k)] /\ c.last = last
  BY DEF CampaignAt
<1>3. [member |-> m, updates |-> u + 1, model |-> Append(ModelAt(u), <<u, u, u, u, StageFor(u)>>),
       action |-> u + 1, minibatch |-> u + 1, environment |-> u + 1, curriculum |-> u + 1]
      = TrainerAt(m, u + 1)
  BY ModelGrows, Zenon DEF TrainerAt
<1>4. /\ TrainerAt(m, u).member = m /\ TrainerAt(m, u).updates = u /\ TrainerAt(m, u).model = ModelAt(u)
      /\ TrainerAt(m, u).action = u /\ TrainerAt(m, u).minibatch = u
      /\ TrainerAt(m, u).environment = u /\ TrainerAt(m, u).curriculum = u
  BY DEF TrainerAt
<1> HIDE DEF c
<1>5. Trained(c) = [trainer |-> TrainerAt(m, u + 1), hidden |-> u + 1, stage |-> StageAt(u + 1),
                    passMask |-> Mask(J, m, n), transition |-> u + 1,
                    history |-> [k \in 1 .. n |-> ResultAt(J, m, k)], last |-> last]
  BY <1>1, <1>2, <1>3, <1>4 DEF Trained
<1> QED BY <1>5 DEF CampaignAt, c

LEMMA EvaluationIs ==
  ASSUME NEW J, NEW m, NEW k, NEW n, NEW last
  PROVE  Evaluation(CampaignAt(J, m, k * CheckEvery, n, last)) = Subject(m, k)
BY DEF Evaluation, CampaignAt, TrainerAt, Subject

\* An evaluation that was made before shows what it showed then.
LEMMA Repeats ==
  ASSUME Deterministic(judged), NEW c, NEW passed \in Passes(c)
  PROVE  Deterministic(judged \cup {[of |-> Evaluation(c), passed |-> passed]})
BY DEF Deterministic, Passes

LEMMA RetentionForm ==
  ASSUME NEW campaign, NEW passed, NEW mask, NEW stage, NEW u,
         campaign.passMask = mask, campaign.stage = stage, campaign.trainer.updates = u
  PROVE  Retention(campaign, passed)
           = [update |-> u, stage |-> stage, passed |-> passed,
              catastrophic |-> ~(mask \subseteq passed), allowed |-> ~~(mask \subseteq passed),
              eligible |-> ~~(mask \subseteq passed) /\ passed = Introduced(stage)]
BY Zenon DEF Retention

LEMMA ResultForm ==
  ASSUME NEW J, NEW m, NEW k, NEW passed, NEW mask,
         Mask(J, m, k - 1) = mask, Verdict(J, m, k) = passed
  PROVE  ResultAt(J, m, k)
           = [update |-> k * CheckEvery, stage |-> StageAt(k * CheckEvery), passed |-> passed,
              catastrophic |-> ~(mask \subseteq passed), allowed |-> ~~(mask \subseteq passed),
              eligible |-> ~~(mask \subseteq passed) /\ passed = Introduced(StageAt(k * CheckEvery))]
BY Zenon DEF ResultAt

LEMMA CheckedIs ==
  ASSUME NEW J, NEW K, J \subseteq K, Deterministic(K), NEW m, NEW n \in Nat, Known(J, m, n),
         NEW last, NEW passed, [of |-> Subject(m, n + 1), passed |-> passed] \in K
  PROVE  /\ Known(K, m, n + 1)
         /\ Checked(CampaignAt(J, m, (n + 1) * CheckEvery, n, last), passed)
              = CampaignAt(K, m, (n + 1) * CheckEvery, n + 1, ResultAt(K, m, n + 1))
<1> DEFINE u == (n + 1) * CheckEvery
           c == CampaignAt(J, m, u, n, last)
           j == [of |-> Subject(m, n + 1), passed |-> passed]
<1>1. Known(K, m, n + 1)
  <2>1. Known(K, m, n)
    BY VerdictKept
  <2>2. j.of = Subject(m, n + 1) /\ j \in K
    OBVIOUS
  <2> QED BY <2>1, <2>2 DEF Known
<1>2. Verdict(K, m, n + 1) = passed
  <2>1. j \in K /\ j.of = Subject(m, n + 1) /\ j.passed = passed
    OBVIOUS
  <2> HIDE DEF j
  <2>2. (CHOOSE a \in K : a.of = Subject(m, n + 1)) \in K
        /\ (CHOOSE a \in K : a.of = Subject(m, n + 1)).of = Subject(m, n + 1)
    BY <2>1
  <2> QED BY <2>1, <2>2 DEF Verdict, Deterministic
<1>3. /\ Mask(K, m, n) = Mask(J, m, n) /\ n + 1 - 1 = n
      /\ \A k \in 1 .. n : ResultAt(K, m, k) = ResultAt(J, m, k)
  BY ResultKept
<1>4. Mask(K, m, n + 1) = Mask(J, m, n) \cup passed
  <2>1. 1 .. n + 1 = (1 .. n) \cup {n + 1}
    OBVIOUS
  <2>2. Mask(K, m, n + 1) = Mask(K, m, n) \cup Verdict(K, m, n + 1)
    BY <2>1 DEF Mask
  <2> QED BY <1>2, <1>3, <2>2
<1>5. Retention(c, passed) = ResultAt(K, m, n + 1)
  <2>1. c.passMask = Mask(J, m, n) /\ c.stage = StageAt(u) /\ c.trainer.updates = u
    BY DEF CampaignAt, TrainerAt
  <2>2. Mask(K, m, n + 1 - 1) = Mask(J, m, n)
    BY <1>3
  <2> QED BY <1>2, <2>1, <2>2, ResultForm, RetentionForm
<1>6. Append(c.history, ResultAt(K, m, n + 1)) = [k \in 1 .. n + 1 |-> ResultAt(K, m, k)]
  <2>1. c.history = [k \in 1 .. n |-> ResultAt(K, m, k)]
    BY <1>3, Zenon DEF CampaignAt
  <2> HIDE DEF c
  <2> QED BY <2>1
<1>7. /\ c.trainer = TrainerAt(m, u) /\ c.hidden = u /\ c.stage = StageAt(u) /\ c.transition = u
      /\ c.passMask = Mask(J, m, n)
  BY DEF CampaignAt
<1> HIDE DEF c
<1>8. Checked(c, passed)
        = [trainer |-> TrainerAt(m, u), hidden |-> u, stage |-> StageAt(u),
           passMask |-> Mask(K, m, n + 1), transition |-> u,
           history |-> [k \in 1 .. n + 1 |-> ResultAt(K, m, k)], last |-> ResultAt(K, m, n + 1)]
  BY <1>4, <1>5, <1>6, <1>7 DEF Checked
<1>9. Checked(c, passed) = CampaignAt(K, m, u, n + 1, ResultAt(K, m, n + 1))
  BY <1>8 DEF CampaignAt
<1> QED BY <1>1, <1>9 DEF c

LEMMA ContentIs ==
  ASSUME NEW J, NEW m, NEW u
  PROVE  /\ ContentAt(J, m, u).runtime.member = m /\ ContentAt(J, m, u).runtime.updates = u
         /\ ContentAt(J, m, u).selection = ResultAt(J, m, u \div CheckEvery)
BY DEF ContentAt, Content, RuntimeState, CampaignAt, TrainerAt

LEMMA LoadedIs ==
  ASSUME NEW J, NEW m, NEW u
  PROVE  Loaded(ContentAt(J, m, u)) = CampaignAt(J, m, u, u \div CheckEvery, NoCheck)
BY DEF Loaded, Decoded, ContentAt, Content, RuntimeState, CampaignAt, TrainerAt

-----------------------------------------------------------------------------
(* The jobs of a harness.                                                  *)

LEMMA MembersInOrder ==
  /\ InOrder \in [1 .. Cardinality(Members) -> Members] /\ IsInjective(InOrder)
  /\ Cardinality(Members) \in Nat /\ Len(InOrder) = Cardinality(Members)
<1>1. /\ Cardinality(Members) \in Nat
      /\ \E f \in [1 .. Cardinality(Members) -> Members] : IsInjective(f)
  BY CampaignAssumption, FS_CardinalityType DEF ExistsBijection, Bijection, Injection
<1>2. InOrder \in [1 .. Cardinality(Members) -> Members] /\ IsInjective(InOrder)
  BY <1>1, Zenon DEF InOrder, SetToSeq
<1> QED BY <1>1, <1>2

Kinds == {"recovery", "training"}
NumJobs(kind) == IF kind = "recovery" THEN 3 * Len(InOrder) ELSE Len(InOrder)
RootOf(job) == <<job.name, job.member>>

LEMMA JobsAre ==
  ASSUME NEW kind \in Kinds
  PROVE  Len(Jobs(kind)) = NumJobs(kind) /\ NumJobs(kind) \in Nat
<1>1. Len(InOrder) \in Nat /\ DOMAIN InOrder = 1 .. Len(InOrder)
  BY MembersInOrder
<1>2. CASE kind = "recovery"
  <2>1. 3 * Len(InOrder) \in Nat
    BY <1>1
  <2> QED BY <1>2, <2>1 DEF Jobs, NumJobs
<1>3. CASE kind = "training"
  BY <1>1, <1>3 DEF Jobs, NumJobs
<1> QED BY <1>2, <1>3 DEF Kinds

LEMMA RecoveryJob ==
  ASSUME NEW n \in 1 .. NumJobs("recovery")
  PROVE  LET m == InOrder[(n - 1) \div 3 + 1] IN
         /\ (n - 1) \div 3 + 1 \in 1 .. Len(InOrder)
         /\ n % 3 = 1 => Jobs("recovery")[n] = Job("uninterrupted", m, 0, Fork + SaveEvery)
         /\ n % 3 = 2 => Jobs("recovery")[n] = Job("prefix", m, 0, Fork)
         /\ n % 3 = 0 => Jobs("recovery")[n] = Job("resumed", m, Fork, SaveEvery)
<1> DEFINE i == (n - 1) \div 3 + 1
<1>1. n \in Nat \ {0} /\ Len(InOrder) \in Nat /\ n <= 3 * Len(InOrder)
  BY MembersInOrder DEF NumJobs
<1>2. i \in 1 .. Len(InOrder)
  BY <1>1
<1>3. Jobs("recovery")[n] = RecoveryJobs(InOrder[i])[((n - 1) % 3) + 1]
  BY <1>1 DEF Jobs
<1>4. /\ n % 3 = 1 => ((n - 1) % 3) + 1 = 1
      /\ n % 3 = 2 => ((n - 1) % 3) + 1 = 2
      /\ n % 3 = 0 => ((n - 1) % 3) + 1 = 3
  BY <1>1
<1> HIDE DEF i
<1>5. /\ RecoveryJobs(InOrder[i])[1] = Job("uninterrupted", InOrder[i], 0, Fork + SaveEvery)
      /\ RecoveryJobs(InOrder[i])[2] = Job("prefix", InOrder[i], 0, Fork)
      /\ RecoveryJobs(InOrder[i])[3] = Job("resumed", InOrder[i], Fork, SaveEvery)
  BY DEF RecoveryJobs
<1> QED BY <1>2, <1>3, <1>4, <1>5 DEF i

LEMMA TrainingJob ==
  ASSUME NEW n \in 1 .. NumJobs("training")
  PROVE  Jobs("training")[n] = Job("training", InOrder[n], 0, Budget) /\ n \in 1 .. Len(InOrder)
BY MembersInOrder DEF NumJobs, Jobs

LEMMA JobFacts ==
  ASSUME NEW kind \in Kinds, NEW n \in 1 .. NumJobs(kind)
  PROVE  LET job == Jobs(kind)[n] IN
         /\ job.member \in Members /\ RootOf(job) \in Roots
         /\ job.start \in Nat /\ job.start % SaveEvery = 0 /\ job.start \in {0, Fork}
         /\ job.count \in Nat \ {0} /\ job.start + job.count <= Budget
         /\ job.start # 0 => kind = "recovery" /\ n % 3 = 0
<1>0. 0 % SaveEvery = 0
  BY Periods, DivUnique
<1>1. CASE kind = "recovery"
  <2>1. n \in Nat /\ (n % 3 = 0 \/ n % 3 = 1 \/ n % 3 = 2)
    OBVIOUS
  <2>2. PICK m \in Members :
         /\ n % 3 = 1 => Jobs(kind)[n] = Job("uninterrupted", m, 0, Fork + SaveEvery)
         /\ n % 3 = 2 => Jobs(kind)[n] = Job("prefix", m, 0, Fork)
         /\ n % 3 = 0 => Jobs(kind)[n] = Job("resumed", m, Fork, SaveEvery)
    BY <1>1, RecoveryJob, MembersInOrder
  <2>3. CASE n % 3 = 1
    BY <1>0, <1>1, <2>2, <2>3, Periods DEF Job, RootOf, Roots
  <2>4. CASE n % 3 = 2
    BY <1>0, <1>1, <2>2, <2>4, Periods DEF Job, RootOf, Roots
  <2>5. CASE n % 3 = 0
    BY <1>0, <1>1, <2>2, <2>5, Periods DEF Job, RootOf, Roots
  <2> QED BY <2>1, <2>3, <2>4, <2>5
<1>2. CASE kind = "training"
  <2>1. PICK m \in Members : Jobs(kind)[n] = Job("training", m, 0, Budget)
    BY <1>2, TrainingJob, MembersInOrder
  <2> QED BY <1>0, <2>1, Periods DEF Job, RootOf, Roots
<1> QED BY <1>1, <1>2 DEF Kinds

LEMMA RecoveryRoot ==
  ASSUME NEW n \in 1 .. NumJobs("recovery")
  PROVE  LET i == (n - 1) \div 3 + 1
             job == Jobs("recovery")[n] IN
         /\ i \in 1 .. Len(InOrder) /\ job.member = InOrder[i] /\ n % 3 \in 0 .. 2
         /\ n % 3 = 1 => job.name = "uninterrupted"
         /\ n % 3 = 2 => job.name = "prefix"
         /\ n % 3 = 0 => job.name = "resumed"
<1> DEFINE m == InOrder[(n - 1) \div 3 + 1]
<1>1. n % 3 \in 0 .. 2
  OBVIOUS
<1>2. /\ (n - 1) \div 3 + 1 \in 1 .. Len(InOrder)
      /\ n % 3 = 1 => Jobs("recovery")[n] = Job("uninterrupted", m, 0, Fork + SaveEvery)
      /\ n % 3 = 2 => Jobs("recovery")[n] = Job("prefix", m, 0, Fork)
      /\ n % 3 = 0 => Jobs("recovery")[n] = Job("resumed", m, Fork, SaveEvery)
  BY RecoveryJob
<1> HIDE DEF m
<1>3. /\ n % 3 = 1 => Jobs("recovery")[n].member = m /\ Jobs("recovery")[n].name = "uninterrupted"
      /\ n % 3 = 2 => Jobs("recovery")[n].member = m /\ Jobs("recovery")[n].name = "prefix"
      /\ n % 3 = 0 => Jobs("recovery")[n].member = m /\ Jobs("recovery")[n].name = "resumed"
  BY <1>2 DEF Job
<1> QED BY <1>1, <1>2, <1>3 DEF m

LEMMA ThreeEach ==
  ASSUME NEW n \in Nat \ {0}, NEW k \in Nat \ {0}, (n - 1) \div 3 = (k - 1) \div 3, n % 3 = k % 3
  PROVE  n = k
OBVIOUS

\* No two jobs write to one root.
LEMMA RootsDiffer ==
  ASSUME NEW kind \in Kinds, NEW n \in 1 .. NumJobs(kind), NEW k \in 1 .. NumJobs(kind),
         RootOf(Jobs(kind)[n]) = RootOf(Jobs(kind)[k])
  PROVE  n = k
<1>0. Jobs(kind)[n].name = Jobs(kind)[k].name /\ Jobs(kind)[n].member = Jobs(kind)[k].member
  BY DEF RootOf
<1>1. CASE kind = "recovery"
  <2>1. /\ n \in 1 .. NumJobs("recovery") /\ k \in 1 .. NumJobs("recovery")
        /\ Jobs("recovery")[n].name = Jobs("recovery")[k].name
        /\ Jobs("recovery")[n].member = Jobs("recovery")[k].member
    BY <1>0, <1>1
  <2>2. PICK i \in 1 .. Len(InOrder) : i = (n - 1) \div 3 + 1 /\ Jobs("recovery")[n].member = InOrder[i]
    BY <2>1, RecoveryRoot
  <2>3. PICK j \in 1 .. Len(InOrder) : j = (k - 1) \div 3 + 1 /\ Jobs("recovery")[k].member = InOrder[j]
    BY <2>1, RecoveryRoot
  <2>4. i = j
    BY <2>1, <2>2, <2>3, MembersInOrder DEF IsInjective
  <2>5. n % 3 = k % 3
    BY <2>1, RecoveryRoot
  <2>6. n \in Nat \ {0} /\ k \in Nat \ {0} /\ (n - 1) \div 3 = (k - 1) \div 3
    BY <2>2, <2>3, <2>4
  <2> QED BY <2>5, <2>6, ThreeEach
<1>2. CASE kind = "training"
  <2>1. /\ n \in 1 .. Len(InOrder) /\ Jobs(kind)[n] = Job("training", InOrder[n], 0, Budget)
        /\ k \in 1 .. Len(InOrder) /\ Jobs(kind)[k] = Job("training", InOrder[k], 0, Budget)
    BY <1>2, TrainingJob
  <2>2. InOrder[n] = InOrder[k]
    BY <1>0, <2>1 DEF Job
  <2> QED BY <2>1, <2>2, MembersInOrder DEF IsInjective
<1> QED BY <1>1, <1>2 DEF Kinds

-----------------------------------------------------------------------------
(* The inductive invariant.                                                *)

Member == process.campaign.trainer.member
Made == process.campaign.trainer.updates
Checks == Made \div CheckEvery

Shape ==
  /\ process # Nowhere =>
       /\ DOMAIN process = {"pc", "campaign", "left", "root", "out", "code"}
       /\ DOMAIN process.out = {"updates", "checkpoints", "terminal"}
       /\ process.pc \in {"update", "save", "announce", "exit", "refused", "exited"}
       /\ process.pc = "exited" => process.code \in {"pass", "error", "exists"}
       /\ process.pc # "exited" => process.code = "none"
  /\ DOMAIN disk = Roots
  /\ DOMAIN harness = {"kind", "done", "status", "selected"}
  /\ harness.kind \in Kinds /\ harness.status \in {"running", "PASS", "FAIL"}

\* The running campaign is the one of its member and updates; when it is saved it has
\* just been checked.
OnPath ==
  process # Nowhere =>
    /\ Made \in Nat
    /\ process.campaign = CampaignAt(judged, Member, Made, Checks, process.campaign.last)
    /\ Known(judged, Member, Checks)
    /\ process.campaign.last # NoCheck => process.campaign.last = ResultAt(judged, Member, Checks)
    /\ process.pc \in {"save", "announce"} =>
         /\ Made > 0 /\ Made % SaveEvery = 0
         /\ process.campaign.last # NoCheck /\ process.campaign.last.allowed
    /\ process.pc \in {"update", "save", "announce", "exit"} =>
         process.left \in Nat /\ Made + process.left <= Budget
    /\ process.pc = "update" => process.left > 0

\* What was printed and what is published are those of their member and updates.
PrintedAs(J, a) ==
  /\ a.line.update \in 1 .. Budget
  /\ a = [member |-> a.member, line |-> LineAt(J, a.member, a.line.update)]
  /\ Known(J, a.member, a.line.update \div CheckEvery)

PublishedAs(J, c) ==
  /\ c.runtime.updates \in Nat \ {0} /\ c.runtime.updates % SaveEvery = 0
  /\ c = ContentAt(J, c.runtime.member, c.runtime.updates)
  /\ Known(J, c.runtime.member, c.runtime.updates \div CheckEvery)
  /\ ResultAt(J, c.runtime.member, c.runtime.updates \div CheckEvery).allowed

Determined ==
  /\ Shape /\ Deterministic(judged) /\ OnPath
  /\ \A a \in printed : PrintedAs(judged, a)
  /\ \A r \in Roots : \A c \in disk[r] : PublishedAs(judged, c)

\* What a harness keeps of a job that ended as it should.
SavedAt(J, m, u) == [update |-> u, id |-> ContentAt(J, m, u)]

Whole(J, job) ==
  [member |-> job.member,
   updates |-> [k \in 1 .. job.count |-> LineAt(J, job.member, job.start + k)],
   checkpoints |-> [k \in 1 .. job.count \div SaveEvery |->
                      SavedAt(J, job.member, job.start + k * SaveEvery)]]

Published(J, job) ==
  {ContentAt(J, job.member, job.start + k * SaveEvery) : k \in 1 .. job.count \div SaveEvery}

KnownTo(J, job) == Known(J, job.member, (job.start + job.count) \div CheckEvery)

DoneJob(n) == Jobs(harness.kind)[n]

DoneRight ==
  /\ Len(harness.done) \in 0 .. NumJobs(harness.kind)
  /\ harness.done = [n \in 1 .. Len(harness.done) |-> Whole(judged, DoneJob(n))]
  /\ \A n \in 1 .. Len(harness.done) :
       KnownTo(judged, DoneJob(n)) /\ Published(judged, DoneJob(n)) \subseteq disk[RootOf(DoneJob(n))]

\* The roots of the jobs that are still to come are empty.
RootsAhead ==
  Working => \A n \in Len(harness.done) + 1 .. NumJobs(harness.kind) :
    n > Len(harness.done) + 1 \/ process = Nowhere => disk[RootOf(DoneJob(n))] = {}

\* The process of a harness has done what its job says, up to here.
Trains(job) ==
  /\ process.root = RootOf(job) /\ Member = job.member
  /\ Made >= job.start /\ process.left \in Nat /\ process.left + Made = job.start + job.count
  /\ process.pc # "refused" /\ process.code # "exists"
  /\ process.pc = "update" => process.left > 0
  /\ process.pc = "exit" \/ process.code = "pass" => process.left = 0
  /\ process.code = "error" => faulted
  /\ process.out.updates = [k \in 1 .. Made - job.start |-> LineAt(judged, job.member, job.start + k)]
  /\ \A k \in 1 .. Made - job.start :
       [member |-> job.member, line |-> LineAt(judged, job.member, job.start + k)] \in printed
  /\ process.pc # "exited" => process.out.terminal = <<>>
  /\ process.code = "pass" =>
       process.out.terminal = <<[member |-> job.member, updates |-> Made, transitions |-> Made]>>

IsSequence(s) == \E S : s \in Seq(S)
Smooth == \A a \in printed : a.line.ran => ~a.line.retention.catastrophic

\* How many of its checkpoints it has announced, if no check has regressed.
Announced(job) ==
  ((Made - job.start) \div SaveEvery) - (IF process.pc \in {"save", "announce"} THEN 1 ELSE 0)

Saves(job) ==
  /\ IsSequence(process.out.checkpoints)
  /\ \A k \in 1 .. Len(process.out.checkpoints) :
       LET line == process.out.checkpoints[k] IN
       /\ line.update \in 1 .. Made /\ line.update % SaveEvery = 0
       /\ line = SavedAt(judged, job.member, line.update) /\ line.id \in disk[RootOf(job)]
  /\ process.pc = "announce" => Content(process.campaign) \in disk[RootOf(job)]
  /\ \A c \in disk[RootOf(job)] :
       c.runtime.updates <= Made /\ (process.pc = "save" => c.runtime.updates < Made)
  /\ Smooth /\ process.code # "error" =>
       /\ Len(process.out.checkpoints) = Announced(job)
       /\ \A k \in 1 .. Len(process.out.checkpoints) :
            process.out.checkpoints[k].update = job.start + k * SaveEvery

OnCourse ==
  Working /\ process # Nowhere =>
    /\ Len(harness.done) < NumJobs(harness.kind)
    /\ Trains(Current) /\ Saves(Current)

\* A member of which no check at a checkpoint was eligible.
Barren(m) ==
  \A k \in 1 .. Budget \div SaveEvery : \E a \in printed :
    a.member = m /\ a.line.update = k * SaveEvery /\ ~a.line.retention.eligible

Cause ==
  \/ faulted
  \/ ~Smooth
  \/ harness.kind = "training" /\ \E m \in Members : Barren(m)

Selected ==
  \A c \in harness.selected :
    c.selection.passed = Introduced(c.selection.stage) /\ \E r \in Roots : c \in disk[r]

IInv ==
  /\ Determined /\ DoneRight /\ RootsAhead /\ OnCourse /\ Selected
  /\ harness.status = "FAIL" => Cause

-----------------------------------------------------------------------------
(* What is known stays known.                                              *)

Grows ==
  /\ judged \subseteq judged' /\ Deterministic(judged') /\ printed \subseteq printed'
  /\ DOMAIN disk' = Roots /\ \A r \in Roots : disk[r] \subseteq disk'[r]
  /\ faulted => faulted'

LEMMA PrintedKept ==
  ASSUME NEW J, NEW K, J \subseteq K, Deterministic(K), NEW a, PrintedAs(J, a)
  PROVE  PrintedAs(K, a)
<1>0. a.line.update \in Nat \ {0}
  BY Periods DEF PrintedAs
<1>1. a.line.update \div CheckEvery \in Nat
  BY <1>0, Periods, DivDef
<1>2. LineAt(K, a.member, a.line.update) = LineAt(J, a.member, a.line.update)
  BY <1>0, LineKept DEF PrintedAs
<1>3. Known(K, a.member, a.line.update \div CheckEvery)
  BY <1>1, VerdictKept DEF PrintedAs
<1> QED BY <1>2, <1>3, Zenon DEF PrintedAs

LEMMA SaveIsCheck ==
  ASSUME NEW u \in Nat \ {0}, u % SaveEvery = 0
  PROVE  u % CheckEvery = 0 /\ u \div CheckEvery \in Nat \ {0}
<1>1. u % CheckEvery = 0
  BY Periods, Divides
<1>2. u \div CheckEvery \in Nat /\ u = CheckEvery * (u \div CheckEvery)
  BY <1>1, Periods, DivDef
<1> QED BY <1>1, <1>2, Periods

LEMMA PublishedKept ==
  ASSUME NEW J, NEW K, J \subseteq K, Deterministic(K), NEW c, PublishedAs(J, c)
  PROVE  PublishedAs(K, c)
<1>0. PICK m : m = c.runtime.member
  OBVIOUS
<1>1. PICK u \in Nat \ {0} :
        /\ u = c.runtime.updates /\ u % SaveEvery = 0 /\ Known(J, m, u \div CheckEvery)
        /\ c = ContentAt(J, m, u) /\ ResultAt(J, m, u \div CheckEvery).allowed
  BY <1>0 DEF PublishedAs
<1>2. PICK n \in Nat \ {0} : n = u \div CheckEvery /\ u % CheckEvery = 0
  BY <1>1, SaveIsCheck
<1>3. ContentAt(K, m, u) = ContentAt(J, m, u)
  BY <1>1, <1>2, ContentKept
<1>4. n \in Nat /\ n \in 1 .. n /\ Known(J, m, n)
  <2>1. n \in Nat /\ n \in 1 .. n
    OBVIOUS
  <2> QED BY <1>1, <1>2, <2>1
<1>5. Known(K, m, n)
  BY <1>4, VerdictKept
<1>6. ResultAt(K, m, n) = ResultAt(J, m, n)
  BY <1>4, ResultKept
<1> QED BY <1>0, <1>1, <1>2, <1>3, <1>5, <1>6 DEF PublishedAs

\* The updates of a job, and its checkpoints.
LEMMA Fits ==
  ASSUME NEW s \in Nat, s % SaveEvery = 0, NEW n \in Nat, NEW k \in 1 .. n \div SaveEvery
  PROVE  /\ k * SaveEvery \in 1 .. n /\ s + k * SaveEvery \in Nat \ {0}
         /\ (s + k * SaveEvery) % SaveEvery = 0
<1>1. n \div SaveEvery \in Nat /\ SaveEvery * (n \div SaveEvery) <= n /\ SaveEvery \in Nat \ {0}
  BY Periods, DivDef
<1>2. k \in Nat \ {0} /\ k <= n \div SaveEvery
  BY <1>1
<1>3. ASSUME NEW d \in Nat \ {0}, NEW q \in Nat, d * q <= n, k <= q
      PROVE  k * d \in 1 .. n
  <2>1. k * d \in Nat \ {0} /\ k * d <= d * q
    BY <1>2, <1>3
  <2> QED BY <1>3, <2>1
<1>4. k * SaveEvery \in 1 .. n
  BY <1>1, <1>2, <1>3
<1>5. (k * SaveEvery) % SaveEvery = 0
  BY <1>1, <1>2, Multiple
<1>6. PICK p \in 1 .. n : p = k * SaveEvery /\ p % SaveEvery = 0
  BY <1>4, <1>5
<1>7. p \in Nat /\ (s + p) % SaveEvery = 0
  <2>1. p \in Nat
    OBVIOUS
  <2> QED BY <1>1, <1>6, <2>1, Shifted
<1> QED BY <1>6, <1>7

LEMMA WholeKept ==
  ASSUME NEW J, NEW K, J \subseteq K, Deterministic(K), NEW job,
         job.start \in Nat, job.start % SaveEvery = 0, job.count \in Nat,
         KnownTo(J, job)
  PROVE  KnownTo(K, job) /\ Whole(K, job) = Whole(J, job) /\ Published(K, job) = Published(J, job)
<1> DEFINE n == (job.start + job.count) \div CheckEvery
<1>0. job.start + job.count \in Nat
  OBVIOUS
<1>1. n \in Nat /\ job.start + job.count \in Nat
  BY <1>0, Periods, DivDef
<1>a. Known(J, job.member, n)
  BY DEF KnownTo
<1>2. ASSUME NEW v \in Nat, v <= job.start + job.count
      PROVE  Known(J, job.member, v \div CheckEvery)
  <2>1. v \div CheckEvery \in Nat /\ v \div CheckEvery <= n
    BY <1>1, <1>2, Periods, DivDef, DivMonotone
  <2>2. v \div CheckEvery \in 0 .. n
    BY <1>1, <2>1
  <2> HIDE DEF n
  <2> QED BY <1>1, <1>a, <2>2, KnownLess
<1>3. ASSUME NEW k \in 1 .. job.count
      PROVE  LineAt(K, job.member, job.start + k) = LineAt(J, job.member, job.start + k)
  <2>1. job.start + k \in Nat \ {0} /\ job.start + k <= job.start + job.count
    OBVIOUS
  <2> QED BY <1>2, <2>1, LineKept
<1>4. ASSUME NEW k \in 1 .. job.count \div SaveEvery
      PROVE  ContentAt(K, job.member, job.start + k * SaveEvery)
               = ContentAt(J, job.member, job.start + k * SaveEvery)
  <2>1. PICK v \in Nat \ {0} : v = job.start + k * SaveEvery /\ v % SaveEvery = 0
                               /\ v <= job.start + job.count
    BY Fits
  <2>2. v % CheckEvery = 0 /\ Known(J, job.member, v \div CheckEvery)
    BY <1>2, <2>1, SaveIsCheck
  <2>3. ContentAt(K, job.member, v) = ContentAt(J, job.member, v)
    BY <2>2, ContentKept
  <2> QED BY <2>1, <2>3
<1>5. KnownTo(K, job)
  BY <1>1, <1>a, VerdictKept DEF KnownTo
<1>6. /\ [k \in 1 .. job.count |-> LineAt(K, job.member, job.start + k)]
           = [k \in 1 .. job.count |-> LineAt(J, job.member, job.start + k)]
      /\ [k \in 1 .. job.count \div SaveEvery |-> SavedAt(K, job.member, job.start + k * SaveEvery)]
           = [k \in 1 .. job.count \div SaveEvery |-> SavedAt(J, job.member, job.start + k * SaveEvery)]
  BY <1>3, <1>4, Zenon DEF SavedAt
<1>7. Whole(K, job) = Whole(J, job)
  BY <1>6, Zenon DEF Whole
<1>8. Published(K, job) = Published(J, job)
  BY <1>4, Zenon DEF Published
<1> QED BY <1>5, <1>7, <1>8

LEMMA DoneKept ==
  ASSUME Shape, DoneRight, Grows, UNCHANGED <<harness>>
  PROVE  DoneRight'
<1>1. /\ judged \subseteq judged' /\ Deterministic(judged') /\ harness' = harness
      /\ \A r \in Roots : disk[r] \subseteq disk'[r]
  BY DEF Grows
<1>2. ASSUME NEW n \in 1 .. Len(harness.done)
      PROVE  /\ Whole(judged', DoneJob(n)) = Whole(judged, DoneJob(n))
             /\ KnownTo(judged', DoneJob(n))
             /\ Published(judged', DoneJob(n)) \subseteq disk'[RootOf(DoneJob(n))]
  <2>1. harness.kind \in Kinds /\ n \in 1 .. NumJobs(harness.kind)
    BY JobsAre DEF Shape, DoneRight
  <2>2. PICK job : job = DoneJob(n)
    OBVIOUS
  <2>3. /\ job.start \in Nat /\ job.start % SaveEvery = 0 /\ job.count \in Nat
        /\ RootOf(job) \in Roots
    BY <2>1, <2>2, JobFacts DEF DoneJob
  <2>4. KnownTo(judged, job) /\ Published(judged, job) \subseteq disk[RootOf(job)]
    BY <2>2 DEF DoneRight
  <2>5. KnownTo(judged', job) /\ Whole(judged', job) = Whole(judged, job)
        /\ Published(judged', job) = Published(judged, job)
    BY <1>1, <2>3, <2>4, WholeKept
  <2> QED BY <1>1, <2>2, <2>3, <2>4, <2>5
<1>3. [n \in 1 .. Len(harness.done) |-> Whole(judged', DoneJob(n))]
        = [n \in 1 .. Len(harness.done) |-> Whole(judged, DoneJob(n))]
  BY <1>2, Zenon
<1>4. \A n \in 1 .. Len(harness.done) : DoneJob(n)' = DoneJob(n)
  BY <1>1 DEF DoneJob
<1> QED BY <1>1, <1>2, <1>3, <1>4 DEF DoneRight, DoneJob

LEMMA CauseKept ==
  ASSUME Grows, harness'.kind = harness.kind, Cause
  PROVE  Cause'
BY DEF Grows, Cause, Smooth, Barren

LEMMA SelectedKept ==
  ASSUME Grows, harness'.selected = harness.selected, Selected
  PROVE  Selected'
BY DEF Grows, Selected
-----------------------------------------------------------------------------
(* One step.                                                               *)

LEMMA InitInv == Init => IInv
<1> SUFFICES ASSUME Init PROVE IInv
  OBVIOUS
<1>1. /\ process = Nowhere /\ disk = [r \in Roots |-> {}] /\ judged = {} /\ printed = {}
      /\ DOMAIN harness = {"kind", "done", "status", "selected"}
      /\ harness.kind \in Kinds /\ harness.done = <<>> /\ harness.status = "running" /\ harness.selected = {}
  BY DEF Init, Kinds
<1>2. Shape /\ OnPath /\ OnCourse /\ Deterministic(judged)
  BY <1>1 DEF Shape, OnPath, OnCourse, Deterministic
<1>3. Determined
  BY <1>1, <1>2 DEF Determined
<1>4. DoneRight
  <2>1. NumJobs(harness.kind) \in Nat
    BY <1>1, JobsAre
  <2> QED BY <1>1, <2>1 DEF DoneRight
<1>5. RootsAhead
  <2>1. \A n \in 1 .. NumJobs(harness.kind) : RootOf(DoneJob(n)) \in Roots
    BY <1>1, JobFacts DEF DoneJob
  <2> QED BY <1>1, <2>1 DEF RootsAhead
<1>6. Selected /\ harness.status # "FAIL"
  BY <1>1 DEF Selected
<1> QED BY <1>2, <1>3, <1>4, <1>5, <1>6 DEF IInv

\* The job of a running harness, whose process is its next.
LEMMA CurrentJob ==
  ASSUME Shape, DoneRight, Len(harness.done) < NumJobs(harness.kind)
  PROVE  /\ Len(harness.done) + 1 \in 1 .. NumJobs(harness.kind) /\ Len(harness.done) \in Nat
         /\ Current = DoneJob(Len(harness.done) + 1)
         /\ Current.member \in Members /\ RootOf(Current) \in Roots
         /\ Current.start \in Nat /\ Current.start % SaveEvery = 0 /\ Current.start \in {0, Fork}
         /\ Current.count \in Nat \ {0} /\ Current.start + Current.count <= Budget
         /\ Current.start # 0 => harness.kind = "recovery" /\ (Len(harness.done) + 1) % 3 = 0
<1>1. harness.kind \in Kinds /\ NumJobs(harness.kind) \in Nat
  BY JobsAre DEF Shape
<1>2. Len(harness.done) + 1 \in 1 .. NumJobs(harness.kind) /\ Len(harness.done) \in Nat
  BY <1>1 DEF DoneRight
<1>3. PICK n \in 1 .. NumJobs(harness.kind) : n = Len(harness.done) + 1
  BY <1>2
<1>4. Current = DoneJob(n) /\ DoneJob(n) = Jobs(harness.kind)[n]
  BY <1>3 DEF Current, DoneJob
<1> QED BY <1>1, <1>2, <1>3, <1>4, JobFacts

\* Of the jobs, only the current one has a process.
LEMMA AheadKept ==
  ASSUME Shape, DoneRight, RootsAhead, harness' = harness, process # Nowhere, process' # Nowhere,
         \A r \in Roots : (Working /\ r = RootOf(Current)) \/ disk'[r] = disk[r],
         Working => Len(harness.done) < NumJobs(harness.kind)
  PROVE  RootsAhead'
<1> SUFFICES ASSUME Working', NEW n \in (Len(harness.done) + 1 .. NumJobs(harness.kind))',
                    (n > Len(harness.done) + 1)'
             PROVE  (disk[RootOf(DoneJob(n))] = {})'
  BY DEF RootsAhead
<1>1. /\ Working /\ n \in Len(harness.done) + 1 .. NumJobs(harness.kind) /\ n > Len(harness.done) + 1
      /\ DoneJob(n)' = DoneJob(n) /\ Len(harness.done) < NumJobs(harness.kind)
      /\ harness.kind \in Kinds
  BY DEF Working, DoneJob, Shape
<1>2. disk[RootOf(DoneJob(n))] = {}
  BY <1>1 DEF RootsAhead
<1>3. n \in 1 .. NumJobs(harness.kind) /\ Len(harness.done) + 1 \in 1 .. NumJobs(harness.kind)
      /\ n # Len(harness.done) + 1
  BY <1>1, CurrentJob
<1>4. RootOf(DoneJob(n)) \in Roots
  BY <1>1, <1>3, JobFacts DEF DoneJob
<1>5. RootOf(DoneJob(n)) # RootOf(Current)
  BY <1>1, <1>3, CurrentJob, RootsDiffer DEF DoneJob
<1>6. disk'[RootOf(DoneJob(n))] = disk[RootOf(DoneJob(n))]
  BY <1>4, <1>5
<1> QED BY <1>1, <1>2, <1>6 DEF RootOf

\* A native step leaves the harness as it is.
LEMMA NativeKeeps ==
  ASSUME IInv, Grows, harness' = harness, process # Nowhere, Determined', RootsAhead', OnCourse'
  PROVE  IInv'
<1>1. DoneRight' /\ Selected'
  BY DoneKept, SelectedKept DEF IInv, Determined
<1>2. harness'.status = "FAIL" => Cause'
  BY CauseKept DEF IInv
<1> QED BY <1>1, <1>2 DEF IInv
-----------------------------------------------------------------------------
(* An update.                                                              *)

\* The step of a process at update u of member m that ends with the evaluations K.
UpdateIs(K, m, u, last) ==
  /\ printed' = printed \cup {[member |-> m, line |-> LineAt(K, m, u)]}
  /\ process'.campaign = CampaignAt(K, m, u, u \div CheckEvery, last)
  /\ Known(K, m, u \div CheckEvery)
  /\ last # NoCheck => last = ResultAt(K, m, u \div CheckEvery)
  /\ process'.out = [process.out EXCEPT !.updates = Append(@, LineAt(K, m, u))]
  /\ process'.left = process.left - 1 /\ process'.root = process.root /\ process'.code = process.code
  /\ process'.pc \in {"save", "exit", "update"}
  /\ process'.pc = "exit" => process.left = 1
  /\ process'.pc = "update" => process.left # 1
  /\ process'.pc = "save" => u % SaveEvery = 0 /\ last = ResultAt(K, m, u \div CheckEvery) /\ last.allowed
  /\ process'.pc # "save" /\ u % SaveEvery = 0 => ~ResultAt(K, m, u \div CheckEvery).allowed

LEMMA UpdatedFields ==
  ASSUME Shape, process # Nowhere, NEW after, NEW ran, Updated(after, ran),
         NEW line, line = UpdateLine(process.campaign, after, ran)
  PROVE  /\ DOMAIN process' = {"pc", "campaign", "left", "root", "out", "code"}
         /\ DOMAIN process'.out = {"updates", "checkpoints", "terminal"}
         /\ process'.campaign = after /\ process'.left = process.left - 1
         /\ process'.root = process.root /\ process'.code = process.code
         /\ process'.out = [process.out EXCEPT !.updates = Append(@, line)]
         /\ process'.pc = IF ran /\ SaveDue(after) THEN "save"
                          ELSE IF process.left = 1 THEN "exit" ELSE "update"
BY DEF Shape, Updated

LEMMA LineChecked ==
  ASSUME NEW J, NEW m, NEW v, v % CheckEvery = 0
  PROVE  LineAt(J, m, v) = LineOf(v, TraceAt(v - 1), TRUE, ResultAt(J, m, v \div CheckEvery))
BY Zenon DEF LineAt

LEMMA LineUnchecked ==
  ASSUME NEW J, NEW m, NEW v, v % CheckEvery # 0
  PROVE  LineAt(J, m, v) = LineOf(v, TraceAt(v - 1), FALSE, NoCheck)
BY Zenon DEF LineAt

LEMMA LineIs ==
  ASSUME NEW J, NEW K, NEW m, NEW u \in Nat, NEW n, NEW last, NEW before, NEW after, NEW k, NEW now,
         before = CampaignAt(J, m, u, n, last), after = CampaignAt(K, m, u + 1, k, now),
         NEW ran, NEW retention, retention = IF ran THEN now ELSE NoCheck
  PROVE  UpdateLine(before, after, ran) = LineOf(u + 1, TraceAt((u + 1) - 1), ran, retention)
<1>1. Trace(before) = TraceAt(u) /\ TraceAt((u + 1) - 1) = TraceAt(u)
  BY TraceIs
<1>2. /\ after.trainer.updates = u + 1 /\ after.hidden = u + 1 /\ after.stage = StageAt(u + 1)
      /\ after.last = now
  BY DEF CampaignAt, TrainerAt
<1>3. UpdateLine(before, after, ran) = LineOf(u + 1, TraceAt(u), ran, retention)
  BY <1>1, <1>2, Zenon DEF UpdateLine, LineOf
<1> QED BY <1>1, <1>3

LEMMA UpdateEffect ==
  ASSUME IInv, RunUpdate
  PROVE  /\ judged \subseteq judged' /\ Deterministic(judged')
         /\ DOMAIN process' = {"pc", "campaign", "left", "root", "out", "code"}
         /\ DOMAIN process'.out = {"updates", "checkpoints", "terminal"}
         /\ \E last : UpdateIs(judged', Member, Made + 1, last)
<1>t. PICK trained : trained = Trained(process.campaign)
  OBVIOUS
<1>0. /\ process # Nowhere /\ Shape /\ Deterministic(judged)
  BY DEF RunUpdate, Nowhere, IInv, Determined
<1>1. PICK m, u, n, now :
        /\ m = Member /\ u = Made /\ u \in Nat /\ n = u \div CheckEvery
        /\ now = process.campaign.last
        /\ process.campaign = CampaignAt(judged, m, u, n, now)
        /\ Known(judged, m, n)
        /\ now # NoCheck => now = ResultAt(judged, m, n)
  <2>1. OnPath
    BY DEF IInv, Determined
  <2> QED BY <1>0, <2>1 DEF OnPath, Checks
<1>2. trained = CampaignAt(judged, m, u + 1, n, now)
  BY <1>t, <1>1, TrainedIs
<1>3. trained.trainer.updates = u + 1 /\ process.campaign.trainer.member = m
  BY <1>1, <1>2 DEF CampaignAt, TrainerAt
<1>4. n \in Nat
  BY <1>1, Periods, DivDef
<1>5. CASE ~RetentionDue(trained)
  <2>1. (u + 1) % CheckEvery # 0 /\ (u + 1) \div CheckEvery = n
    BY <1>1, <1>3, <1>5, Successor, Periods DEF RetentionDue
  <2>2. Updated(trained, FALSE) /\ judged' = judged
    BY <1>t, <1>5 DEF RunUpdate
  <2>3. UpdateLine(process.campaign, trained, FALSE) = LineAt(judged, m, u + 1)
    <3>1. PICK ran, retention : ran = FALSE /\ retention = NoCheck
      OBVIOUS
    <3>2. retention = IF ran THEN now ELSE NoCheck
      BY <3>1
    <3>3. UpdateLine(process.campaign, trained, ran) = LineOf(u + 1, TraceAt((u + 1) - 1), ran, retention)
      BY <1>1, <1>2, <3>2, LineIs
    <3>4. UpdateLine(process.campaign, trained, FALSE) = LineOf(u + 1, TraceAt((u + 1) - 1), FALSE, NoCheck)
      BY <3>1, <3>3, Zenon
    <3>5. LineAt(judged, m, u + 1) = LineOf(u + 1, TraceAt((u + 1) - 1), FALSE, NoCheck)
      BY <2>1, LineUnchecked, Zenon
    <3> QED BY <3>4, <3>5, Zenon
  <2>4. printed' = printed \cup {[member |-> m, line |-> LineAt(judged, m, u + 1)]}
    BY <1>3, <2>2, <2>3 DEF Updated, Say
  <2>5. (u + 1) % SaveEvery # 0
    BY <1>1, <2>1, SaveIsCheck
  <2>6. /\ DOMAIN process' = {"pc", "campaign", "left", "root", "out", "code"}
        /\ DOMAIN process'.out = {"updates", "checkpoints", "terminal"}
        /\ process'.campaign = trained /\ process'.left = process.left - 1
        /\ process'.root = process.root /\ process'.code = process.code
        /\ process'.out = [process.out EXCEPT !.updates = Append(@, LineAt(judged, m, u + 1))]
        /\ process'.pc = IF process.left = 1 THEN "exit" ELSE "update"
    <3>1. PICK ran : ran = FALSE
      OBVIOUS
    <3>2. Updated(trained, ran) /\ UpdateLine(process.campaign, trained, ran) = LineAt(judged, m, u + 1)
      BY <2>2, <2>3, <3>1
    <3> QED BY <1>0, <3>1, <3>2, UpdatedFields
  <2>7. UpdateIs(judged, m, u + 1, now)
    BY <1>1, <1>2, <2>1, <2>4, <2>5, <2>6 DEF UpdateIs
  <2> QED BY <1>0, <1>1, <2>2, <2>6, <2>7
<1>6. CASE RetentionDue(trained)
  <2>1. (u + 1) % CheckEvery = 0 /\ (u + 1) \div CheckEvery = n + 1 /\ u + 1 = (n + 1) * CheckEvery
    BY <1>1, <1>3, <1>6, Successor, Periods DEF RetentionDue
  <2>2. PICK passed \in Passes(trained) :
          /\ Updated(Checked(trained, passed), TRUE)
          /\ judged' = judged \cup {[of |-> Evaluation(trained), passed |-> passed]}
    BY <1>t, <1>6 DEF RunUpdate
  <2>3. Evaluation(trained) = Subject(m, n + 1)
    BY <1>2, <2>1, EvaluationIs
  <2>4. PICK K : K = judged'
    OBVIOUS
  <2>5. Deterministic(K) /\ judged \subseteq K /\ [of |-> Subject(m, n + 1), passed |-> passed] \in K
    BY <1>0, <2>2, <2>3, <2>4, Repeats
  <2>6. PICK result : result = ResultAt(K, m, n + 1)
    OBVIOUS
  <2>7. /\ Known(K, m, n + 1)
        /\ Checked(trained, passed) = CampaignAt(K, m, u + 1, n + 1, result)
    BY <1>1, <1>2, <1>4, <2>1, <2>5, <2>6, CheckedIs
  <2>8. UpdateLine(process.campaign, Checked(trained, passed), TRUE) = LineAt(K, m, u + 1)
    <3>1. PICK ran : ran = TRUE
      OBVIOUS
    <3>2. result = IF ran THEN result ELSE NoCheck
      BY <3>1
    <3>3. UpdateLine(process.campaign, Checked(trained, passed), ran)
            = LineOf(u + 1, TraceAt((u + 1) - 1), ran, result)
      BY <1>1, <2>7, <3>2, LineIs
    <3>4. UpdateLine(process.campaign, Checked(trained, passed), TRUE)
            = LineOf(u + 1, TraceAt((u + 1) - 1), TRUE, result)
      BY <3>1, <3>3, Zenon
    <3>5. result = ResultAt(K, m, (u + 1) \div CheckEvery)
      BY <2>1, <2>6
    <3>6. LineAt(K, m, u + 1) = LineOf(u + 1, TraceAt((u + 1) - 1), TRUE, result)
      <4>1. LineAt(K, m, u + 1)
              = LineOf(u + 1, TraceAt((u + 1) - 1), TRUE, ResultAt(K, m, (u + 1) \div CheckEvery))
        BY <2>1, LineChecked, Zenon
      <4> QED BY <3>5, <4>1, Zenon
    <3> QED BY <3>4, <3>6, Zenon
  <2>9. printed' = printed \cup {[member |-> m, line |-> LineAt(K, m, u + 1)]}
    BY <1>3, <2>2, <2>8 DEF Updated, Say
  <2>10. SaveDue(Checked(trained, passed)) <=> (u + 1) % SaveEvery = 0 /\ result.allowed
    BY <2>1, <2>7 DEF SaveDue, RetentionDue, CampaignAt, TrainerAt
  <2>11. /\ DOMAIN process' = {"pc", "campaign", "left", "root", "out", "code"}
         /\ DOMAIN process'.out = {"updates", "checkpoints", "terminal"}
         /\ process'.campaign = CampaignAt(K, m, u + 1, n + 1, result) /\ process'.left = process.left - 1
         /\ process'.root = process.root /\ process'.code = process.code
         /\ process'.out = [process.out EXCEPT !.updates = Append(@, LineAt(K, m, u + 1))]
         /\ process'.pc = IF SaveDue(Checked(trained, passed)) THEN "save"
                          ELSE IF process.left = 1 THEN "exit" ELSE "update"
    BY <1>0, <2>2, <2>7, <2>8, UpdatedFields
  <2>12. UpdateIs(K, m, u + 1, result)
    BY <2>1, <2>6, <2>7, <2>9, <2>10, <2>11 DEF UpdateIs
  <2> QED BY <1>1, <2>4, <2>5, <2>11, <2>12
<1> QED BY <1>5, <1>6

LEMMA LineFields ==
  ASSUME NEW J, NEW m, NEW v
  PROVE  /\ LineAt(J, m, v).update = v
         /\ LineAt(J, m, v).ran <=> v % CheckEvery = 0
         /\ v % CheckEvery = 0 => LineAt(J, m, v).retention = ResultAt(J, m, v \div CheckEvery)
<1>1. ASSUME v % CheckEvery = 0
      PROVE  LineAt(J, m, v).update = v /\ LineAt(J, m, v).ran
             /\ LineAt(J, m, v).retention = ResultAt(J, m, v \div CheckEvery)
  <2>1. LineAt(J, m, v) = LineOf(v, TraceAt(v - 1), TRUE, ResultAt(J, m, v \div CheckEvery))
    BY <1>1, LineChecked
  <2> QED BY <2>1 DEF LineOf
<1>2. ASSUME v % CheckEvery # 0
      PROVE  LineAt(J, m, v).update = v /\ ~LineAt(J, m, v).ran
  <2>1. LineAt(J, m, v) = LineOf(v, TraceAt(v - 1), FALSE, NoCheck)
    BY <1>2, LineUnchecked
  <2> QED BY <2>1 DEF LineOf
<1> QED BY <1>1, <1>2

LEMMA LinesKept ==
  ASSUME NEW J, NEW K, J \subseteq K, Deterministic(K), NEW m, NEW u \in Nat,
         Known(J, m, u \div CheckEvery), NEW v \in 1 .. u
  PROVE  LineAt(K, m, v) = LineAt(J, m, v)
<1>1. PICK n \in Nat : n = u \div CheckEvery
  BY Periods, DivDef
<1>2. v \in Nat \ {0} /\ v <= u
  OBVIOUS
<1>3. v \div CheckEvery \in Nat /\ v \div CheckEvery <= n
  BY <1>1, <1>2, Periods, DivDef, DivMonotone
<1>4. v \div CheckEvery \in 0 .. n
  BY <1>3
<1>5. Known(J, m, v \div CheckEvery)
  BY <1>1, <1>4, KnownLess
<1> QED BY <1>2, <1>5, LineKept

LEMMA SavedKept ==
  ASSUME NEW J, NEW K, J \subseteq K, Deterministic(K), NEW m, NEW u \in Nat,
         Known(J, m, u \div CheckEvery), NEW v \in 1 .. u, v % SaveEvery = 0
  PROVE  SavedAt(K, m, v) = SavedAt(J, m, v)
<1>1. PICK n \in Nat : n = u \div CheckEvery
  BY Periods, DivDef
<1>2. v \in Nat \ {0} /\ v <= u
  OBVIOUS
<1>3. v \div CheckEvery \in Nat /\ v \div CheckEvery <= n
  BY <1>1, <1>2, Periods, DivDef, DivMonotone
<1>4. v \div CheckEvery \in 0 .. n
  BY <1>3
<1>5. Known(J, m, v \div CheckEvery)
  BY <1>1, <1>4, KnownLess
<1>6. v % CheckEvery = 0
  BY <1>2, SaveIsCheck
<1> QED BY <1>2, <1>5, <1>6, ContentKept DEF SavedAt

\* The checkpoints between the start of a job and an update.
LEMMA Between ==
  ASSUME NEW s \in Nat, s % SaveEvery = 0, NEW u \in Nat, u >= s
  PROVE  /\ (u - s) \div SaveEvery \in Nat
         /\ (u + 1) % SaveEvery = 0 => (u + 1 - s) \div SaveEvery = (u - s) \div SaveEvery + 1
         /\ (u + 1) % SaveEvery # 0 => (u + 1 - s) \div SaveEvery = (u - s) \div SaveEvery
         /\ u % SaveEvery = 0 => u = s + ((u - s) \div SaveEvery) * SaveEvery
<1>1. PICK n \in Nat : n = u - s /\ u = s + n
  OBVIOUS
<1>2. SaveEvery \in Nat \ {0} /\ n \div SaveEvery \in Nat
  BY Periods, DivDef
<1>3. /\ n + 1 \in Nat
      /\ (s + n) % SaveEvery = 0 <=> n % SaveEvery = 0
      /\ (s + (n + 1)) % SaveEvery = 0 <=> (n + 1) % SaveEvery = 0
  <2>1. n + 1 \in Nat
    OBVIOUS
  <2> QED BY <1>2, <2>1, Shifted
<1>4. /\ (n + 1) % SaveEvery = 0 => (n + 1) \div SaveEvery = n \div SaveEvery + 1
      /\ (n + 1) % SaveEvery # 0 => (n + 1) \div SaveEvery = n \div SaveEvery
  BY <1>2, Successor
<1>5. n % SaveEvery = 0 => n = (n \div SaveEvery) * SaveEvery
  BY <1>2, DivDef
<1>6. u + 1 = s + (n + 1) /\ u + 1 - s = n + 1
  BY <1>1
<1> QED BY <1>1, <1>2, <1>3, <1>4, <1>5, <1>6

\* Of a process and its campaign: what the invariant says of their fields.
LEMMA AtUpdate ==
  ASSUME IInv, RunUpdate
  PROVE  /\ Shape /\ process # Nowhere /\ process.pc = "update" /\ process.code = "none"
         /\ Made \in Nat /\ Known(judged, Member, Made \div CheckEvery)
         /\ process.left \in Nat \ {0} /\ Made + process.left <= Budget
         /\ harness' = harness /\ disk' = disk /\ faulted' = faulted
         /\ Deterministic(judged)
BY DEF IInv, Determined, Shape, OnPath, RunUpdate, Nowhere, Checks

LEMMA UpdateGrows ==
  ASSUME IInv, RunUpdate
  PROVE  /\ Grows /\ process' # Nowhere /\ Member' = Member /\ Made' = Made + 1
         /\ UpdateIs(judged', Member, Made + 1, process'.campaign.last)
<1>1. /\ judged \subseteq judged' /\ Deterministic(judged')
      /\ DOMAIN process' = {"pc", "campaign", "left", "root", "out", "code"}
  BY UpdateEffect
<1>2. PICK K, m, u, last : K = judged' /\ m = Member /\ u = Made + 1 /\ UpdateIs(K, m, u, last)
  BY UpdateEffect
<1>3. Grows
  BY <1>1, <1>2, AtUpdate DEF Grows, UpdateIs, Shape
<1>4. "left" \notin DOMAIN Nowhere
  BY DEF Nowhere
<1>5. process' # Nowhere
  BY <1>1, <1>4
<1>6. process'.campaign.trainer.member = m /\ process'.campaign.trainer.updates = u
      /\ process'.campaign.last = last
  BY <1>2 DEF UpdateIs, CampaignAt, TrainerAt
<1> QED BY <1>2, <1>3, <1>5, <1>6 DEF Member, Made

LEMMA UpdateTrains ==
  ASSUME IInv, RunUpdate, NEW job, job.start \in Nat, Trains(job)
  PROVE  Trains(job)'
<1>0. PICK u \in Nat : u = Made
  BY AtUpdate
<1>1. PICK K, m, last :
        /\ K = judged' /\ m = Member /\ m = job.member /\ u = Made
        /\ UpdateIs(K, m, u + 1, last) /\ Member' = m /\ Made' = u + 1
        /\ judged \subseteq K /\ Deterministic(K) /\ Known(judged, m, u \div CheckEvery)
  BY <1>0, AtUpdate, UpdateGrows DEF Trains, Grows
<1>2. PICK s \in Nat, n \in Nat : s = job.start /\ n = u - s /\ u = s + n /\ u + 1 = s + (n + 1)
                                  /\ u + 1 - s = n + 1
  <2>1. Made >= job.start
    BY DEF Trains
  <2>2. u - job.start \in Nat /\ u >= job.start
    BY <1>1, <2>1
  <2> QED BY <2>2
<1>3. \A k \in 1 .. n : LineAt(K, m, s + k) = LineAt(judged, m, s + k)
  <2> TAKE k \in 1 .. n
  <2>1. s + k \in 1 .. u
    BY <1>2
  <2> QED BY <1>1, <2>1, LinesKept
<1>4. process'.out.updates = [k \in 1 .. n + 1 |-> LineAt(K, m, s + k)]
  <2>1. process.out.updates = [k \in 1 .. n |-> LineAt(judged, m, s + k)]
    BY <1>1, <1>2 DEF Trains
  <2>2. process.out.updates = [k \in 1 .. n |-> LineAt(K, m, s + k)]
    BY <1>3, <2>1
  <2>3. process'.out.updates = Append(process.out.updates, LineAt(K, m, s + (n + 1)))
    BY <1>1, <1>2, AtUpdate DEF UpdateIs, Shape
  <2> QED BY <2>2, <2>3
<1>5. \A k \in 1 .. n + 1 : [member |-> m, line |-> LineAt(K, m, s + k)] \in printed'
  <2> TAKE k \in 1 .. n + 1
  <2>1. printed' = printed \cup {[member |-> m, line |-> LineAt(K, m, s + (n + 1))]}
    BY <1>1, <1>2 DEF UpdateIs
  <2>2. CASE k \in 1 .. n
    <3>1. [member |-> m, line |-> LineAt(judged, m, s + k)] \in printed
      BY <1>1, <1>2, <2>2 DEF Trains
    <3> QED BY <1>3, <2>1, <2>2, <3>1
  <2>3. CASE k = n + 1
    BY <2>1, <2>3
  <2> QED BY <2>2, <2>3
<1>6. /\ process'.left = process.left - 1 /\ process'.root = process.root /\ process'.code = "none"
      /\ process'.pc \in {"save", "exit", "update"}
      /\ process'.pc = "exit" => process.left = 1
      /\ process'.pc = "update" => process.left # 1
      /\ process'.out.terminal = process.out.terminal
  BY <1>1, AtUpdate DEF UpdateIs, Shape
<1>7. process.left + u = s + job.count /\ process.left \in Nat \ {0} /\ process.root = RootOf(job)
      /\ process.out.terminal = <<>>
  BY <1>1, <1>2, AtUpdate DEF Trains
<1>8. PICK left \in Nat \ {0}, made \in Nat : left = process.left /\ made = Made' /\ made = u + 1
  BY <1>1, <1>7
<1>9. made >= s /\ made - s = n + 1 /\ left - 1 \in Nat /\ (left - 1) + made = s + job.count
  <2>1. left + u = s + job.count
    BY <1>7, <1>8
  <2> QED BY <1>2, <1>8, <2>1
<1>10. /\ process'.out.updates = [k \in 1 .. made - s |-> LineAt(judged', m, s + k)]
       /\ \A k \in 1 .. made - s : [member |-> m, line |-> LineAt(judged', m, s + k)] \in printed'
  <2>1. judged' = K
    BY <1>1
  <2> QED BY <1>4, <1>5, <1>9, <2>1, Zenon
<1>11. (process'.pc = "update" => left - 1 > 0) /\ (process'.pc = "exit" => left - 1 = 0)
  BY <1>6, <1>8
<1>12. /\ process'.root = RootOf(job) /\ Member' = m /\ m = job.member /\ s = job.start
       /\ process'.left = left - 1 /\ Made' = made
  BY <1>1, <1>2, <1>6, <1>7, <1>8
<1> QED BY <1>6, <1>7, <1>9, <1>10, <1>11, <1>12 DEF Trains, RootOf

LEMMA UpdateSaves ==
  ASSUME IInv, RunUpdate, NEW job, job.start \in Nat, job.start % SaveEvery = 0, RootOf(job) \in Roots,
         Trains(job), Saves(job)
  PROVE  Saves(job)'
<1>0. PICK u \in Nat : u = Made
  BY AtUpdate
<1>1. PICK K, m, last :
        /\ K = judged' /\ m = Member /\ m = job.member /\ u = Made /\ u >= job.start
        /\ UpdateIs(K, m, u + 1, last) /\ Member' = m /\ Made' = u + 1
        /\ judged \subseteq K /\ Deterministic(K) /\ Known(judged, m, u \div CheckEvery)
  BY <1>0, AtUpdate, UpdateGrows DEF Trains, Grows
<1>2. /\ process'.out.checkpoints = process.out.checkpoints /\ process'.code = process.code
      /\ process'.pc \in {"save", "exit", "update"} /\ process.pc = "update"
      /\ disk' = disk /\ printed \subseteq printed'
  BY <1>1, AtUpdate DEF UpdateIs, Shape
<1>3. ASSUME NEW k \in 1 .. Len(process.out.checkpoints)
      PROVE  LET line == process.out.checkpoints[k] IN
             /\ line.update \in 1 .. u + 1 /\ line.update % SaveEvery = 0
             /\ line = SavedAt(K, m, line.update) /\ line.id \in disk[RootOf(job)]
  <2>1. PICK line : line = process.out.checkpoints[k]
    OBVIOUS
  <2>2. /\ line.update \in 1 .. u /\ line.update % SaveEvery = 0
        /\ line = SavedAt(judged, m, line.update) /\ line.id \in disk[RootOf(job)]
    BY <1>1, <2>1 DEF Saves
  <2>3. SavedAt(K, m, line.update) = SavedAt(judged, m, line.update)
    BY <1>1, <2>2, SavedKept
  <2> QED BY <2>1, <2>2, <2>3
<1>4. \A c \in disk[RootOf(job)] : c.runtime.updates <= Made
  BY DEF Saves
<1>5. \A c \in disk[RootOf(job)] : c.runtime.updates < u + 1
  <2> TAKE c \in disk[RootOf(job)]
  <2>1. c.runtime.updates \in Nat
    BY DEF IInv, Determined, PublishedAs
  <2> QED BY <1>1, <1>4, <2>1
<1>6. ASSUME Smooth'
      PROVE  /\ Smooth /\ process.code # "error"
             /\ Announced(job)' = Announced(job)
  <2>1. Smooth
    BY <1>2, <1>6 DEF Smooth
  <2>2. process'.pc # "save" => (u + 1) % SaveEvery # 0
    <3>1. SUFFICES ASSUME process'.pc # "save", (u + 1) % SaveEvery = 0 PROVE FALSE
      OBVIOUS
    <3>2. (u + 1) % CheckEvery = 0
      BY <3>1, SaveIsCheck
    <3>3. [member |-> m, line |-> LineAt(K, m, u + 1)] \in printed'
      BY <1>1 DEF UpdateIs
    <3>4. LineAt(K, m, u + 1).ran /\ LineAt(K, m, u + 1).retention = ResultAt(K, m, (u + 1) \div CheckEvery)
      BY <3>2, LineFields
    <3>5. ~ResultAt(K, m, (u + 1) \div CheckEvery).allowed
      BY <1>1, <3>1 DEF UpdateIs
    <3>6. ResultAt(K, m, (u + 1) \div CheckEvery).catastrophic
      BY <3>5 DEF ResultAt
    <3> QED BY <1>6, <3>3, <3>4, <3>6 DEF Smooth
  <2>3. process'.pc = "save" => (u + 1) % SaveEvery = 0
    BY <1>1 DEF UpdateIs
  <2>4. /\ (u - job.start) \div SaveEvery \in Nat
        /\ (u + 1) % SaveEvery = 0
             => (u + 1 - job.start) \div SaveEvery = (u - job.start) \div SaveEvery + 1
        /\ (u + 1) % SaveEvery # 0 => (u + 1 - job.start) \div SaveEvery = (u - job.start) \div SaveEvery
    BY <1>1, Between
  <2>5. Announced(job) = (u - job.start) \div SaveEvery
    BY <1>1, <1>2, <2>4 DEF Announced
  <2>6. Announced(job)' = ((u + 1) - job.start) \div SaveEvery - (IF process'.pc = "save" THEN 1 ELSE 0)
    BY <1>1, <1>2 DEF Announced
  <2>7. process.code # "error"
    BY AtUpdate
  <2> QED BY <2>1, <2>2, <2>3, <2>4, <2>5, <2>6, <2>7
<1>7. ASSUME Smooth'
      PROVE  /\ Len(process.out.checkpoints) = Announced(job)'
             /\ \A k \in 1 .. Len(process.out.checkpoints) :
                  process.out.checkpoints[k].update = job.start + k * SaveEvery
  BY <1>6, <1>7 DEF Saves
<1>8. IsSequence(process.out.checkpoints)
  BY DEF Saves
<1>9. PICK lines : lines = process.out.checkpoints
  OBVIOUS
<1>10. /\ IsSequence(lines)
       /\ \A k \in 1 .. Len(lines) :
            /\ lines[k].update \in 1 .. Made' /\ lines[k].update % SaveEvery = 0
            /\ lines[k] = SavedAt(judged', job.member, lines[k].update)
            /\ lines[k].id \in disk'[RootOf(job)]
  BY <1>1, <1>2, <1>3, <1>8, <1>9
<1>11. \A c \in disk'[RootOf(job)] : c.runtime.updates <= Made' /\ c.runtime.updates < Made'
  <2> TAKE c \in disk'[RootOf(job)]
  <2>1. c.runtime.updates \in Nat /\ c.runtime.updates < u + 1 /\ Made' = u + 1
    BY <1>1, <1>2, <1>5 DEF IInv, Determined, PublishedAs
  <2> QED BY <2>1
<1>12. Smooth' => /\ Len(lines) = Announced(job)'
                  /\ \A k \in 1 .. Len(lines) : lines[k].update = job.start + k * SaveEvery
  BY <1>7, <1>9
<1>13. process'.out.checkpoints = lines /\ process'.pc # "announce"
  BY <1>2, <1>9
<1> QED BY <1>10, <1>11, <1>12, <1>13 DEF Saves, RootOf

LEMMA UpdateDetermined ==
  ASSUME IInv, RunUpdate
  PROVE  Determined'
<1>0. PICK u \in Nat : u = Made
  BY AtUpdate
<1>1. PICK K, m, last :
        /\ K = judged' /\ m = Member /\ UpdateIs(K, m, u + 1, last)
        /\ last = process'.campaign.last /\ Member' = m /\ Made' = u + 1
        /\ judged \subseteq K /\ Deterministic(K) /\ process' # Nowhere
  BY <1>0, AtUpdate, UpdateGrows DEF Grows
<1>2. /\ DOMAIN process' = {"pc", "campaign", "left", "root", "out", "code"}
      /\ DOMAIN process'.out = {"updates", "checkpoints", "terminal"}
  BY UpdateEffect
<1>3. /\ process'.pc \in {"save", "exit", "update"} /\ process'.code = "none"
      /\ process'.left = process.left - 1
      /\ process'.pc = "update" => process.left # 1
  BY <1>1, AtUpdate DEF UpdateIs
<1>4. Shape'
  BY <1>2, <1>3, AtUpdate DEF Shape
<1>5. OnPath'
  <2>1. /\ process'.campaign = CampaignAt(K, m, u + 1, (u + 1) \div CheckEvery, last)
        /\ Known(K, m, (u + 1) \div CheckEvery)
        /\ last # NoCheck => last = ResultAt(K, m, (u + 1) \div CheckEvery)
        /\ process'.pc = "save" => /\ (u + 1) % SaveEvery = 0 /\ last.allowed
                                   /\ last = ResultAt(K, m, (u + 1) \div CheckEvery)
    BY <1>1 DEF UpdateIs
  <2>2. process'.pc = "save" => last # NoCheck
    BY <2>1, NoCheckIsNoResult
  <2>3. PICK left \in Nat : left + 1 = process.left /\ left = process'.left
    BY <1>3, AtUpdate
  <2>4. u + 1 > 0 /\ u + 1 \in Nat /\ (u + 1) + left <= Budget /\ (process'.pc = "update" => left > 0)
    BY <1>0, <1>3, <2>3, AtUpdate, Periods
  <2>5. PICK v \in Nat : v = u + 1
    OBVIOUS
  <2> QED BY <1>1, <1>3, <2>1, <2>2, <2>3, <2>4, <2>5 DEF OnPath, Checks
<1>6. ASSUME NEW a \in printed' PROVE PrintedAs(K, a)
  <2>1. printed' = printed \cup {[member |-> m, line |-> LineAt(K, m, u + 1)]}
    BY <1>1 DEF UpdateIs
  <2>2. CASE a \in printed
    <3>1. PrintedAs(judged, a)
      BY <2>2 DEF IInv, Determined
    <3> QED BY <1>1, <3>1, PrintedKept
  <2>3. CASE a = [member |-> m, line |-> LineAt(K, m, u + 1)]
    <3>1. a.member = m /\ a.line = LineAt(K, m, u + 1) /\ a.line.update = u + 1
      BY <2>3, LineFields
    <3>2. u + 1 \in 1 .. Budget
      BY <1>0, AtUpdate, Periods
    <3>3. Known(K, m, (u + 1) \div CheckEvery)
      BY <1>1 DEF UpdateIs
    <3> QED BY <2>3, <3>1, <3>2, <3>3 DEF PrintedAs
  <2> QED BY <2>1, <2>2, <2>3
<1>7. ASSUME NEW r \in Roots, NEW c \in disk'[r] PROVE PublishedAs(K, c)
  <2>1. PublishedAs(judged, c)
    BY AtUpdate DEF IInv, Determined
  <2> QED BY <1>1, <2>1, PublishedKept
<1> QED BY <1>1, <1>4, <1>5, <1>6, <1>7 DEF Determined

\* A harness that runs has a job, which its process does.
LEMMA OnJob ==
  ASSUME IInv, Working, process # Nowhere
  PROVE  /\ Len(harness.done) < NumJobs(harness.kind)
         /\ Current.start \in Nat /\ Current.start % SaveEvery = 0 /\ Current.member \in Members
         /\ Current.count \in Nat \ {0} /\ RootOf(Current) \in Roots
         /\ Trains(Current) /\ Saves(Current)
BY CurrentJob DEF IInv, Determined, OnCourse

LEMMA SameJob ==
  ASSUME harness' = harness, NEW job, job = Current,
         Working /\ process' # Nowhere => Len(harness.done) < NumJobs(harness.kind),
         Working => Trains(job)' /\ Saves(job)'
  PROVE  OnCourse'
<1>1. Current' = Current /\ Working' = Working
  BY DEF Current, Working
<1>2. Working => Trains(Current)' /\ Saves(Current)'
  <2> SUFFICES ASSUME Working PROVE Trains(Current)' /\ Saves(Current)'
    OBVIOUS
  <2>1. Trains(job)' /\ Saves(job)' /\ job = Current'
    BY <1>1
  <2>2. Trains(Current)'
    BY <2>1 DEF Trains
  <2>3. Saves(Current)'
    BY <2>1 DEF Saves, Announced
  <2> QED BY <2>2, <2>3
<1> QED BY <1>1, <1>2 DEF OnCourse

LEMMA UpdateStep ==
  ASSUME IInv, RunUpdate
  PROVE  IInv'
<1>1. /\ Shape /\ DoneRight /\ RootsAhead /\ process # Nowhere /\ process' # Nowhere
      /\ harness' = harness /\ disk' = disk /\ Grows
  BY AtUpdate, UpdateGrows DEF IInv
<1>2. PICK job : job = Current
  OBVIOUS
<1>3. Working => /\ Len(harness.done) < NumJobs(harness.kind)
                 /\ job.start \in Nat /\ job.start % SaveEvery = 0 /\ RootOf(job) \in Roots
                 /\ Trains(job) /\ Saves(job)
  <2> SUFFICES ASSUME Working PROVE <1>3!2
    OBVIOUS
  <2>1. Trains(job)
    BY <1>1, <1>2, OnJob DEF Trains
  <2>2. Saves(job)
    BY <1>1, <1>2, OnJob DEF Saves, Announced
  <2> QED BY <1>1, <1>2, <2>1, <2>2, OnJob
<1>4. Working => Trains(job)' /\ Saves(job)'
  BY <1>3, UpdateTrains, UpdateSaves
<1>5. OnCourse'
  BY <1>1, <1>2, <1>3, <1>4, SameJob
<1>6. RootsAhead'
  BY <1>1, <1>3, AheadKept
<1> QED BY <1>1, <1>5, <1>6, UpdateDetermined, NativeKeeps

-----------------------------------------------------------------------------
(* The other steps of a process.                                           *)

\* A step that leaves the campaign as it is.
SameCampaign ==
  /\ process # Nowhere /\ harness' = harness /\ judged' = judged /\ printed' = printed
  /\ faulted => faulted'
  /\ DOMAIN process' = {"pc", "campaign", "left", "root", "out", "code"}
  /\ DOMAIN process'.out = {"updates", "checkpoints", "terminal"}
  /\ process'.campaign = process.campaign /\ process'.left = process.left /\ process'.root = process.root
  /\ process'.out.updates = process.out.updates

LEMMA ProcessStays ==
  ASSUME SameCampaign
  PROVE  process' # Nowhere /\ Member' = Member /\ Made' = Made
<1>1. "left" \notin DOMAIN Nowhere /\ "left" \in DOMAIN process'
  BY DEF Nowhere, SameCampaign
<1> QED BY <1>1 DEF SameCampaign, Member, Made

LEMMA StillDetermined ==
  ASSUME IInv, SameCampaign,
         process'.pc \in {"update", "announce", "exit", "exited"},
         process'.pc = "exited" => process'.code \in {"pass", "error", "exists"},
         process'.pc # "exited" => process.pc \in {"save", "announce"} /\ process'.code = "none",
         process'.pc = "update" => process.left > 0,
         DOMAIN disk' = Roots,
         \A r \in Roots : \A c \in disk'[r] : c \in disk[r] \/ PublishedAs(judged, c)
  PROVE  Determined'
<1>1. process # Nowhere /\ process' # Nowhere /\ Member' = Member /\ Made' = Made
  BY ProcessStays DEF SameCampaign
<1>2. Shape'
  BY DEF SameCampaign, Shape, IInv, Determined
<1>3. OnPath'
  BY <1>1 DEF SameCampaign, OnPath, IInv, Determined, Checks
<1>4. /\ \A a \in printed' : PrintedAs(judged', a)
      /\ \A r \in Roots : \A c \in disk'[r] : PublishedAs(judged', c)
  BY DEF SameCampaign, IInv, Determined
<1> QED BY <1>2, <1>3, <1>4 DEF Determined, IInv, SameCampaign

LEMMA StillTrains ==
  ASSUME SameCampaign, NEW job, Trains(job),
         process'.pc # "refused", process'.code # "exists", process'.pc = "update" => process.left > 0,
         process'.pc = "exit" \/ process'.code = "pass" => process.left = 0,
         process'.code = "error" => faulted',
         process'.pc # "exited" => process'.out.terminal = <<>>,
         process'.code = "pass" =>
           process'.out.terminal = <<[member |-> job.member, updates |-> Made, transitions |-> Made]>>
  PROVE  Trains(job)'
<1>1. Member' = Member /\ Made' = Made
  BY ProcessStays
<1> QED BY <1>1 DEF SameCampaign, Trains, RootOf

LEMMA SameGrows ==
  ASSUME IInv, SameCampaign, DOMAIN disk' = Roots, \A r \in Roots : disk[r] \subseteq disk'[r]
  PROVE  Grows
BY DEF SameCampaign, Grows, IInv, Determined

\* What a step must show of the job of a running harness.
LEMMA NativeStep ==
  ASSUME IInv, SameCampaign, Determined', DOMAIN disk' = Roots,
         \A r \in Roots : disk[r] \subseteq disk'[r],
         \A r \in Roots : (Working /\ r = RootOf(Current)) \/ disk'[r] = disk[r],
         NEW job, job = Current, Working => Trains(job)' /\ Saves(job)'
  PROVE  IInv'
<1>1. /\ Shape /\ DoneRight /\ RootsAhead /\ process # Nowhere /\ process' # Nowhere /\ harness' = harness
  BY ProcessStays DEF IInv, Determined, SameCampaign
<1>2. Working => Len(harness.done) < NumJobs(harness.kind)
  BY <1>1, OnJob
<1>3. OnCourse'
  BY <1>1, <1>2, SameJob
<1>4. RootsAhead'
  BY <1>1, <1>2, AheadKept
<1> QED BY <1>1, <1>3, <1>4, SameGrows, NativeKeeps

LEMMA JobOf ==
  ASSUME IInv, process # Nowhere, NEW job, job = Current
  PROVE  Working => /\ Trains(job) /\ Saves(job) /\ RootOf(job) \in Roots
                    /\ job.start \in Nat /\ job.start % SaveEvery = 0
<1> SUFFICES ASSUME Working
             PROVE  /\ Trains(job) /\ Saves(job) /\ RootOf(job) \in Roots
                    /\ job.start \in Nat /\ job.start % SaveEvery = 0
  OBVIOUS
<1>1. Trains(job)
  BY OnJob DEF Trains
<1>2. Saves(job)
  BY OnJob DEF Saves, Announced
<1> QED BY <1>1, <1>2, OnJob

LEMMA FailsStep ==
  ASSUME IInv, Fails
  PROVE  IInv'
<1>1. /\ process # Nowhere /\ process'.pc = "exited" /\ process'.code = "error" /\ faulted' = TRUE
      /\ process'.out = process.out /\ disk' = disk /\ DOMAIN disk = Roots /\ printed' = printed
      /\ judged' = judged
  BY DEF Fails, Exited, Running, Nowhere, IInv, Determined, Shape
<1>2. SameCampaign
  BY <1>1 DEF SameCampaign, Fails, Exited, IInv, Determined, Shape
<1>3. Determined'
  BY <1>1, <1>2, StillDetermined
<1>4. PICK job : job = Current
  OBVIOUS
<1>5. Working => Trains(job)'
  BY <1>1, <1>2, <1>4, JobOf, StillTrains
<1>6. Working => Saves(job)'
  <2>1. Made' = Made
    BY <1>2, ProcessStays
  <2> QED BY <1>1, <1>4, <2>1, JobOf DEF Saves, RootOf
<1> QED BY <1>1, <1>2, <1>3, <1>4, <1>5, <1>6, NativeStep

LEMMA RefuseStep ==
  ASSUME IInv, Refuse
  PROVE  IInv'
<1>1. /\ process # Nowhere /\ process.pc = "refused" /\ process'.pc = "exited" /\ process'.code = "error"
      /\ process'.out = process.out /\ disk' = disk /\ DOMAIN disk = Roots
  BY DEF Refuse, Exited, Nowhere, IInv, Determined, Shape
<1>2. SameCampaign
  BY <1>1 DEF SameCampaign, Refuse, Exited, IInv, Determined, Shape
<1>3. Determined'
  BY <1>1, <1>2, StillDetermined
<1>4. PICK job : job = Current
  OBVIOUS
<1>5. ~Working
  BY <1>1, OnJob DEF Trains
<1> QED BY <1>1, <1>2, <1>3, <1>4, <1>5, NativeStep

LEMMA ExitStep ==
  ASSUME IInv, Exit
  PROVE  IInv'
<1>0. /\ process # Nowhere /\ process.pc = "exit" /\ process.code = "none" /\ DOMAIN disk = Roots
      /\ disk' = disk /\ printed' = printed /\ judged' = judged
      /\ DOMAIN process = {"pc", "campaign", "left", "root", "out", "code"}
      /\ DOMAIN process.out = {"updates", "checkpoints", "terminal"}
  BY DEF Exit, Nowhere, IInv, Determined, Shape
<1>e. PICK end : end = [member |-> Member, updates |-> Made, transitions |-> Made]
  OBVIOUS
<1>p. process' = [process EXCEPT !.pc = "exited", !.code = "pass", !.out.terminal = Append(@, end)]
  BY <1>e DEF Exit, Member, Made
<1>1. /\ process # Nowhere /\ process.pc = "exit" /\ process'.pc = "exited" /\ process'.code = "pass"
      /\ process'.out.checkpoints = process.out.checkpoints /\ disk' = disk /\ DOMAIN disk = Roots
      /\ process'.out.terminal = Append(process.out.terminal, end)
      /\ process.code = "none" /\ printed' = printed /\ judged' = judged
  BY <1>0, <1>p
<1>2. SameCampaign
  BY <1>0, <1>p DEF SameCampaign, Exit
<1>3. Determined'
  BY <1>1, <1>2, StillDetermined
<1>4. PICK job : job = Current
  OBVIOUS
<1>5. Working => Trains(job)'
  <2>1. Working => /\ process.left = 0
                   /\ process'.out.terminal
                        = <<[member |-> job.member, updates |-> Made, transitions |-> Made]>>
    <3> SUFFICES ASSUME Working PROVE <2>1!2
      OBVIOUS
    <3>1. process.left = 0 /\ process.out.terminal = <<>> /\ Member = job.member
      BY <1>1, <1>4, JobOf DEF Trains
    <3>2. Append(<<>>, end) = <<end>>
      OBVIOUS
    <3> QED BY <1>1, <1>e, <3>1, <3>2
  <2> QED BY <1>1, <1>2, <1>4, <2>1, JobOf, StillTrains
<1>6. Working => Saves(job)'
  <2>1. Made' = Made
    BY <1>2, ProcessStays
  <2>2. Announced(job)' = Announced(job)
    BY <1>1, <2>1 DEF Announced
  <2>3. PICK count : count = Announced(job)
    OBVIOUS
  <2> QED BY <1>1, <1>4, <2>1, <2>2, JobOf DEF Saves, RootOf, Smooth
<1> QED BY <1>1, <1>2, <1>3, <1>4, <1>5, <1>6, NativeStep

\* What a process saves is the checkpoint of its member and updates.
LEMMA SavesContent ==
  ASSUME IInv, process # Nowhere, process.pc \in {"save", "announce"}
  PROVE  /\ Made \in Nat \ {0} /\ Made % SaveEvery = 0
         /\ Content(process.campaign) = ContentAt(judged, Member, Made)
         /\ PublishedAs(judged, Content(process.campaign))
         /\ Content(process.campaign).runtime.updates = Made
<1>1. PICK m, last : m = Member /\ last = process.campaign.last
  OBVIOUS
<1>2. PICK u \in Nat \ {0} : u = Made
  BY Periods DEF IInv, Determined, OnPath
<1>3. /\ u % SaveEvery = 0
      /\ process.campaign = CampaignAt(judged, m, u, u \div CheckEvery, last)
      /\ Known(judged, m, u \div CheckEvery)
      /\ last = ResultAt(judged, m, u \div CheckEvery) /\ last.allowed
  BY <1>1, <1>2 DEF IInv, Determined, OnPath, Checks
<1>4. Content(process.campaign) = ContentAt(judged, m, u)
  BY <1>3 DEF ContentAt
<1>5. PICK c : c = Content(process.campaign)
  OBVIOUS
<1>6. c = ContentAt(judged, m, u) /\ c.runtime.member = m /\ c.runtime.updates = u
  BY <1>4, <1>5, ContentIs
<1>7. PublishedAs(judged, c)
  BY <1>3, <1>6 DEF PublishedAs
<1> QED BY <1>1, <1>2, <1>3, <1>4, <1>5, <1>6, <1>7

LEMMA SaveStep ==
  ASSUME IInv, Save
  PROVE  IInv'
<1>1. /\ process # Nowhere /\ process.pc = "save" /\ process.code = "none" /\ DOMAIN disk = Roots
      /\ printed' = printed /\ judged' = judged /\ faulted' = faulted /\ harness' = harness
      /\ DOMAIN process = {"pc", "campaign", "left", "root", "out", "code"}
      /\ DOMAIN process.out = {"updates", "checkpoints", "terminal"}
  BY DEF Save, Nowhere, IInv, Determined, Shape
<1>2. PICK content : content = Content(process.campaign)
  OBVIOUS
<1>3. /\ Made \in Nat \ {0} /\ Made % SaveEvery = 0
      /\ PublishedAs(judged, content) /\ content.runtime.updates = Made
  BY <1>1, <1>2, SavesContent
<1>4. PICK job : job = Current
  OBVIOUS
<1>5. CASE content \in disk[process.root]
  <2>1. process' = [process EXCEPT !.pc = "exited", !.code = "exists"] /\ disk' = disk
    BY <1>2, <1>5 DEF Save, Exited
  <2>2. SameCampaign /\ process'.pc = "exited" /\ process'.code = "exists"
    BY <1>1, <2>1 DEF SameCampaign
  <2>3. Determined'
    BY <1>1, <2>1, <2>2, StillDetermined
  <2>4. ~Working
    <3>1. SUFFICES ASSUME Working PROVE FALSE
      OBVIOUS
    <3>2. process.root = RootOf(job) /\ content.runtime.updates < Made
      BY <1>1, <1>4, <1>5, <3>1, JobOf DEF Trains, Saves
    <3> QED BY <1>3, <3>2
  <2> QED BY <1>1, <1>4, <2>1, <2>2, <2>3, <2>4, NativeStep
<1>6. CASE content \notin disk[process.root]
  <2>1. /\ process' = [process EXCEPT !.pc = "announce"]
        /\ disk' = [disk EXCEPT ![process.root] = @ \cup {content}]
    BY <1>2, <1>6 DEF Save
  <2>2. /\ SameCampaign /\ process'.pc = "announce" /\ process'.code = "none"
        /\ process'.out = process.out
    BY <1>1, <2>1 DEF SameCampaign
  <2>3. /\ DOMAIN disk' = Roots
        /\ \A r \in Roots : disk'[r] = IF r = process.root THEN disk[r] \cup {content} ELSE disk[r]
    BY <1>1, <2>1
  <2>4. Determined'
    <3>1. \A r \in Roots : \A c \in disk'[r] : c \in disk[r] \/ PublishedAs(judged, c)
      BY <1>3, <2>3
    <3> QED BY <1>1, <2>2, <2>3, <3>1, StillDetermined
  <2>5. Working => process.root = RootOf(job) /\ RootOf(job) \in Roots
    BY <1>1, <1>4, JobOf DEF Trains
  <2>6. Working => Trains(job)'
    <3> SUFFICES ASSUME Working PROVE Trains(job)'
      OBVIOUS
    <3>1. Trains(job) /\ process'.out.terminal = <<>>
      <4>1. Trains(job)
        BY <1>1, <1>4, JobOf
      <4>2. process.out.terminal = <<>>
        BY <1>1, <4>1 DEF Trains
      <4> QED BY <2>2, <4>1, <4>2
    <3> QED BY <1>1, <2>2, <3>1, StillTrains
  <2>7. Working => Saves(job)'
    <3>1. SUFFICES ASSUME Working PROVE Saves(job)'
      OBVIOUS
    <3>2. Made' = Made /\ Saves(job)
      BY <1>1, <1>4, <2>2, <3>1, JobOf, ProcessStays
    <3>3. disk'[RootOf(job)] = disk[RootOf(job)] \cup {content}
      BY <2>3, <2>5, <3>1
    <3>4. Content(process'.campaign) = content
      BY <1>2, <2>2 DEF SameCampaign
    <3>5. Announced(job)' = Announced(job)
      BY <1>1, <2>2, <3>2 DEF Announced
    <3>6. \A c \in disk'[RootOf(job)] : c.runtime.updates <= Made
      BY <1>3, <3>2, <3>3 DEF Saves
    <3>7. Smooth' <=> Smooth
      BY <1>1 DEF Smooth
    <3>8. PICK lines, s, count : lines = process.out.checkpoints /\ s = job.start /\ count = Announced(job)
      OBVIOUS
    <3>9. /\ IsSequence(lines)
          /\ \A k \in 1 .. Len(lines) :
               /\ lines[k].update \in 1 .. Made /\ lines[k].update % SaveEvery = 0
               /\ lines[k] = SavedAt(judged, job.member, lines[k].update)
               /\ lines[k].id \in disk'[RootOf(job)]
          /\ Smooth => /\ Len(lines) = count
                       /\ \A k \in 1 .. Len(lines) : lines[k].update = s + k * SaveEvery
      BY <1>1, <3>2, <3>3, <3>8 DEF Saves
    <3> QED BY <1>1, <2>2, <3>2, <3>3, <3>4, <3>5, <3>6, <3>7, <3>8, <3>9 DEF Saves, RootOf
  <2>8. /\ \A r \in Roots : disk[r] \subseteq disk'[r]
        /\ \A r \in Roots : r = process.root \/ disk'[r] = disk[r]
    BY <2>3
  <2>9. CASE Working
    <3>1. \A r \in Roots : (Working /\ r = RootOf(Current)) \/ disk'[r] = disk[r]
      BY <1>4, <2>5, <2>8, <2>9
    <3> QED BY <1>4, <2>2, <2>3, <2>4, <2>6, <2>7, <2>8, <3>1, NativeStep
  <2>10. CASE ~Working
    <3>1. Grows
      BY <2>2, <2>3, <2>8, SameGrows
    <3>2. process' # Nowhere /\ Working' = Working
      BY <1>1, <2>2, ProcessStays DEF Working
    <3>3. OnCourse' /\ RootsAhead'
      BY <2>10, <3>2 DEF OnCourse, RootsAhead
    <3> QED BY <1>1, <2>4, <3>1, <3>3, NativeKeeps
  <2> QED BY <2>9, <2>10
<1> QED BY <1>5, <1>6


LEMMA AnnounceStep ==
  ASSUME IInv, Announce
  PROVE  IInv'
<1>1. /\ process # Nowhere /\ process.pc = "announce" /\ process.code = "none" /\ DOMAIN disk = Roots
      /\ printed' = printed /\ judged' = judged /\ faulted' = faulted /\ harness' = harness
      /\ disk' = disk
      /\ DOMAIN process = {"pc", "campaign", "left", "root", "out", "code"}
      /\ DOMAIN process.out = {"updates", "checkpoints", "terminal"}
  BY DEF Announce, Nowhere, IInv, Determined, Shape
<1>2. PICK line : line = [update |-> Made, id |-> Content(process.campaign)]
  OBVIOUS
<1>3. process' = [process EXCEPT !.pc = IF process.left = 0 THEN "exit" ELSE "update",
                                 !.out.checkpoints = Append(@, line)]
  BY <1>2 DEF Announce, Made
<1>4. /\ SameCampaign /\ process'.pc = (IF process.left = 0 THEN "exit" ELSE "update")
      /\ process'.code = "none" /\ process'.out.terminal = process.out.terminal
      /\ process'.out.checkpoints = Append(process.out.checkpoints, line)
  BY <1>1, <1>3 DEF SameCampaign
<1>5. process.left \in Nat
  BY <1>1 DEF IInv, Determined, OnPath
<1>6. Determined'
  BY <1>1, <1>4, <1>5, StillDetermined
<1>7. PICK job : job = Current
  OBVIOUS
<1>8. Working => Trains(job)'
  <2> SUFFICES ASSUME Working PROVE Trains(job)'
    OBVIOUS
  <2>1. Trains(job) /\ process'.out.terminal = <<>>
    <3>1. Trains(job)
      BY <1>1, <1>7, JobOf
    <3>2. process.out.terminal = <<>>
      BY <1>1, <3>1 DEF Trains
    <3> QED BY <1>4, <3>1, <3>2
  <2>2. /\ process'.pc # "refused" /\ (process'.pc = "update" => process.left > 0)
        /\ (process'.pc = "exit" => process.left = 0) /\ process'.pc # "exited"
    BY <1>4, <1>5
  <2> QED BY <1>4, <2>1, <2>2, StillTrains
<1>9. Working => Saves(job)'
  <2> SUFFICES ASSUME Working PROVE Saves(job)'
    OBVIOUS
  <2>1. /\ Saves(job) /\ Trains(job) /\ RootOf(job) \in Roots
        /\ job.start \in Nat /\ job.start % SaveEvery = 0 /\ Made' = Made
    BY <1>1, <1>4, <1>7, JobOf, ProcessStays
  <2>2. PICK u \in Nat \ {0} : /\ u = Made /\ u % SaveEvery = 0 /\ u >= job.start
                              /\ Member = job.member
                              /\ Content(process.campaign) = ContentAt(judged, Member, Made)
    BY <1>1, <2>1, SavesContent DEF Trains
  <2>3. /\ line = SavedAt(judged, job.member, u) /\ line.update = u
        /\ line.id = Content(process.campaign)
    BY <1>2, <2>2 DEF SavedAt
  <2>4. line.id \in disk[RootOf(job)]
    BY <1>1, <2>1, <2>3 DEF Saves
  <2>5. PICK lines, s : lines = process.out.checkpoints /\ s = job.start /\ s \in Nat
    BY <2>1
  <2>6. IsSequence(lines)
    BY <2>1, <2>5 DEF Saves
  <2>7. /\ IsSequence(Append(lines, line)) /\ Len(lines) \in Nat
        /\ Len(Append(lines, line)) = Len(lines) + 1
        /\ \A k \in 1 .. Len(lines) : Append(lines, line)[k] = lines[k]
        /\ Append(lines, line)[Len(lines) + 1] = line
    <3>1. PICK S : lines \in Seq(S)
      BY <2>6 DEF IsSequence
    <3>2. lines \in Seq(S \cup {line}) /\ line \in S \cup {line}
      BY <3>1
    <3>3. Append(lines, line) \in Seq(S \cup {line})
      BY <3>2
    <3> QED BY <3>2, <3>3 DEF IsSequence
  <2>8. ASSUME NEW k \in 1 .. Len(lines) + 1
        PROVE  LET new == Append(lines, line)[k] IN
               /\ new.update \in 1 .. u /\ new.update % SaveEvery = 0
               /\ new = SavedAt(judged, job.member, new.update) /\ new.id \in disk[RootOf(job)]
    <3>1. CASE k \in 1 .. Len(lines)
      BY <2>1, <2>2, <2>5, <2>7, <3>1 DEF Saves
    <3>2. CASE k = Len(lines) + 1
      BY <2>2, <2>3, <2>4, <2>7, <3>2
    <3> QED BY <2>7, <3>1, <3>2
  <2>9. ASSUME Smooth
        PROVE  /\ Len(lines) + 1 = Announced(job)'
               /\ \A k \in 1 .. Len(lines) + 1 : Append(lines, line)[k].update = s + k * SaveEvery
    <3>1. /\ Len(lines) = (u - s) \div SaveEvery - 1
          /\ \A k \in 1 .. Len(lines) : lines[k].update = s + k * SaveEvery
      BY <1>1, <2>1, <2>2, <2>5, <2>9 DEF Saves, Announced
    <3>2. (u - s) \div SaveEvery \in Nat /\ u = s + ((u - s) \div SaveEvery) * SaveEvery
      BY <2>1, <2>2, <2>5, Between
    <3>3. Announced(job)' = (u - s) \div SaveEvery
      BY <1>4, <2>1, <2>2, <2>5, <3>2 DEF Announced
    <3>4. PICK q \in Nat : q = (u - s) \div SaveEvery /\ u = s + q * SaveEvery /\ q = Len(lines) + 1
      BY <2>7, <3>1, <3>2
    <3>5. ASSUME NEW k \in 1 .. Len(lines) + 1
          PROVE  Append(lines, line)[k].update = s + k * SaveEvery
      <4>1. CASE k \in 1 .. Len(lines)
        BY <2>7, <3>1, <4>1
      <4>2. CASE k = Len(lines) + 1
        BY <2>3, <2>7, <3>4, <4>2
      <4> QED BY <2>7, <4>1, <4>2
    <3> QED BY <3>3, <3>4, <3>5
  <2>10. PICK new : new = Append(lines, line)
    OBVIOUS
  <2>11. /\ IsSequence(new)
         /\ \A k \in 1 .. Len(new) :
              /\ new[k].update \in 1 .. Made' /\ new[k].update % SaveEvery = 0
              /\ new[k] = SavedAt(judged', job.member, new[k].update)
              /\ new[k].id \in disk'[RootOf(job)]
    BY <1>1, <2>1, <2>2, <2>7, <2>8, <2>10
  <2>12. Smooth => /\ Len(new) = Announced(job)'
                   /\ \A k \in 1 .. Len(new) : new[k].update = job.start + k * SaveEvery
    BY <2>5, <2>7, <2>9, <2>10
  <2>13. \A c \in disk'[RootOf(job)] : c.runtime.updates <= Made'
    BY <1>1, <2>1 DEF Saves
  <2>14. process'.out.checkpoints = new /\ process'.pc \notin {"announce", "save"} /\ (Smooth' <=> Smooth)
    BY <1>1, <1>4, <2>5, <2>10 DEF Smooth
  <2> QED BY <2>11, <2>12, <2>13, <2>14 DEF Saves, RootOf
<1> QED BY <1>1, <1>4, <1>6, <1>7, <1>8, <1>9, NativeStep

-----------------------------------------------------------------------------
(* A launch, by a harness or by hand.                                      *)

LEMMA LaunchedAt ==
  ASSUME IInv, UNCHANGED <<disk, harness, judged, printed, faulted>>,
         NEW m, NEW u \in Nat, Known(judged, m, u \div CheckEvery),
         NEW additional \in Nat \ {0}, NEW root,
         process' = Launched(CampaignAt(judged, m, u, u \div CheckEvery, NoCheck), additional, root)
  PROVE  /\ Determined' /\ process' # Nowhere /\ Grows /\ Member' = m /\ Made' = u
         /\ process'.root = root /\ process'.left = additional /\ process'.out = Silent
         /\ process'.code = "none" /\ process'.pc \in {"refused", "update"}
         /\ u + additional <= Budget => process'.pc = "update"
<1>1. PICK campaign : campaign = CampaignAt(judged, m, u, u \div CheckEvery, NoCheck)
  OBVIOUS
<1>2. /\ campaign.transition = u /\ campaign.trainer.updates = u /\ campaign.trainer.member = m
      /\ campaign.last = NoCheck
  BY <1>1 DEF CampaignAt, TrainerAt
<1>3. /\ DOMAIN process' = {"pc", "campaign", "left", "root", "out", "code"}
      /\ process'.campaign = campaign /\ process'.left = additional /\ process'.root = root
      /\ process'.out = Silent /\ process'.code = "none" /\ process'.pc \in {"refused", "update"}
      /\ process'.pc = "update" <=> ~(u + additional > Budget)
  BY <1>1, <1>2 DEF Launched
<1>4. "left" \notin DOMAIN Nowhere /\ DOMAIN Silent = {"updates", "checkpoints", "terminal"}
  BY DEF Nowhere, Silent
<1>5. process' # Nowhere /\ Member' = m /\ Made' = u
  BY <1>2, <1>3, <1>4 DEF Member, Made
<1>6. Shape'
  BY <1>3, <1>4 DEF Shape, IInv, Determined
<1>7. OnPath'
  <2>1. process'.pc = "update" => additional \in Nat /\ additional > 0 /\ u + additional <= Budget
    BY <1>3, Periods
  <2> QED BY <1>1, <1>2, <1>3, <1>5, <2>1 DEF OnPath, Checks
<1>8. Determined'
  BY <1>6, <1>7 DEF Determined, IInv
<1>9. Grows
  BY DEF Grows, IInv, Determined, Shape
<1> QED BY <1>3, <1>5, <1>8, <1>9, Periods

LEMMA Quotient ==
  ASSUME NEW d \in Nat \ {0}, NEW u \in Nat \ {0}, u % d = 0
  PROVE  u \div d \in Nat \ {0} /\ (u \div d) * d = u
<1>1. u \div d \in Nat /\ u = d * (u \div d)
  BY DivDef
<1>2. PICK q \in Nat : q = u \div d /\ u = d * q
  BY <1>1
<1>3. q # 0 /\ q * d = u
  BY <1>2
<1> QED BY <1>2, <1>3

LEMMA Factor ==
  ASSUME NEW d \in Nat \ {0}, NEW i \in Nat, NEW k \in Nat, i * d = k * d
  PROVE  i = k
<1>1. (i * d) \div d = i /\ (k * d) \div d = k
  BY Multiple
<1> QED BY <1>1

LEMMA CheckpointOf ==
  ASSUME NEW J, NEW job, job.start \in Nat, job.count \in Nat,
         NEW k \in 1 .. job.count \div SaveEvery
  PROVE  /\ CheckpointAt(Whole(J, job), job.start + k * SaveEvery)
              = {SavedAt(J, job.member, job.start + k * SaveEvery)}
<1>1. PICK n \in Nat : n = job.count \div SaveEvery
  BY Periods, DivDef
<1>2. PICK u : u = job.start + k * SaveEvery
  OBVIOUS
<1>3. PICK f : f = [i \in 1 .. n |-> SavedAt(J, job.member, job.start + i * SaveEvery)]
  OBVIOUS
<1>4. Whole(J, job).checkpoints = f
  BY <1>1, <1>3 DEF Whole
<1>5. ASSUME NEW i \in 1 .. n
      PROVE  f[i].update = u <=> i = k
  <2>1. i \in Nat /\ k \in Nat /\ SaveEvery \in Nat \ {0}
    BY <1>1, Periods
  <2>2. f[i].update = job.start + i * SaveEvery
    BY <1>3 DEF SavedAt
  <2>3. PICK p \in Nat, q \in Nat : p = i * SaveEvery /\ q = k * SaveEvery
    BY <2>1, Multiple
  <2>4. f[i].update = u <=> p = q
    BY <1>2, <2>2, <2>3
  <2> QED BY <2>1, <2>3, <2>4, Factor
<1>6. DOMAIN f = 1 .. n /\ k \in 1 .. n
  BY <1>1, <1>3
<1>7. f[k] = SavedAt(J, job.member, u)
  BY <1>2, <1>3, <1>6
<1>8. CheckpointAt(Whole(J, job), u) = {f[k]}
  BY <1>4, <1>5, <1>6, Zenon DEF CheckpointAt
<1> QED BY <1>2, <1>7, <1>8

\* The third process of a member resumes what the second published at the fork.
LEMMA Resumes ==
  ASSUME IInv, Working, Len(harness.done) < NumJobs(harness.kind), Current.start # 0
  PROVE  /\ Known(judged, Current.member, Current.start \div CheckEvery)
         /\ Loaded((CHOOSE c \in CheckpointAt(Last(harness.done), Fork) : TRUE).id)
              = CampaignAt(judged, Current.member, Current.start, Current.start \div CheckEvery, NoCheck)
<1>1. PICK n \in Nat : n = Len(harness.done)
  BY CurrentJob DEF IInv, Determined
<1>2. /\ harness.kind = "recovery" /\ (n + 1) % 3 = 0 /\ n + 1 \in 1 .. NumJobs("recovery")
      /\ Current = Jobs("recovery")[n + 1]
  BY <1>1, CurrentJob DEF IInv, Determined, DoneJob
<1>3. n \in 1 .. NumJobs("recovery") /\ n % 3 = 2 /\ (n - 1) \div 3 = n \div 3 /\ (n + 1) - 1 = n
  <2>1. NumJobs("recovery") \in Nat
    BY JobsAre DEF Kinds
  <2> QED BY <1>2, <2>1
<1>4. PICK m : m = InOrder[n \div 3 + 1]
  OBVIOUS
<1>5. Jobs("recovery")[n] = Job("prefix", m, 0, Fork)
  BY <1>3, <1>4, RecoveryJob
<1>6. Jobs("recovery")[n + 1] = Job("resumed", m, Fork, SaveEvery)
  BY <1>2, <1>3, <1>4, RecoveryJob
<1>7. PICK job : job = Job("prefix", m, 0, Fork)
  OBVIOUS
<1>8. job.start = 0 /\ job.count = Fork /\ job.member = m
  BY <1>7 DEF Job
<1>9. Last(harness.done) = Whole(judged, job) /\ KnownTo(judged, job)
  <2>1. n \in 1 .. n
    BY <1>3
  <2>2. harness.done[n] = Whole(judged, DoneJob(n)) /\ KnownTo(judged, DoneJob(n))
    BY <1>1, <2>1 DEF IInv, DoneRight
  <2> QED BY <1>1, <1>2, <1>5, <1>7, <2>2 DEF DoneJob, Last
<1>10. PICK k \in Nat \ {0} : k = Fork \div SaveEvery /\ k * SaveEvery = Fork
  BY Periods, Quotient
<1>11. job.start + k * SaveEvery = Fork /\ k \in 1 .. job.count \div SaveEvery
       /\ job.start \in Nat /\ job.count \in Nat
  BY <1>8, <1>10, Periods
<1>12. CheckpointAt(Whole(judged, job), Fork) = {SavedAt(judged, m, Fork)}
  <2>1. CheckpointAt(Whole(judged, job), job.start + k * SaveEvery)
          = {SavedAt(judged, job.member, job.start + k * SaveEvery)}
    BY <1>11, CheckpointOf
  <2> QED BY <1>8, <1>11, <2>1, Zenon
<1>13. (CHOOSE c \in CheckpointAt(Last(harness.done), Fork) : TRUE).id = ContentAt(judged, m, Fork)
  <2>1. (CHOOSE c \in {SavedAt(judged, m, Fork)} : TRUE) = SavedAt(judged, m, Fork)
    OBVIOUS
  <2> QED BY <1>9, <1>12, <2>1 DEF SavedAt
<1>14. Known(judged, m, Fork \div CheckEvery)
  <2>1. job.start + job.count = Fork
    BY <1>8, Periods
  <2> QED BY <1>8, <1>9, <2>1 DEF KnownTo
<1>15. Current.member = m /\ Current.start = Fork
  BY <1>2, <1>6 DEF Job
<1> QED BY <1>13, <1>14, <1>15, LoadedIs

\* What a harness launches a job from.
From(job) ==
  IF job.start = 0 THEN NewCampaign(job.member)
  ELSE Loaded((CHOOSE c \in CheckpointAt(Last(harness.done), Fork) : TRUE).id)

LEMMA LaunchStep ==
  ASSUME IInv, LaunchJob
  PROVE  IInv'
<1>1. /\ Working /\ process = Nowhere /\ Len(harness.done) < NumJobs(harness.kind)
      /\ UNCHANGED <<disk, harness, byHand, judged, printed, faulted>>
  BY JobsAre DEF LaunchJob, IInv, Determined, Shape
<1>2. PICK job : job = Current
  OBVIOUS
<1>3. /\ job.start \in Nat /\ job.start % SaveEvery = 0 /\ job.count \in Nat \ {0}
      /\ job.start + job.count <= Budget /\ RootOf(job) \in Roots
      /\ Len(harness.done) + 1 \in Len(harness.done) + 1 .. NumJobs(harness.kind)
      /\ job = DoneJob(Len(harness.done) + 1)
  BY <1>1, <1>2, CurrentJob DEF IInv, Determined
<1>4. PICK from : from = From(job)
  OBVIOUS
<1>5. process' = Launched(from, job.count, RootOf(job))
  BY <1>2, <1>4 DEF LaunchJob, RootOf, From
<1>6. /\ Known(judged, job.member, job.start \div CheckEvery)
      /\ from = CampaignAt(judged, job.member, job.start, job.start \div CheckEvery, NoCheck)
  <2>1. CASE job.start = 0
    <3>1. job.start \div CheckEvery = 0
      BY <2>1, Periods, DivUnique
    <3>2. Known(judged, job.member, 0)
      BY DEF Known
    <3> QED BY <1>4, <2>1, <3>1, <3>2, NewAt DEF From
  <2>2. CASE job.start # 0
    BY <1>1, <1>2, <1>4, <2>2, Resumes DEF From
  <2> QED BY <2>1, <2>2
<1>7. /\ Determined' /\ process' # Nowhere /\ Grows /\ Member' = job.member /\ Made' = job.start
      /\ process'.root = RootOf(job) /\ process'.left = job.count /\ process'.out = Silent
      /\ process'.code = "none" /\ process'.pc = "update"
  BY <1>1, <1>3, <1>5, <1>6, LaunchedAt
<1>8. DoneRight' /\ Selected' /\ (harness'.status = "FAIL" => Cause')
  BY <1>1, <1>7, DoneKept, SelectedKept, CauseKept DEF IInv, Determined
<1>9. RootsAhead'
  BY <1>1 DEF RootsAhead, IInv, Working, DoneJob, RootOf
<1>10. Trains(job)'
  <2>1. /\ Silent.updates = <<>> /\ Silent.terminal = <<>>
        /\ job.start - job.start = 0 /\ job.count + job.start = job.start + job.count
    BY <1>3 DEF Silent
  <2>2. <<>> = [k \in 1 .. 0 |-> LineAt(judged', job.member, job.start + k)]
    OBVIOUS
  <2> QED BY <1>3, <1>7, <2>1, <2>2 DEF Trains, RootOf
<1>11. Saves(job)'
  <2>1. disk[RootOf(job)] = {}
    BY <1>1, <1>3 DEF IInv, RootsAhead
  <2>2. Silent.checkpoints = <<>> /\ IsSequence(<<>>) /\ Len(<<>>) = 0
    BY DEF Silent, IsSequence
  <2>3. Announced(job)' = 0
    <3>1. 0 \div SaveEvery = 0 /\ job.start - job.start = 0
      BY <1>3, Periods, DivUnique
    <3> QED BY <1>7, <3>1 DEF Announced
  <2> QED BY <1>1, <1>7, <2>1, <2>2, <2>3 DEF Saves, RootOf
<1>12. OnCourse'
  BY <1>1, <1>2, <1>10, <1>11, SameJob
<1> QED BY <1>7, <1>8, <1>9, <1>12 DEF IInv

LEMMA ResumeStep ==
  ASSUME IInv, ResumeByHand
  PROVE  IInv'
<1>1. ~Working /\ UNCHANGED <<disk, harness, judged, printed, faulted>>
  BY DEF ResumeByHand
<1>2. PICK r \in Roots, additional \in {SaveEvery, Budget} : \E content \in disk[r] :
        \E to : process' = Launched(Loaded(content), additional, to)
  BY DEF ResumeByHand
<1>3. PICK content \in disk[r] : \E to : process' = Launched(Loaded(content), additional, to)
  BY <1>2
<1>4. PublishedAs(judged, content) /\ additional \in Nat \ {0}
  BY Periods DEF IInv, Determined
<1>5. PICK m, u : /\ u \in Nat /\ Known(judged, m, u \div CheckEvery) /\ content = ContentAt(judged, m, u)
  BY <1>4 DEF PublishedAs
<1>6. Determined' /\ Grows
  <2>1. PICK to : process' = Launched(Loaded(content), additional, to)
    BY <1>3
  <2> QED BY <1>1, <2>1, <1>4, <1>5, LoadedIs, LaunchedAt
<1>7. DoneRight' /\ Selected' /\ (harness'.status = "FAIL" => Cause')
  BY <1>1, <1>6, DoneKept, SelectedKept, CauseKept DEF IInv, Determined
<1>8. RootsAhead' /\ OnCourse'
  BY <1>1 DEF RootsAhead, OnCourse, Working
<1> QED BY <1>6, <1>7, <1>8 DEF IInv

-----------------------------------------------------------------------------
(* The end of a job, and of a harness.                                     *)

LEMMA FailingStep ==
  ASSUME IInv, Working, HarnessFails, process' = Nowhere, UNCHANGED <<disk, judged, printed>>, Cause'
  PROVE  IInv'
<1>1. /\ harness' = [harness EXCEPT !.status = "FAIL", !.done = <<>>] /\ Shape /\ harness.kind \in Kinds
  BY DEF HarnessFails, IInv, Determined, Shape
<1>2. Shape' /\ OnPath'
  BY <1>1 DEF Shape, OnPath
<1>3. Determined'
  BY <1>2 DEF Determined, IInv
<1>4. /\ harness'.done = <<>> /\ harness'.kind = harness.kind /\ harness'.status = "FAIL"
      /\ harness'.selected = harness.selected
  BY <1>1 DEF Shape
<1>5. DoneRight'
  <2>1. NumJobs(harness.kind) \in Nat
    BY <1>1, JobsAre
  <2>2. Len(harness'.done) = 0 /\ harness'.done = [n \in 1 .. 0 |-> Whole(judged', DoneJob(n)')]
    BY <1>4
  <2> QED BY <1>4, <2>1, <2>2 DEF DoneRight
<1>6. RootsAhead' /\ OnCourse'
  BY <1>4 DEF RootsAhead, OnCourse, Working
<1>7. Selected'
  BY <1>4 DEF Selected, IInv
<1> QED BY <1>3, <1>5, <1>6, <1>7 DEF IInv

LEMMA UnimprovedStep ==
  ASSUME IInv, Unimproved
  PROVE  IInv'
<1>1. Cause'
  BY DEF Unimproved, Cause
<1> QED BY <1>1, FailingStep DEF Unimproved

LEMMA EligibleIs ==
  ASSUME NEW J, NEW m, NEW k, ResultAt(J, m, k).eligible
  PROVE  ResultAt(J, m, k).passed = Introduced(ResultAt(J, m, k).stage)
<1>1. PICK mask, passed, stage, u :
        /\ mask = Mask(J, m, k - 1) /\ passed = Verdict(J, m, k)
        /\ stage = StageAt(k * CheckEvery) /\ u = k * CheckEvery
  OBVIOUS
<1>2. ResultAt(J, m, k)
        = [update |-> u, stage |-> stage, passed |-> passed,
           catastrophic |-> ~(mask \subseteq passed), allowed |-> ~~(mask \subseteq passed),
           eligible |-> ~~(mask \subseteq passed) /\ passed = Introduced(stage)]
  BY <1>1, ResultForm
<1>3. PICK r : r = ResultAt(J, m, k)
  OBVIOUS
<1>4. /\ r.passed = passed /\ r.stage = stage
      /\ r.eligible = (~~(mask \subseteq passed) /\ passed = Introduced(stage))
  BY <1>2, <1>3
<1>5. passed = Introduced(stage)
  BY <1>3, <1>4
<1> QED BY <1>3, <1>4, <1>5

LEMMA ReportStep ==
  ASSUME IInv, Report
  PROVE  IInv'
<1>1. /\ harness.kind \in Kinds /\ Shape /\ process = Nowhere
      /\ UNCHANGED <<process, disk, byHand, judged, printed, faulted>>
  BY DEF Report, IInv, Determined, Shape
<1>2. /\ DOMAIN harness' = {"kind", "done", "status", "selected"}
      /\ harness'.done = harness.done /\ harness'.kind = harness.kind /\ harness'.status = "PASS"
  BY <1>1 DEF Report, Shape
<1>3. Determined'
  BY <1>1, <1>2 DEF Determined, Shape, OnPath, IInv, Checks, Member, Made
<1>4. DoneRight'
  BY <1>1, <1>2 DEF DoneRight, IInv, DoneJob
<1>5. RootsAhead' /\ OnCourse'
  BY <1>2 DEF RootsAhead, OnCourse, Working
<1>6. Selected'
  <2>1. CASE harness.kind = "recovery"
    <3>1. harness'.selected = harness.selected
      BY <1>1, <2>1 DEF Report, Shape
    <3> QED BY <1>1, <3>1 DEF Selected, IInv
  <2>2. CASE harness.kind = "training"
    <3>1. PICK c \in Selectable : harness' = [harness EXCEPT !.status = "PASS", !.selected = {c.id}]
      BY <2>2 DEF Report
    <3>2. harness'.selected = {c.id}
      BY <1>1, <3>1 DEF Shape
    <3>3. PICK n \in 1 .. Len(harness.done) : c \in Eligible(harness.done[n])
      <4>1. PICK p \in ToSet(harness.done) : c \in Eligible(p)
        BY <3>1 DEF Selectable
      <4>2. DOMAIN harness.done = 1 .. Len(harness.done)
        BY DEF IInv, DoneRight
      <4> QED BY <4>1, <4>2 DEF ToSet
    <3>4. PICK job : job = DoneJob(n)
      OBVIOUS
    <3>5. /\ harness.done[n] = Whole(judged, job)
          /\ Published(judged, job) \subseteq disk[RootOf(job)]
      BY <3>4 DEF IInv, DoneRight
    <3>6. /\ c \in ToSet(Whole(judged, job).checkpoints) /\ c.id.selection.eligible
      BY <3>3, <3>5 DEF Eligible
    <3>7. PICK k \in 1 .. job.count \div SaveEvery :
             c = SavedAt(judged, job.member, job.start + k * SaveEvery)
      BY <3>6 DEF ToSet, Whole
    <3>8. PICK u : u = job.start + k * SaveEvery
      OBVIOUS
    <3>9. c.id = ContentAt(judged, job.member, u) /\ c.id \in disk[RootOf(job)]
      BY <3>5, <3>7, <3>8 DEF SavedAt, Published
    <3>10. c.id.selection = ResultAt(judged, job.member, u \div CheckEvery)
      BY <3>9, ContentIs
    <3>11. c.id.selection.passed = Introduced(c.id.selection.stage)
      BY <3>6, <3>10, EligibleIs
    <3>12. RootOf(job) \in Roots
      <4>1. n \in 1 .. NumJobs(harness.kind)
        BY <1>1, JobsAre DEF IInv, DoneRight
      <4> QED BY <1>1, <3>4, <4>1, JobFacts DEF DoneJob
    <3> QED BY <1>1, <3>2, <3>9, <3>11, <3>12 DEF Selected
  <2> QED BY <1>1, <2>1, <2>2 DEF Kinds
<1> QED BY <1>2, <1>3, <1>4, <1>5, <1>6 DEF IInv

\* The output of a process that has done all of its job.
LEMMA ParsedIs ==
  ASSUME IInv, Working, process # Nowhere, process.code = "pass", NEW job, job = Current,
         Len(process.out.checkpoints) = job.count \div SaveEvery,
         \A k \in 1 .. Len(process.out.checkpoints) :
           process.out.checkpoints[k].update = job.start + k * SaveEvery
  PROVE  /\ Made = job.start + job.count
         /\ process.out.updates = Whole(judged, job).updates
         /\ process.out.checkpoints = Whole(judged, job).checkpoints
         /\ Parsed = Whole(judged, job) /\ KnownTo(judged, job)
         /\ Published(judged, job) \subseteq disk[RootOf(job)]
<1>1. Trains(job) /\ Saves(job) /\ job.start \in Nat /\ job.count \in Nat \ {0}
  BY JobOf, OnJob
<1>2. PICK s, n, m : s = job.start /\ n = job.count /\ m = job.member /\ s \in Nat /\ n \in Nat \ {0}
  BY <1>1
<1>3. process.left = 0 /\ process.left + Made = s + n /\ Member = m
  BY <1>1, <1>2 DEF Trains
<1>4. Made = s + n /\ Made - s = n
  <2>1. Made \in Nat
    BY DEF IInv, Determined, OnPath
  <2> QED BY <1>2, <1>3, <2>1
<1>5. process.out.updates = [k \in 1 .. n |-> LineAt(judged, m, s + k)]
  BY <1>1, <1>2, <1>4 DEF Trains
<1>6. PICK q \in Nat : q = n \div SaveEvery
  BY <1>2, Periods, DivDef
<1>7. PICK lines : lines = process.out.checkpoints
  OBVIOUS
<1>8. \A k \in 1 .. q : lines[k] = SavedAt(judged, m, s + k * SaveEvery) /\ lines[k].id \in disk[RootOf(job)]
  <2> TAKE k \in 1 .. q
  <2>1. PICK u : u = s + k * SaveEvery
    OBVIOUS
  <2>2. lines[k].update = u
    BY <1>2, <1>6, <1>7, <2>1
  <2>3. lines[k] = SavedAt(judged, job.member, lines[k].update) /\ lines[k].id \in disk[RootOf(job)]
    BY <1>1, <1>2, <1>6, <1>7 DEF Saves
  <2> QED BY <1>2, <2>1, <2>2, <2>3
<1>9. lines = [k \in 1 .. q |-> SavedAt(judged, m, s + k * SaveEvery)]
  <2>1. PICK S : lines \in Seq(S)
    BY <1>1, <1>7 DEF Saves, IsSequence
  <2>2. lines = [k \in 1 .. Len(lines) |-> lines[k]] /\ Len(lines) = q
    BY <1>2, <1>6, <1>7, <2>1
  <2>3. lines = [k \in 1 .. q |-> lines[k]]
    BY <2>2
  <2> QED BY <1>8, <2>3, Zenon
<1>10. Parsed = Whole(judged, job)
  <2>1. PICK now : now = Current.member
    OBVIOUS
  <2>2. now = m
    BY <1>2, <2>1
  <2> QED BY <1>2, <1>5, <1>6, <1>7, <1>9, <2>1, <2>2, Zenon DEF Parsed, Whole
<1>11. KnownTo(judged, job)
  BY <1>2, <1>3, <1>4 DEF KnownTo, IInv, Determined, OnPath, Checks
<1>12. Published(judged, job) \subseteq disk[RootOf(job)]
  <2>1. ASSUME NEW k \in 1 .. q
        PROVE  ContentAt(judged, m, s + k * SaveEvery) \in disk[RootOf(job)]
    <3>1. PICK u : u = s + k * SaveEvery
      OBVIOUS
    <3>2. lines[k] = SavedAt(judged, m, u) /\ lines[k].id \in disk[RootOf(job)]
      BY <1>8, <3>1
    <3> QED BY <3>1, <3>2 DEF SavedAt
  <2> QED BY <1>2, <1>6, <2>1, Zenon DEF Published
<1>13. /\ process.out.updates = Whole(judged, job).updates
       /\ process.out.checkpoints = Whole(judged, job).checkpoints
  BY <1>10 DEF Parsed
<1> QED BY <1>2, <1>4, <1>10, <1>11, <1>12, <1>13

LEMMA AcceptStep ==
  ASSUME IInv, Working, process # Nowhere, process.code = "pass", WellFormed, process' = Nowhere,
         harness' = [harness EXCEPT !.done = Append(@, Parsed)], UNCHANGED <<disk, judged, printed, faulted>>
  PROVE  IInv'
<1>1. PICK job : job = Current
  OBVIOUS
<1>2. PICK n \in Nat : /\ n = Len(harness.done) /\ n < NumJobs(harness.kind)
                       /\ n + 1 \in 1 .. NumJobs(harness.kind)
                       /\ job = DoneJob(n + 1) /\ job.count \in Nat \ {0} /\ RootOf(job) \in Roots
  BY <1>1, OnJob, CurrentJob DEF IInv, Determined
<1>3. /\ Len(process.out.checkpoints) = job.count \div SaveEvery
      /\ \A k \in 1 .. Len(process.out.checkpoints) :
           process.out.checkpoints[k].update = job.start + k * SaveEvery
  <2>1. PICK lines, S : lines = process.out.checkpoints /\ lines \in Seq(S)
    BY <1>1, JobOf DEF Saves, IsSequence
  <2>2. PICK q \in Nat : q = job.count \div SaveEvery
    BY <1>2, Periods, DivDef
  <2>3. [i \in DOMAIN lines |-> lines[i].update] = [k \in 1 .. q |-> job.start + k * SaveEvery]
    BY <1>1, <2>1, <2>2 DEF WellFormed, UpdatesOf, ExpectedCheckpoints, Every
  <2>4. PICK f, g : f = [i \in DOMAIN lines |-> lines[i].update] /\ g = [k \in 1 .. q |-> job.start + k * SaveEvery]
    OBVIOUS
  <2>5. DOMAIN lines = 1 .. q
    <3>1. DOMAIN f = DOMAIN lines /\ DOMAIN g = 1 .. q /\ f = g
      BY <2>3, <2>4
    <3> QED BY <3>1
  <2>6. Len(lines) = q
    <3>1. Len(lines) \in Nat /\ DOMAIN lines = 1 .. Len(lines)
      BY <2>1
    <3> QED BY <2>5, <3>1
  <2>7. \A k \in 1 .. q : lines[k].update = job.start + k * SaveEvery
    <3> TAKE k \in 1 .. q
    <3>1. f[k] = lines[k].update /\ g[k] = job.start + k * SaveEvery /\ f = g
      BY <2>3, <2>4, <2>5
    <3> QED BY <3>1
  <2> QED BY <2>1, <2>2, <2>6, <2>7
<1>4. /\ Parsed = Whole(judged, job) /\ KnownTo(judged, job)
      /\ Published(judged, job) \subseteq disk[RootOf(job)]
  BY <1>1, <1>3, ParsedIs
<1>5. PICK parsed : parsed = Parsed
  OBVIOUS
<1>6. /\ Shape /\ DOMAIN harness' = {"kind", "done", "status", "selected"}
      /\ harness'.done = Append(harness.done, parsed) /\ harness'.kind = harness.kind
      /\ harness'.status = harness.status /\ harness'.selected = harness.selected
  BY <1>5 DEF IInv, Determined, Shape
<1>7. Determined'
  BY <1>6 DEF Determined, Shape, OnPath, IInv
<1>8. /\ Len(harness'.done) = n + 1 /\ harness'.done[n + 1] = parsed
      /\ harness'.done = [k \in 1 .. n + 1 |-> Whole(judged, DoneJob(k))]
  <2>1. harness.done = [k \in 1 .. n |-> Whole(judged, DoneJob(k))]
    BY <1>2 DEF IInv, DoneRight
  <2>2. parsed = Whole(judged, DoneJob(n + 1))
    BY <1>2, <1>4, <1>5
  <2> QED BY <1>6, <2>1, <2>2
<1>9. DoneRight'
  <2>1. \A k : DoneJob(k)' = DoneJob(k)
    BY <1>6 DEF DoneJob
  <2>2. ASSUME NEW k \in 1 .. n + 1
        PROVE  KnownTo(judged, DoneJob(k)) /\ Published(judged, DoneJob(k)) \subseteq disk[RootOf(DoneJob(k))]
    <3>1. CASE k \in 1 .. n
      BY <1>2, <3>1 DEF IInv, DoneRight
    <3>2. CASE k = n + 1
      BY <1>2, <1>4, <3>2
    <3> QED BY <3>1, <3>2
  <2>3. harness'.done = [k \in 1 .. n + 1 |-> Whole(judged', DoneJob(k)')]
    BY <1>8, <2>1
  <2>4. n + 1 \in 0 .. NumJobs(harness.kind)
    BY <1>2
  <2> QED BY <1>6, <1>8, <2>1, <2>2, <2>3, <2>4 DEF DoneRight, RootOf
<1>10. RootsAhead'
  <2> SUFFICES ASSUME Working', NEW k \in n + 1 + 1 .. NumJobs(harness.kind)
               PROVE  disk[RootOf(DoneJob(k))] = {}
    BY <1>6, <1>8 DEF RootsAhead, DoneJob, RootOf
  <2>1. k \in n + 1 .. NumJobs(harness.kind) /\ k > n + 1
    BY <1>2
  <2> QED BY <1>2, <2>1 DEF IInv, RootsAhead
<1>11. OnCourse' /\ Selected'
  BY <1>6 DEF OnCourse, Selected, IInv
<1>12. harness'.status # "FAIL"
  BY <1>6 DEF Working
<1> QED BY <1>7, <1>9, <1>10, <1>11, <1>12 DEF IInv

\* A process that ended as it should, when no check has regressed.
LEMMA EndsWell ==
  ASSUME IInv, Working, process # Nowhere, process.pc = "exited", ~faulted, Smooth, NEW job, job = Current
  PROVE  /\ process.code = "pass"
         /\ Len(process.out.checkpoints) = job.count \div SaveEvery
         /\ \A k \in 1 .. Len(process.out.checkpoints) :
              process.out.checkpoints[k].update = job.start + k * SaveEvery
<1>1. Trains(job) /\ Saves(job) /\ job.start \in Nat /\ job.count \in Nat \ {0} /\ Made \in Nat
  BY JobOf, OnJob DEF IInv, Determined, OnPath
<1>2. process.code = "pass"
  BY <1>1 DEF Trains, IInv, Determined, Shape
<1>3. Made - job.start = job.count
  <2>1. process.left = 0 /\ process.left + Made = job.start + job.count
    BY <1>1, <1>2 DEF Trains
  <2> QED BY <1>1, <2>1
<1>4. Announced(job) = job.count \div SaveEvery
  <2>1. job.count \div SaveEvery \in Nat
    BY <1>1, Periods, DivDef
  <2> QED BY <1>3, <2>1 DEF Announced
<1> QED BY <1>1, <1>2, <1>4 DEF Saves

LEMMA SmoothIsWellFormed ==
  ASSUME IInv, Working, process # Nowhere, process.pc = "exited", ~faulted, Smooth
  PROVE  WellFormed
<1>1. PICK job : job = Current
  OBVIOUS
<1>2. /\ process.code = "pass" /\ Len(process.out.checkpoints) = job.count \div SaveEvery
      /\ \A k \in 1 .. Len(process.out.checkpoints) :
           process.out.checkpoints[k].update = job.start + k * SaveEvery
  BY <1>1, EndsWell
<1>3. PICK s \in Nat, n \in Nat \ {0} : s = job.start /\ n = job.count
  BY <1>1, OnJob
<1>4. PICK m : m = job.member
  OBVIOUS
<1>5. /\ Made = s + n
      /\ process.out.updates = Whole(judged, job).updates
      /\ process.out.checkpoints = Whole(judged, job).checkpoints
      /\ Published(judged, job) \subseteq disk[RootOf(job)]
  BY <1>1, <1>2, <1>3, ParsedIs
<1>6. process.out.updates = [k \in 1 .. n |-> LineAt(judged, m, s + k)]
  BY <1>3, <1>4, <1>5 DEF Whole
<1>7. PICK q \in Nat : q = n \div SaveEvery
  BY <1>3, Periods, DivDef
<1>8. process.out.checkpoints = [k \in 1 .. q |-> SavedAt(judged, m, s + k * SaveEvery)]
  BY <1>3, <1>4, <1>5, <1>7 DEF Whole
<1>9. ExpectedUpdates = [k \in 1 .. n |-> s + k]
  BY <1>1, <1>3 DEF ExpectedUpdates
<1>10. UpdatesOf(process.out.updates) = ExpectedUpdates
  <2>1. \A k \in 1 .. n : LineAt(judged, m, s + k).update = s + k
    BY LineFields
  <2>2. PICK f : f = [k \in 1 .. n |-> LineAt(judged, m, s + k)]
    OBVIOUS
  <2>3. DOMAIN f = 1 .. n /\ \A k \in 1 .. n : f[k].update = s + k
    BY <2>1, <2>2
  <2>4. UpdatesOf(f) = [k \in 1 .. n |-> s + k]
    BY <2>3 DEF UpdatesOf
  <2> QED BY <1>6, <1>9, <2>2, <2>4
<1>11. \A u \in ToSet(process.out.updates) : u.ran <=> u.update % CheckEvery = 0
  <2> TAKE u \in ToSet(process.out.updates)
  <2>1. PICK k \in 1 .. n : u = LineAt(judged, m, s + k)
    BY <1>6 DEF ToSet
  <2> QED BY <2>1, LineFields
<1>12. UpdatesOf(process.out.checkpoints) = ExpectedCheckpoints
  <2>1. PICK f : f = [k \in 1 .. q |-> SavedAt(judged, m, s + k * SaveEvery)]
    OBVIOUS
  <2>2. DOMAIN f = 1 .. q /\ \A k \in 1 .. q : f[k].update = s + k * SaveEvery
    BY <2>1 DEF SavedAt
  <2>3. UpdatesOf(f) = [k \in 1 .. q |-> s + k * SaveEvery]
    BY <2>2, Zenon DEF UpdatesOf
  <2>4. ExpectedCheckpoints = [k \in 1 .. q |-> s + k * SaveEvery]
    BY <1>1, <1>3, <1>7 DEF ExpectedCheckpoints, Every
  <2> QED BY <1>8, <2>1, <2>3, <2>4
<1>13. \A c \in ToSet(process.out.checkpoints) : c.id \in disk[process.root]
  <2> TAKE c \in ToSet(process.out.checkpoints)
  <2>1. PICK k \in 1 .. q : c = SavedAt(judged, m, s + k * SaveEvery)
    BY <1>8 DEF ToSet
  <2>2. c.id \in Published(judged, job)
    BY <1>3, <1>4, <1>7, <2>1, Zenon DEF Published, SavedAt
  <2>3. process.root = RootOf(job)
    BY <1>1, JobOf DEF Trains
  <2> QED BY <1>5, <2>2, <2>3
<1>14. process.out.terminal = <<[member |-> Current.member, updates |-> Last(ExpectedUpdates),
                                 transitions |-> Last(ExpectedUpdates)]>>
  <2>1. Last(ExpectedUpdates) = s + n
    BY <1>9 DEF Last
  <2>2. process.out.terminal = <<[member |-> m, updates |-> Made, transitions |-> Made]>>
    BY <1>1, <1>2, <1>4, JobOf DEF Trains
  <2> QED BY <1>1, <1>4, <1>5, <2>1, <2>2
<1> QED BY <1>10, <1>11, <1>12, <1>13, <1>14 DEF WellFormed

\* Across two processes a member trains as it trains in one.
LEMMA ExactWhole ==
  ASSUME NEW J, NEW m
  PROVE  Exact(Whole(J, Job("uninterrupted", m, 0, Fork + SaveEvery)),
               Whole(J, Job("prefix", m, 0, Fork)), Whole(J, Job("resumed", m, Fork, SaveEvery)))
<1>1. PICK a, b, c : /\ a = Job("uninterrupted", m, 0, Fork + SaveEvery)
                     /\ b = Job("prefix", m, 0, Fork) /\ c = Job("resumed", m, Fork, SaveEvery)
  OBVIOUS
<1>2. /\ a.start = 0 /\ a.count = Fork + SaveEvery /\ a.member = m
      /\ b.start = 0 /\ b.count = Fork /\ b.member = m
      /\ c.start = Fork /\ c.count = SaveEvery /\ c.member = m
      /\ Fork \in Nat \ {0} /\ SaveEvery \in Nat \ {0} /\ Fork + SaveEvery \in Nat \ {0}
  BY <1>1, Periods DEF Job
<1>3. /\ Whole(J, a).updates = [k \in 1 .. Fork + SaveEvery |-> LineAt(J, m, k)]
      /\ Whole(J, b).updates = [k \in 1 .. Fork |-> LineAt(J, m, k)]
      /\ Whole(J, c).updates = [k \in 1 .. SaveEvery |-> LineAt(J, m, Fork + k)]
  <2>1. \A k \in Nat : 0 + k = k
    OBVIOUS
  <2> QED BY <1>2, <2>1 DEF Whole
<1>4. SubSeq(Whole(J, a).updates, 1, Fork) = Whole(J, b).updates
  BY <1>2, <1>3
<1>5. SubSeq(Whole(J, a).updates, Fork + 1, Len(Whole(J, a).updates)) = Whole(J, c).updates
  <2>1. Len(Whole(J, a).updates) = Fork + SaveEvery
    BY <1>2, <1>3
  <2> QED BY <1>2, <1>3, <2>1
<1>6. ASSUME NEW job, job \in {a, b, c}, NEW u \in Nat \ {0}, u % SaveEvery = 0,
             u > job.start, u <= job.start + job.count
      PROVE  CheckpointAt(Whole(J, job), u) = {SavedAt(J, m, u)}
  <2>1. /\ job.start \in Nat /\ job.start % SaveEvery = 0 /\ job.count \in Nat /\ job.member = m
    <3>1. 0 % SaveEvery = 0
      BY Periods, DivUnique
    <3> QED BY <1>2, <1>6, <3>1, Periods
  <2>2. PICK s \in Nat, n \in Nat : s = job.start /\ n = job.count
    BY <2>1
  <2>3. PICK k \in Nat : k = (u - s) \div SaveEvery /\ u = s + k * SaveEvery
    BY <1>6, <2>1, <2>2, Between
  <2>4. k \in 1 .. n \div SaveEvery
    <3>1. PICK v \in Nat \ {0} : v = u - s /\ v <= n
      BY <1>6, <2>2
    <3>2. v \div SaveEvery <= n \div SaveEvery /\ n \div SaveEvery \in Nat
      BY <3>1, Periods, DivMonotone, DivDef
    <3>3. k # 0
      BY <1>6, <2>2, <2>3, Periods
    <3> QED BY <2>3, <3>1, <3>2, <3>3
  <2>5. CheckpointAt(Whole(J, job), job.start + k * SaveEvery)
          = {SavedAt(J, job.member, job.start + k * SaveEvery)}
    <3>1. k \in 1 .. job.count \div SaveEvery /\ job.start \in Nat /\ job.count \in Nat
      BY <2>1, <2>2, <2>4
    <3> QED BY <3>1, CheckpointOf
  <2> QED BY <2>1, <2>2, <2>3, <2>5
<1>7. \A u \in {k \in 1 .. Fork : k % SaveEvery = 0} : SameCheckpoint(Whole(J, a), Whole(J, b), u)
  <2> TAKE u \in {k \in 1 .. Fork : k % SaveEvery = 0}
  <2>1. u \in Nat \ {0} /\ u % SaveEvery = 0 /\ u > 0 /\ u <= 0 + Fork /\ u <= 0 + (Fork + SaveEvery)
    BY <1>2
  <2>2. /\ CheckpointAt(Whole(J, a), u) = {SavedAt(J, m, u)}
        /\ CheckpointAt(Whole(J, b), u) = {SavedAt(J, m, u)}
    BY <1>2, <1>6, <2>1
  <2> QED BY <2>2 DEF SameCheckpoint
<1>8. SameCheckpoint(Whole(J, a), Whole(J, c), Fork + SaveEvery)
  <2>1. PICK u \in Nat \ {0} : u = Fork + SaveEvery
    BY <1>2
  <2>2. u % SaveEvery = 0
    <3>1. SaveEvery % SaveEvery = 0
      BY <1>2, DivUnique
    <3> QED BY <1>2, <2>1, <3>1, Periods, Shifted
  <2>3. u > 0 /\ u <= 0 + (Fork + SaveEvery) /\ u > Fork
    BY <1>2, <2>1
  <2>4. /\ CheckpointAt(Whole(J, a), u) = {SavedAt(J, m, u)}
        /\ CheckpointAt(Whole(J, c), u) = {SavedAt(J, m, u)}
    BY <1>2, <1>6, <2>1, <2>2, <2>3
  <2> QED BY <2>1, <2>4 DEF SameCheckpoint
<1>9. Exact(Whole(J, a), Whole(J, b), Whole(J, c))
  BY <1>4, <1>5, <1>7, <1>8 DEF Exact
<1> QED BY <1>1, <1>9


\* A training process none of whose checkpoints is eligible leaves its member without one.
LEMMA NothingEligible ==
  ASSUME IInv, NEW m \in Members, NEW job, job = Job("training", m, 0, Budget),
         \A k \in 1 .. Budget : [member |-> m, line |-> LineAt(judged, m, k)] \in printed,
         Eligible(Whole(judged, job)) = {}
  PROVE  Barren(m)
<1>1. job.start = 0 /\ job.count = Budget /\ job.member = m
  BY DEF Job
<1> SUFFICES ASSUME NEW k \in 1 .. Budget \div SaveEvery
             PROVE  \E a \in printed : a.member = m /\ a.line.update = k * SaveEvery /\ ~a.line.retention.eligible
  BY DEF Barren
<1>2. 0 % SaveEvery = 0 /\ 0 \in Nat /\ Budget \in Nat
  BY Periods, DivUnique
<1>3. PICK u \in 1 .. Budget : u = k * SaveEvery
  BY <1>2, Fits
<1>4. u % SaveEvery = 0 /\ u \in Nat \ {0}
  BY <1>2, <1>3, Fits
<1>5. u % CheckEvery = 0
  BY <1>4, SaveIsCheck
<1>6. PICK a : a = [member |-> m, line |-> LineAt(judged, m, u)]
  OBVIOUS
<1>7. a \in printed /\ a.member = m /\ a.line = LineAt(judged, m, u)
  BY <1>6
<1>8. a.line.update = u /\ a.line.retention = ResultAt(judged, m, u \div CheckEvery)
  BY <1>5, <1>7, LineFields
<1>9. SavedAt(judged, m, u) \in ToSet(Whole(judged, job).checkpoints)
  <2>1. PICK q \in Nat : q = Budget \div SaveEvery
    BY <1>2, Periods, DivDef
  <2>2. PICK f : f = [i \in 1 .. q |-> SavedAt(judged, job.member, job.start + i * SaveEvery)]
    OBVIOUS
  <2>3. Whole(judged, job).checkpoints = f
    BY <1>1, <2>1, <2>2 DEF Whole
  <2>4. job.start + k * SaveEvery = u
    BY <1>1, <1>3
  <2>5. k \in DOMAIN f /\ f[k] = SavedAt(judged, m, u)
    BY <1>1, <2>1, <2>2, <2>4
  <2> QED BY <2>3, <2>5 DEF ToSet
<1>10. SavedAt(judged, m, u).id.selection = ResultAt(judged, m, u \div CheckEvery)
  BY ContentIs DEF SavedAt
<1>11. ~ResultAt(judged, m, u \div CheckEvery).eligible
  BY <1>9, <1>10 DEF Eligible
<1> QED BY <1>3, <1>7, <1>8, <1>11

LEMMA ThirdOfThree ==
  ASSUME NEW n \in Nat, (n + 1) % 3 = 0
  PROVE  /\ n >= 2 /\ n % 3 = 2 /\ (n - 1) % 3 = 1
         /\ (n - 1) \div 3 = n \div 3 /\ (n - 2) \div 3 = n \div 3
<1>1. PICK q \in Nat : n + 1 = 3 * q
  OBVIOUS
<1>2. PICK p \in Nat : n = 3 * p + 2
  <2>1. q # 0 /\ n = 3 * (q - 1) + 2
    BY <1>1
  <2> QED BY <2>1
<1> QED BY <1>2

LEMMA RejectStep ==
  ASSUME IInv, Working, process # Nowhere, process.pc = "exited",
         ~(process.code = "pass" /\ WellFormed /\ Accepted(Append(harness.done, Parsed)))
  PROVE  Cause
<1> SUFFICES ASSUME ~faulted, Smooth, ~(harness.kind = "training" /\ \E m \in Members : Barren(m))
             PROVE  FALSE
  BY DEF Cause
<1>1. PICK job : job = Current
  OBVIOUS
<1>2. /\ process.code = "pass" /\ Len(process.out.checkpoints) = job.count \div SaveEvery
      /\ \A k \in 1 .. Len(process.out.checkpoints) :
           process.out.checkpoints[k].update = job.start + k * SaveEvery
  BY <1>1, EndsWell
<1>3. WellFormed
  BY SmoothIsWellFormed
<1>4. Made = job.start + job.count /\ Parsed = Whole(judged, job)
  BY <1>1, <1>2, ParsedIs
<1>5. PICK n \in Nat : /\ n = Len(harness.done) /\ n + 1 \in 1 .. NumJobs(harness.kind)
                       /\ harness.kind \in Kinds /\ job = Jobs(harness.kind)[n + 1]
                       /\ job.start \in Nat /\ job.count \in Nat
  BY <1>1, OnJob, CurrentJob DEF IInv, Determined, Shape, DoneJob
<1>6. PICK done : done = Append(harness.done, Whole(judged, job))
  OBVIOUS
<1>7. /\ Len(done) = n + 1 /\ done[n + 1] = Whole(judged, job)
      /\ \A k \in 1 .. n : done[k] = Whole(judged, Jobs(harness.kind)[k])
  <2>1. harness.done = [k \in 1 .. n |-> Whole(judged, Jobs(harness.kind)[k])]
    BY <1>5 DEF IInv, DoneRight, DoneJob
  <2>2. PICK whole, f : whole = Whole(judged, job) /\ f = [k \in 1 .. n |-> Whole(judged, Jobs(harness.kind)[k])]
    OBVIOUS
  <2>3. f \in Seq({f[k] : k \in 1 .. n} \cup {whole}) /\ Len(f) = n
    BY <2>2
  <2>4. done = Append(f, whole)
    BY <1>6, <2>1, <2>2
  <2>5. /\ Len(done) = n + 1 /\ done[n + 1] = whole /\ \A k \in 1 .. n : done[k] = f[k]
    BY <2>3, <2>4
  <2> QED BY <2>2, <2>5
<1>8. ~Accepted(done)
  BY <1>2, <1>3, <1>4, <1>6
<1>9. PICK m \in Members : m = job.member
  BY <1>1, OnJob
<1>10. \A k \in 1 .. job.count : [member |-> m, line |-> LineAt(judged, m, job.start + k)] \in printed
  <2>1. Made - job.start = job.count
    BY <1>4, <1>5
  <2> QED BY <1>1, <1>9, <2>1, JobOf DEF Trains
<1>11. CASE harness.kind = "training"
  <2>1. job = Job("training", m, 0, Budget) /\ job.start = 0 /\ job.count = Budget
    <3>1. job = Job("training", InOrder[n + 1], 0, Budget)
      BY <1>5, <1>11, TrainingJob
    <3>2. job.member = InOrder[n + 1] /\ job.start = 0 /\ job.count = Budget
      BY <3>1 DEF Job
    <3> QED BY <1>9, <3>1, <3>2
  <2>2. \A k \in 1 .. Budget : [member |-> m, line |-> LineAt(judged, m, k)] \in printed
    <3>1. \A k \in 1 .. Budget : 0 + k = k
      BY Periods
    <3> QED BY <1>10, <2>1, <3>1
  <2>3. NoRegression(done[n + 1])
    <3>1. SUFFICES ASSUME NEW u \in ToSet(Whole(judged, job).updates), u.ran
                   PROVE  ~u.retention.catastrophic
      BY <1>7 DEF NoRegression
    <3>2. PICK k \in 1 .. job.count : u = LineAt(judged, m, job.start + k)
      BY <1>9 DEF Whole, ToSet
    <3>3. PICK a \in printed : a.line = u
      BY <1>10, <3>2
    <3> QED BY <3>1, <3>3 DEF Smooth
  <2>4. Eligible(done[n + 1]) # {}
    BY <1>7, <1>11, <2>1, <2>2, NothingEligible
  <2> QED BY <1>7, <1>8, <1>11, <2>3, <2>4 DEF Accepted
<1>12. CASE harness.kind = "recovery"
  <2>1. (n + 1) % 3 = 0
    BY <1>7, <1>8, <1>12 DEF Accepted
  <2>2. /\ n \in 1 .. NumJobs("recovery") /\ n - 1 \in 1 .. NumJobs("recovery")
        /\ n + 1 \in 1 .. NumJobs("recovery") /\ n % 3 = 2 /\ (n - 1) % 3 = 1
        /\ (n - 1) \div 3 = n \div 3 /\ (n - 2) \div 3 = n \div 3
        /\ (n + 1) - 1 = n /\ (n - 1) - 1 = n - 2 /\ (n + 1) - 2 = n - 1
        /\ n \in 1 .. n /\ n - 1 \in 1 .. n
    <3>1. PICK jobs \in Nat : jobs = NumJobs("recovery")
      BY JobsAre DEF Kinds
    <3>2. n + 1 <= jobs
      BY <1>5, <1>12, <3>1
    <3>3. /\ n >= 2 /\ n % 3 = 2 /\ (n - 1) % 3 = 1
          /\ (n - 1) \div 3 = n \div 3 /\ (n - 2) \div 3 = n \div 3
      BY <2>1, ThirdOfThree
    <3>4. /\ n \in 1 .. jobs /\ n - 1 \in 1 .. jobs /\ n + 1 \in 1 .. jobs
          /\ (n + 1) - 1 = n /\ (n - 1) - 1 = n - 2 /\ (n + 1) - 2 = n - 1
          /\ n \in 1 .. n /\ n - 1 \in 1 .. n
      BY <3>2, <3>3
    <3> QED BY <3>1, <3>3, <3>4
  <2>3. PICK who : who = InOrder[n \div 3 + 1]
    OBVIOUS
  <2>4. Jobs("recovery")[n - 1] = Job("uninterrupted", who, 0, Fork + SaveEvery)
    BY <2>2, <2>3, RecoveryJob
  <2>5. Jobs("recovery")[n] = Job("prefix", who, 0, Fork)
    BY <2>2, <2>3, RecoveryJob
  <2>6. Jobs("recovery")[n + 1] = Job("resumed", who, Fork, SaveEvery)
    BY <2>1, <2>2, <2>3, RecoveryJob
  <2>7. Exact(done[n - 1], done[n], done[n + 1])
    BY <1>5, <1>7, <1>12, <2>2, <2>4, <2>5, <2>6, ExactWhole
  <2>8. Accepted(done)
    <3>1. PICK l : l = Len(done) /\ l = n + 1 /\ l - 2 = n - 1 /\ l - 1 = n
      BY <1>7, <2>2
    <3>2. Exact(done[l - 2], done[l - 1], done[l])
      BY <2>7, <3>1
    <3> QED BY <1>12, <3>1, <3>2 DEF Accepted
  <2> QED BY <1>8, <2>8
<1> QED BY <1>5, <1>11, <1>12 DEF Kinds

LEMMA FinishStep ==
  ASSUME IInv, FinishJob
  PROVE  IInv'
<1>1. /\ Working /\ process # Nowhere /\ process.pc = "exited" /\ process' = Nowhere
      /\ UNCHANGED <<disk, byHand, judged, printed, faulted>>
  BY DEF FinishJob, Nowhere
<1>2. CASE process.code = "pass" /\ WellFormed /\ Accepted(Append(harness.done, Parsed))
  <2>1. harness' = [harness EXCEPT !.done = Append(@, Parsed)]
    BY <1>2 DEF FinishJob
  <2> QED BY <1>1, <1>2, <2>1, AcceptStep
<1>3. CASE ~(process.code = "pass" /\ WellFormed /\ Accepted(Append(harness.done, Parsed)))
  <2>1. Cause /\ HarnessFails
    BY <1>1, <1>3, RejectStep DEF FinishJob
  <2>2. Cause'
    BY <1>1, <2>1 DEF Cause, Smooth, Barren, HarnessFails, IInv, Determined, Shape
  <2> QED BY <1>1, <2>1, <2>2, FailingStep
<1> QED BY <1>2, <1>3

-----------------------------------------------------------------------------
(* The theorems.                                                           *)

LEMMA StepInv == IInv /\ [Next]_vars => IInv'
<1> SUFFICES ASSUME IInv, [Next]_vars PROVE IInv'
  OBVIOUS
<1>1. CASE Native
  BY <1>1, UpdateStep, SaveStep, AnnounceStep, ExitStep, RefuseStep, FailsStep DEF Native
<1>2. CASE Harness
  BY <1>2, LaunchStep, FinishStep, UnimprovedStep, ReportStep DEF Harness
<1>3. CASE ResumeByHand
  BY <1>3, ResumeStep
<1>4. CASE UNCHANGED vars
  <2>1. /\ process' = process /\ disk' = disk /\ harness' = harness /\ judged' = judged
        /\ printed' = printed /\ faulted' = faulted
    BY <1>4 DEF vars
  <2>2. Determined'
    BY <2>1 DEF Determined, Shape, OnPath, Checks, Member, Made, IInv
  <2>3. DoneRight' /\ Selected' /\ (harness'.status = "FAIL" => Cause')
    <3>1. Grows
      BY <2>1 DEF Grows, IInv, Determined, Shape
    <3> QED BY <2>1, <3>1, DoneKept, SelectedKept, CauseKept DEF IInv, Determined
  <2>4. RootsAhead'
    BY <2>1 DEF RootsAhead, IInv, Working, DoneJob, RootOf
  <2>5. OnCourse'
    <3>1. PICK job : job = Current
      OBVIOUS
    <3>2. Working /\ process # Nowhere => Trains(job)'
      <4> SUFFICES ASSUME Working, process # Nowhere PROVE Trains(job)'
        OBVIOUS
      <4>1. Trains(job)
        BY <3>1, JobOf
      <4> QED BY <2>1, <4>1 DEF Trains, Member, Made, RootOf
    <3>3. Working /\ process # Nowhere => Saves(job)'
      <4> SUFFICES ASSUME Working, process # Nowhere PROVE Saves(job)'
        OBVIOUS
      <4>1. Saves(job) /\ Announced(job)' = Announced(job) /\ Made' = Made /\ (Smooth' <=> Smooth)
        BY <2>1, <3>1, JobOf DEF Announced, Made, Smooth
      <4>2. PICK count, made : count = Announced(job) /\ made = Made
        OBVIOUS
      <4> QED BY <2>1, <4>1, <4>2 DEF Saves, RootOf
    <3>4. CASE process = Nowhere
      BY <2>1, <3>4 DEF OnCourse
    <3>5. CASE process # Nowhere
      BY <2>1, <3>1, <3>2, <3>3, <3>5, OnJob, SameJob
    <3> QED BY <3>4, <3>5
  <2> QED BY <2>2, <2>3, <2>4, <2>5 DEF IInv
<1> QED BY <1>1, <1>2, <1>3, <1>4 DEF Next

(* The inductive invariant: what is running, printed, published or kept is the *)
(* campaign of its member and updates, and a harness's process is on its job   *)
(* (m22_campaign.cpp, m22_checkpoint.cpp, run_m22_recovery.py).                *)
THEOREM Inductive == Spec => []IInv
<1>1. Init => IInv
  BY InitInv
<1>2. IInv /\ [Next]_vars => IInv'
  BY StepInv
<1> QED BY <1>1, <1>2, PTL DEF Spec

\* The invariant holds each line and each checkpoint to one form.
LEMMA OnlyOne == IInv => ExactRecovery
<1> SUFFICES ASSUME IInv PROVE ExactRecovery
  OBVIOUS
<1>1. ASSUME NEW a \in printed, NEW b \in printed, a.member = b.member, a.line.update = b.line.update
      PROVE  a = b
  <2>1. /\ a = [member |-> a.member, line |-> LineAt(judged, a.member, a.line.update)]
        /\ b = [member |-> b.member, line |-> LineAt(judged, b.member, b.line.update)]
    BY DEF IInv, Determined, PrintedAs
  <2> QED BY <1>1, <2>1
<1>2. ASSUME NEW r \in Roots, NEW s \in Roots, NEW c \in disk[r], NEW d \in disk[s],
             c.runtime.member = d.runtime.member, c.runtime.updates = d.runtime.updates
      PROVE  c = d
  <2>1. /\ c = ContentAt(judged, c.runtime.member, c.runtime.updates)
        /\ d = ContentAt(judged, d.runtime.member, d.runtime.updates)
    BY DEF IInv, Determined, PublishedAs
  <2> QED BY <1>2, <2>1
<1> QED BY <1>1, <1>2, Zenon DEF ExactRecovery

(* For any periods, members and budget, and however a campaign was broken off  *)
(* and resumed, an update is one update and a checkpoint one checkpoint        *)
(* (m22_checkpoint.cpp's state is enough to go on from).                       *)
THEOREM Recovers == Spec => []ExactRecovery
BY Inductive, OnlyOne, PTL

LEMMA NothingLost ==
  ASSUME NEW J, NEW m, NEW u \in Nat \ {0}, NEW v \in Nat \ {0},
         u % CheckEvery = 0, v % CheckEvery = 0, v <= u,
         ResultAt(J, m, u \div CheckEvery).allowed
  PROVE  ResultAt(J, m, v \div CheckEvery).passed \subseteq ResultAt(J, m, u \div CheckEvery).passed
<1>1. PICK n \in Nat \ {0} : n = u \div CheckEvery
  BY Periods, Quotient
<1>2. PICK k \in Nat \ {0} : k = v \div CheckEvery /\ k <= n
  BY <1>1, Periods, Quotient, DivMonotone
<1>3. ResultAt(J, m, n).passed = Verdict(J, m, n) /\ ResultAt(J, m, k).passed = Verdict(J, m, k)
  BY DEF ResultAt
<1>4. Mask(J, m, n - 1) \subseteq Verdict(J, m, n)
  <2>1. PICK mask, passed : mask = Mask(J, m, n - 1) /\ passed = Verdict(J, m, n)
    OBVIOUS
  <2>2. ResultAt(J, m, n).allowed = (~~(mask \subseteq passed))
    BY <2>1, ResultForm
  <2>3. ResultAt(J, m, n).allowed
    BY <1>1
  <2> QED BY <2>1, <2>2, <2>3
<1>5. CASE k = n
  BY <1>1, <1>2, <1>5
<1>6. CASE k < n
  <2>1. k \in 1 .. n - 1
    BY <1>6
  <2>2. Verdict(J, m, k) \subseteq Mask(J, m, n - 1)
    BY <2>1 DEF Mask
  <2> QED BY <1>1, <1>2, <1>3, <1>4, <2>2
<1> QED BY <1>2, <1>5, <1>6

LEMMA KeepsWhatPassed == IInv => Retained
<1> SUFFICES ASSUME IInv PROVE Retained
  OBVIOUS
<1>1. ASSUME NEW r \in Roots, NEW c \in disk[r], NEW a \in printed,
             a.member = c.runtime.member, a.line.ran, a.line.update <= c.runtime.updates
      PROVE  a.line.retention.passed \subseteq c.selection.passed
  <2>1. PICK m : m = c.runtime.member
    OBVIOUS
  <2>2. PICK u \in Nat \ {0} : /\ u = c.runtime.updates /\ u % SaveEvery = 0 /\ c = ContentAt(judged, m, u)
                              /\ ResultAt(judged, m, u \div CheckEvery).allowed
    BY <2>1 DEF IInv, Determined, PublishedAs
  <2>3. PICK v \in Nat \ {0} : v = a.line.update /\ a.line = LineAt(judged, m, v) /\ v <= u
    <3>1. PrintedAs(judged, a)
      BY DEF IInv, Determined
    <3>2. a.line.update \in Nat \ {0}
      BY <3>1, Periods DEF PrintedAs
    <3>3. a = [member |-> a.member, line |-> LineAt(judged, a.member, a.line.update)]
      BY <3>1 DEF PrintedAs
    <3>4. PICK line : line = LineAt(judged, a.member, a.line.update)
      OBVIOUS
    <3>5. a.line = line
      BY <3>3, <3>4
    <3> QED BY <1>1, <2>1, <2>2, <3>2, <3>4, <3>5
  <2>4. v % CheckEvery = 0 /\ a.line.retention = ResultAt(judged, m, v \div CheckEvery)
    BY <1>1, <2>3, LineFields
  <2>5. u % CheckEvery = 0 /\ c.selection = ResultAt(judged, m, u \div CheckEvery)
    BY <2>2, SaveIsCheck, ContentIs
  <2> QED BY <2>2, <2>3, <2>4, <2>5, NothingLost
<1>2. Selected
  BY DEF IInv
<1> QED BY <1>1, <1>2 DEF Retained, Selected

(* No published checkpoint has lost a program that its member passed before, in *)
(* whatever process, and what is selected passes all its stage introduced       *)
(* (m22_campaign.cpp evaluate_development, checkpoint_allowed).                 *)
THEOREM Keeps == Spec => []Retained
BY Inductive, KeepsWhatPassed, PTL

LEMMA CauseIsOne == IInv => FailsOnlyForCause
<1> DEFINE Due == {n \in 1 .. Budget : n % SaveEvery = 0}
<1> SUFFICES ASSUME IInv, harness.status = "FAIL", ~faulted,
                    ~\E a \in printed : a.line.ran /\ a.line.retention.catastrophic
             PROVE  /\ harness.kind = "training"
                    /\ \E m \in Members : \A u \in Due : \E a \in printed :
                         a.member = m /\ a.line.update = u /\ ~a.line.retention.eligible
  BY DEF FailsOnlyForCause
<1>1. harness.kind = "training" /\ \E m \in Members : Barren(m)
  BY DEF IInv, Cause, Smooth
<1>2. PICK m \in Members : Barren(m)
  BY <1>1
<1>3. ASSUME NEW u \in Due
      PROVE  \E a \in printed : a.member = m /\ a.line.update = u /\ ~a.line.retention.eligible
  <2>1. PICK k \in Nat \ {0} : k = u \div SaveEvery /\ k * SaveEvery = u
    <3>1. u \in Nat \ {0} /\ u % SaveEvery = 0 /\ SaveEvery \in Nat \ {0}
      BY Periods
    <3> QED BY <3>1, Quotient
  <2>2. k \in 1 .. Budget \div SaveEvery
    <3>1. u \in Nat /\ Budget \in Nat /\ u <= Budget
      BY Periods
    <3>2. u \div SaveEvery <= Budget \div SaveEvery /\ Budget \div SaveEvery \in Nat
      BY <3>1, Periods, DivMonotone, DivDef
    <3> QED BY <2>1, <3>2
  <2> QED BY <1>2, <2>1, <2>2 DEF Barren
<1> QED BY <1>1, <1>3

(* A harness never takes a whole run for a broken one: it fails for a fault, a  *)
(* regression, or a member that ran its budget and has no eligible checkpoint   *)
(* (run_m22_recovery.py parse_output, compare_run, run_m22_training.py).        *)
THEOREM FailsForCause == Spec => []FailsOnlyForCause
BY Inductive, CauseIsOne, PTL

=============================================================================
