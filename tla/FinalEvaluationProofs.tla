----------------------- MODULE FinalEvaluationProofs -----------------------
(***************************************************************************)
(* What the one-shot evaluations guarantee for any number of processes,    *)
(* suites and cases: no case is ever attempted twice, and evidence says no *)
(* more than what was done.                                                *)
(***************************************************************************)
EXTENDS FinalEvaluation, SequenceTheorems, TLAPS

LEMMA OutcomeInSeq ==
  ASSUME NEW its \in Seq(Outcome), NEW answer \in Answers, NEW native \in BOOLEAN
  PROVE  /\ Append(its, [learned |-> answer, native |-> native]) \in Seq(Outcome)
         /\ Len(Append(its, [learned |-> answer, native |-> native])) = Len(its) + 1
         /\ Len(its) \in Nat
<1>1. [learned |-> answer, native |-> native] \in Outcome
  BY DEF Outcome
<1> QED BY <1>1, AppendProperties

LEMMA OneMore ==
  ASSUME NEW D, NEW f \in [D -> Nat], NEW x
  PROVE  [f EXCEPT ![x] = f[x] + 1] \in [D -> Nat]
<1> DEFINE g == [f EXCEPT ![x] = f[x] + 1]
<1>1. ASSUME NEW d \in D PROVE g[d] \in Nat
  <2>1. CASE d = x
    <3>1. f[x] + 1 \in Nat
      BY <2>1
    <3> QED BY <2>1, <3>1
  <2>2. CASE d # x
    BY <2>2
  <2> QED BY <2>1, <2>2
<1> QED BY <1>1

LEMMA ConcludedIsReport ==
  ASSUME NEW s, NEW its \in Seq(Outcome)
  PROVE  Concluded(s, its) \in Report
BY DEF Concluded, Report, Accepted, Flawless

LEMMA TypesAtFirst == Init => TypeOK
<1> SUFFICES ASSUME Init PROVE TypeOK
  OBVIOUS
<1>1. <<>> \in Seq(Outcome)
  OBVIOUS
<1>2. report \in [Suites -> Report]
  BY <1>1 DEF Init, NoReport, Report
<1> QED BY <1>1, <1>2, FinalEvaluationAssumption DEF Init, TypeOK, Answers, Suites

LEMMA TypesAfter == TypeOK /\ [Next]_vars => TypeOK'
<1>1. TypeOK /\ UNCHANGED vars => TypeOK'
  BY DEF vars, durable, TypeOK
<1>2. SUFFICES ASSUME TypeOK, NEW r \in Runners, Step(r) PROVE TypeOK'
  BY <1>1 DEF Next
<1> USE DEF TypeOK, Goto, Raise, durable
<1>3. ASSUME NEW s \in Suites, Start(r, s) PROVE TypeOK'
  <2>1. <<>> \in Seq(Outcome)
    OBVIOUS
  <2> QED BY <1>2, <1>3, <2>1 DEF Start
<1>4. ASSUME MakeRoot(r) PROVE TypeOK'
  BY <1>2, <1>4 DEF MakeRoot
<1>5. CASE Preflight(r) \/ Fails(r) \/ Validate(r)
  BY <1>2, <1>5 DEF Preflight, Fails, Validate
<1>6. CASE ReadManifest(r)
  <2>1. reads' \in [Suites -> Nat]
    BY <1>2, <1>6, OneMore DEF ReadManifest
  <2> QED BY <1>2, <1>6, <2>1 DEF ReadManifest
<1>7. CASE Evaluate(r)
  <2>1. attempts' \in [Suites \X Cases -> Nat]
    BY <1>2, <1>7, OneMore DEF Evaluate
  <2> QED BY <1>2, <1>7, <2>1 DEF Evaluate
<1>8. CASE Dispatch(r)
  <2>1. dispatches' \in [Suites \X Cases -> Nat]
    BY <1>2, <1>8, OneMore DEF Dispatch
  <2>2. ASSUME NEW native \in BOOLEAN,
               records' = [records EXCEPT ![suite[r]] = Append(@, [learned |-> learned[r], native |-> native])],
               runs' = [runs EXCEPT ![r] = Append(@, [learned |-> learned[r], native |-> native])]
        PROVE  records' \in [Suites -> Seq(Outcome)] /\ runs' \in [Runners -> Seq(Outcome)]
    <3> DEFINE run == [learned |-> learned[r], native |-> native]
    <3>1. Append(records[suite[r]], run) \in Seq(Outcome) /\ Append(runs[r], run) \in Seq(Outcome)
      BY <1>2, OutcomeInSeq
    <3>2. records' = [records EXCEPT ![suite[r]] = Append(@, run)] /\ runs' = [runs EXCEPT ![r] = Append(@, run)]
      BY <2>2
    <3> HIDE DEF run
    <3> QED BY <1>2, <3>1, <3>2
  <2>3. records' \in [Suites -> Seq(Outcome)] /\ runs' \in [Runners -> Seq(Outcome)]
    <3>1. CASE Raise(r, "dispatch") /\ UNCHANGED <<records, runs>>
      BY <1>2, <3>1
    <3>2. ASSUME NEW native \in BOOLEAN,
                 Goto(r, "dispatch", IF NextCase(r) = NumCases THEN "report" ELSE "evaluate"),
                 records' = [records EXCEPT ![suite[r]] = Append(@, [learned |-> learned[r], native |-> native])],
                 runs' = [runs EXCEPT ![r] = Append(@, [learned |-> learned[r], native |-> native])]
          PROVE  records' \in [Suites -> Seq(Outcome)] /\ runs' \in [Runners -> Seq(Outcome)]
      BY <2>2, <3>2
    <3> QED BY <1>8, <3>1, <3>2 DEF Dispatch
  <2>4. pc' \in [Runners -> {"idle", "checked", "preflight", "manifest", "evaluate",
                      "dispatch", "report", "create", "flush"}]
    BY <1>2, <1>8 DEF Dispatch
  <2> QED BY <1>2, <1>8, <2>1, <2>3, <2>4 DEF Dispatch
<1>9. CASE Create(r)
  BY <1>2, <1>9 DEF Create
<1>10. CASE Flush(r)
  BY <1>2, <1>10, ConcludedIsReport DEF Flush
<1> QED BY <1>2, <1>3, <1>4, <1>5, <1>6, <1>7, <1>8, <1>9, <1>10 DEF Step

(* All state has its types.                                                 *)
THEOREM Types == Spec => []TypeOK
BY TypesAtFirst, TypesAfter, PTL DEF Spec

-----------------------------------------------------------------------------
(* The inductive invariant: whoever made a suite's root works on it alone,  *)
(* and what is on disk is what its own progress says.                       *)

Working(r) == pc[r] \notin {"idle", "checked"}

Fresh(s) ==
  /\ reads[s] = 0 /\ records[s] = <<>> /\ evidence[s] = "absent"
  /\ \A k \in Cases : attempts[<<s, k>>] = 0 /\ dispatches[<<s, k>>] = 0

Up(s, evaluated, played) ==
  /\ reads[s] = 1
  /\ \A k \in Cases :
       /\ attempts[<<s, k>>] = IF k <= evaluated THEN 1 ELSE 0
       /\ dispatches[<<s, k>>] = IF k <= played THEN 1 ELSE 0

Progress(r) ==
  LET s == suite[r] n == Len(runs[r]) IN
  /\ pc[r] # "idle" => \A earlier \in 1 .. s - 1 : evidence[earlier] = "whole"
  /\ pc[r] = "checked" => runs[r] = <<>>
  /\ Working(r) => s \in root /\ records[s] = runs[r]
  /\ pc[r] \in {"preflight", "manifest"} => Fresh(s)
  /\ pc[r] = "evaluate" => Up(s, n, n) /\ n < NumCases
  /\ pc[r] = "dispatch" => Up(s, n + 1, n) /\ n < NumCases
  /\ pc[r] \in {"report", "create", "flush"} => Up(s, n, n) /\ n = NumCases
  /\ pc[r] \in {"evaluate", "dispatch", "report", "create"} => evidence[s] = "absent"
  /\ pc[r] = "flush" => evidence[s] = "torn"

Exclusive ==
  \A r1, r2 \in Runners : Working(r1) /\ Working(r2) /\ suite[r1] = suite[r2] => r1 = r2

IInv ==
  /\ TypeOK /\ Exclusive
  /\ \A r \in Runners : Progress(r)
  /\ \A s \in Suites : s \notin root => Fresh(s)
  /\ AttemptedOnce /\ EvidenceIsEarned

-----------------------------------------------------------------------------
(* A step is its process's own, and touches one suite: the one it works on, *)
(* or the one whose root it makes.                                          *)

Same(s) ==
  /\ reads'[s] = reads[s] /\ records'[s] = records[s]
  /\ evidence'[s] = evidence[s] /\ report'[s] = report[s]
  /\ \A k \in Cases : attempts'[<<s, k>>] = attempts[<<s, k>>] /\ dispatches'[<<s, k>>] = dispatches[<<s, k>>]

Own(r) ==
  /\ \A q \in Runners \ {r} : pc'[q] = pc[q] /\ suite'[q] = suite[q] /\ runs'[q] = runs[q]
  /\ \A s \in Suites : s # suite'[r] => Same(s)
  /\ root \subseteq root' /\ root' \subseteq root \cup {suite'[r]}
  /\ \A s \in Suites : evidence[s] = "whole" => evidence'[s] = "whole"
  /\ \/ Same(suite'[r]) /\ root' = root /\ (Working(r)' => Working(r) /\ suite'[r] = suite[r])
     \/ Working(r) /\ suite'[r] = suite[r]
     \/ suite[r] \notin root /\ suite'[r] = suite[r]

LEMMA Elsewhere ==
  ASSUME IInv, TypeOK', NEW r \in Runners, Own(r), Progress(r)', NEW s \in Suites, s = suite'[r],
         (s \notin root => Fresh(s))', Once(s)', (evidence[s] = "whole" => Earned(s))',
         s \in root' => \A earlier \in 1 .. s - 1 : evidence'[earlier] = "whole"
  PROVE  IInv'
<1> USE DEF IInv, TypeOK
<1>0. /\ \A q \in Runners : Working(q) => suite[q] \in root
      /\ \A t \in Suites : \A earlier \in 1 .. t - 1 : earlier \in Suites
  <2>1. \A q \in Runners : Working(q) => suite[q] \in root
    BY DEF Progress
  <2>2. \A t \in Suites : \A earlier \in 1 .. t - 1 : earlier \in Suites
    BY FinalEvaluationAssumption DEF Suites
  <2> QED BY <2>1, <2>2
<1>1. Exclusive'
  <2>1. ASSUME NEW q \in Runners, q # r, Working(q)', Working(r)', suite'[q] = suite'[r] PROVE FALSE
    <3>1. pc'[q] = pc[q] /\ suite'[q] = suite[q] /\ Working(q)
      BY <2>1 DEF Own, Working
    <3> QED BY <1>0, <2>1, <3>1 DEF Own, Exclusive
  <2>2. ASSUME NEW q1 \in Runners, NEW q2 \in Runners, q1 # r, q2 # r,
               Working(q1)', Working(q2)', suite'[q1] = suite'[q2] PROVE q1 = q2
    BY <2>2 DEF Own, Exclusive, Working
  <2> QED BY <2>1, <2>2 DEF Exclusive
<1>2. ASSUME NEW q \in Runners PROVE Progress(q)'
  <2>1. CASE q = r
    BY <2>1
  <2>2. CASE q # r
    <3>1. pc'[q] = pc[q] /\ suite'[q] = suite[q] /\ runs'[q] = runs[q] /\ suite[q] \in Suites
      BY <2>2 DEF Own
    <3>2. pc[q] # "idle" => \A earlier \in 1 .. suite[q] - 1 : evidence'[earlier] = "whole"
      BY <1>0 DEF Own, Progress
    <3>3. Working(q) => Same(suite[q])
      BY <1>0, <2>2, <3>1 DEF Own, Exclusive
    <3>4. CASE ~Working(q)
      BY <3>1, <3>2, <3>4 DEF Progress, Working
    <3>5. CASE Working(q)
      <4> DEFINE t == suite[q]
      <4>1. Same(t) /\ t \in root' /\ Progress(q)
        BY <1>0, <3>3, <3>5 DEF Own
      <4>2. (Fresh(t) => Fresh(t)') /\ \A i, j : Up(t, i, j) => Up(t, i, j)'
        BY <3>1, <4>1 DEF Same, Fresh, Up
      <4>3. records'[t] = records[t] /\ evidence'[t] = evidence[t]
        BY <4>1 DEF Same
      <4> QED BY ONLY <3>1, <3>2, <3>5, <4>1, <4>2, <4>3 DEF Progress, Working
    <3> QED BY <3>4, <3>5
  <2> QED BY <2>1, <2>2
<1>3. ASSUME NEW t \in Suites, t # s
      PROVE  /\ (t \notin root => Fresh(t))' /\ Once(t)' /\ (evidence[t] = "whole" => Earned(t))'
             /\ t \in root' => \A earlier \in 1 .. t - 1 : evidence'[earlier] = "whole"
  <2>1. Same(t)
    BY <1>3 DEF Own
  <2>2. (t \notin root => Fresh(t))'
    BY <1>3, <2>1 DEF Own, Fresh, Same
  <2>3. Once(t)'
    BY <2>1 DEF AttemptedOnce, Once, Same
  <2>4. (evidence[t] = "whole" => Earned(t))'
    <3>1. AllGood(t)' <=> AllGood(t)
      BY ONLY <2>1 DEF AllGood, Same
    <3>2. Earned(t) => Earned(t)'
      BY ONLY <2>1, <3>1 DEF Earned, Same
    <3> QED BY <2>1, <3>2 DEF EvidenceIsEarned, Same
  <2>5. t \in root' => \A earlier \in 1 .. t - 1 : evidence'[earlier] = "whole"
    BY <1>0, <1>3 DEF EvidenceIsEarned, Own
  <2> QED BY <2>2, <2>3, <2>4, <2>5
<1>4. AttemptedOnce'
  BY <1>3 DEF AttemptedOnce
<1>5. EvidenceIsEarned'
  BY <1>3 DEF EvidenceIsEarned
<1> QED BY <1>1, <1>2, <1>3, <1>4, <1>5

LEMMA IInvAtFirst == Init => IInv
<1> SUFFICES ASSUME Init PROVE IInv
  OBVIOUS
<1>1. TypeOK
  BY TypesAtFirst
<1>2. \A s \in Suites : Fresh(s) /\ Once(s) /\ evidence[s] = "absent"
  BY DEF Init, Fresh, Once
<1>3. \A r \in Runners : Progress(r)
  BY DEF Init, Progress, Working
<1> QED BY <1>1, <1>2, <1>3 DEF Init, IInv, Exclusive, Working, AttemptedOnce, EvidenceIsEarned

LEMMA UpIsOnce ==
  ASSUME NEW t \in Suites, NEW i \in Nat, NEW j \in Nat, j <= i, i <= j + 1, Up(t, i, j)
  PROVE  Once(t)
BY DEF Up, Once, Cases

LEMMA IInvAfter == IInv /\ [Next]_vars => IInv'
<1>0. IInv /\ UNCHANGED vars => IInv'
  BY DEF vars, durable, IInv, TypeOK, Exclusive, Progress, Fresh, Up, Working, AttemptedOnce, Once,
         EvidenceIsEarned, Earned, AllGood
<1>1. SUFFICES ASSUME IInv, NEW r \in Runners, Step(r) PROVE IInv'
  BY <1>0 DEF Next
<1>2. TypeOK /\ TypeOK'
  BY <1>1, TypesAfter DEF Next, IInv
<1> DEFINE s == suite[r]
           n == Len(runs[r])
<1>3. s \in Suites /\ n \in Nat /\ runs[r] \in Seq(Outcome) /\ records[s] \in Seq(Outcome)
  BY <1>2 DEF TypeOK
<1>4. Progress(r) /\ (s \notin root => Fresh(s)) /\ Once(s) /\ (evidence[s] = "whole" => Earned(s))
      /\ (s \in root => \A earlier \in 1 .. s - 1 : evidence[earlier] = "whole")
  BY <1>1, <1>3 DEF IInv, AttemptedOnce, EvidenceIsEarned
<1> USE DEF Goto, Raise, durable
<1>5. ASSUME NEW t \in Suites, Start(r, t) PROVE IInv'
  <2>1. Own(r) /\ suite'[r] = t
    BY <1>2, <1>5 DEF Start, Own, Same, Working, TypeOK
  <2>2. Progress(r)'
    BY <1>2, <1>5 DEF Start, Progress, Working, TypeOK, Immutable
  <2>3. (t \notin root => Fresh(t))' /\ Once(t)' /\ (evidence[t] = "whole" => Earned(t))'
    BY <1>1, <1>5 DEF Start, IInv, Fresh, AttemptedOnce, Once
  <2>4. t \in root' => \A earlier \in 1 .. t - 1 : evidence'[earlier] = "whole"
    BY <1>5 DEF Start
  <2> QED BY <1>1, <1>2, <2>1, <2>2, <2>3, <2>4, Elsewhere
<1>6. CASE MakeRoot(r)
  <2>1. Own(r) /\ suite'[r] = s
    BY <1>2, <1>3, <1>6 DEF MakeRoot, Own, Same, TypeOK
  <2>2. Progress(r)'
    BY <1>2, <1>3, <1>4, <1>6 DEF MakeRoot, Progress, Working, TypeOK, Fresh
  <2>3. (s \notin root => Fresh(s))' /\ Once(s)' /\ (evidence[s] = "whole" => Earned(s))'
    BY <1>4, <1>6 DEF MakeRoot, Fresh, Once
  <2>4. s \in root' => \A earlier \in 1 .. s - 1 : evidence'[earlier] = "whole"
    BY <1>4, <1>6 DEF MakeRoot, Progress
  <2> QED BY <1>1, <1>2, <1>3, <2>1, <2>2, <2>3, <2>4, Elsewhere
<1>7. CASE Preflight(r) \/ Validate(r) \/ Fails(r)
  <2>1. Own(r) /\ suite'[r] = s
    BY <1>2, <1>3, <1>7 DEF Preflight, Validate, Fails, Own, Same, TypeOK, Working
  <2>2. Progress(r)'
    BY <1>2, <1>3, <1>4, <1>7 DEF Preflight, Validate, Fails, Progress, Working, TypeOK, Fresh, Up
  <2>3. (s \notin root => Fresh(s))' /\ Once(s)' /\ (evidence[s] = "whole" => Earned(s))'
    BY <1>4, <1>7 DEF Preflight, Validate, Fails, Fresh, Once, Earned, AllGood
  <2>4. s \in root' => \A earlier \in 1 .. s - 1 : evidence'[earlier] = "whole"
    BY <1>4, <1>7 DEF Preflight, Validate, Fails
  <2> QED BY <1>1, <1>2, <1>3, <2>1, <2>2, <2>3, <2>4, Elsewhere
<1>8. CASE ReadManifest(r)
  <2>1. Own(r) /\ suite'[r] = s
    BY <1>2, <1>3, <1>4, <1>8 DEF ReadManifest, Own, Same, TypeOK, Working
  <2>2. n = 0 /\ reads'[s] = 1 /\ Up(s, 0, 0)'
    BY <1>2, <1>3, <1>4, <1>8 DEF ReadManifest, Progress, Working, TypeOK, Fresh, Up, Cases
  <2>3. Once(s)' /\ (s \notin root => Fresh(s))' /\ (evidence[s] = "whole" => Earned(s))'
    BY <1>3, <1>4, <1>8, <2>1, <2>2, UpIsOnce DEF ReadManifest, Progress, Working, Fresh, Up, Once, Cases
  <2>5. Progress(r)'
    BY <1>2, <1>3, <1>4, <1>8, <2>2, FinalEvaluationAssumption DEF ReadManifest, Progress, Working, TypeOK, Fresh
  <2>4. s \in root' => \A earlier \in 1 .. s - 1 : evidence'[earlier] = "whole"
    BY <1>3, <1>4, <1>8 DEF ReadManifest, Progress
  <2> QED BY <1>1, <1>2, <1>3, <2>1, <2>2, <2>3, <2>4, <2>5, Elsewhere
<1>9. CASE Evaluate(r)
  <2>1. Own(r) /\ suite'[r] = s
    BY <1>2, <1>3, <1>4, <1>9 DEF Evaluate, Own, Same, TypeOK, Working
  <2>2. n < NumCases /\ Up(s, n + 1, n)'
    <3>1. Up(s, n, n) /\ n < NumCases
      BY <1>4, <1>9 DEF Evaluate, Progress
    <3>2. ASSUME NEW k \in Cases
          PROVE  attempts'[<<s, k>>] = IF k = n + 1 THEN attempts[<<s, k>>] + 1 ELSE attempts[<<s, k>>]
      BY <1>2, <1>3, <1>9 DEF Evaluate, NextCase, TypeOK
    <3>3. ASSUME NEW k \in Cases
          PROVE  /\ attempts'[<<s, k>>] = IF k <= n + 1 THEN 1 ELSE 0
                 /\ dispatches'[<<s, k>>] = IF k <= n THEN 1 ELSE 0
      <4>1. /\ attempts[<<s, k>>] = IF k <= n THEN 1 ELSE 0
            /\ dispatches'[<<s, k>>] = IF k <= n THEN 1 ELSE 0
        BY <1>9, <3>1 DEF Evaluate, Up
      <4>2. k \in Nat
        BY DEF Cases
      <4> QED BY ONLY <1>3, <3>2, <4>1, <4>2
    <3>4. reads' = reads /\ runs' = runs /\ suite' = suite /\ reads[s] = 1
      BY <1>9, <3>1 DEF Evaluate, Up
    <3> QED BY ONLY <3>1, <3>3, <3>4 DEF Up
  <2>3. Once(s)' /\ (s \notin root => Fresh(s))' /\ (evidence[s] = "whole" => Earned(s))'
    <3>1. Once(s)'
      BY <1>3, <2>2 DEF Up, Once, Cases
    <3> QED BY <1>3, <1>4, <1>9, <3>1 DEF Evaluate, Progress, Working
  <2>5. Progress(r)'
    BY <1>2, <1>3, <1>4, <1>9, <2>2 DEF Evaluate, Progress, Working, TypeOK
  <2>4. s \in root' => \A earlier \in 1 .. s - 1 : evidence'[earlier] = "whole"
    BY <1>3, <1>4, <1>9 DEF Evaluate, Progress
  <2> QED BY <1>1, <1>2, <1>3, <2>1, <2>2, <2>3, <2>4, <2>5, Elsewhere
<1>10. CASE Dispatch(r)
  <2>1. Own(r) /\ suite'[r] = s
    BY <1>2, <1>3, <1>4, <1>10 DEF Dispatch, Own, Same, TypeOK, Working
  <2>2. n < NumCases /\ \A i \in Nat : i = n + 1 => Up(s, i, i)'
    <3>1. Up(s, n + 1, n) /\ n < NumCases
      BY <1>4, <1>10 DEF Dispatch, Progress
    <3>2. ASSUME NEW k \in Cases
          PROVE  dispatches'[<<s, k>>] = IF k = n + 1 THEN dispatches[<<s, k>>] + 1 ELSE dispatches[<<s, k>>]
      BY <1>2, <1>3, <1>10 DEF Dispatch, NextCase, TypeOK
    <3>3. ASSUME NEW k \in Cases
          PROVE  /\ attempts'[<<s, k>>] = IF k <= n + 1 THEN 1 ELSE 0
                 /\ dispatches'[<<s, k>>] = IF k <= n + 1 THEN 1 ELSE 0
      BY <1>3, <1>10, <3>1, <3>2 DEF Dispatch, Up, Cases
    <3>4. reads' = reads /\ suite' = suite /\ reads[s] = 1
      BY <1>10, <3>1 DEF Dispatch, Up
    <3> QED BY ONLY <3>1, <3>3, <3>4 DEF Up
  <2>3. Once(s)' /\ (s \notin root => Fresh(s))' /\ (evidence[s] = "whole" => Earned(s))'
    <3>1. Once(s)'
      BY <1>3, <2>2, UpIsOnce DEF Up, Once, Cases
    <3> QED BY <1>3, <1>4, <1>10, <3>1 DEF Dispatch, Progress, Working
  <2>5. Progress(r)'
    <3>1. CASE Raise(r, "dispatch")
      BY <1>2, <1>4, <1>10, <3>1 DEF Dispatch, Progress, Working, TypeOK
    <3>2. ASSUME NEW native \in BOOLEAN,
                 Goto(r, "dispatch", IF NextCase(r) = NumCases THEN "report" ELSE "evaluate"),
                 records' = [records EXCEPT ![suite[r]] = Append(@, [learned |-> learned[r], native |-> native])],
                 runs' = [runs EXCEPT ![r] = Append(@, [learned |-> learned[r], native |-> native])]
          PROVE  Progress(r)'
      <4> DEFINE run == [learned |-> learned[r], native |-> native]
      <4>1. records[s] = runs[r] /\ s \in root
        BY <1>4, <3>2 DEF Progress, Working
      <4>2. Len(Append(runs[r], run)) = n + 1
        BY <1>2, <1>3, OutcomeInSeq DEF TypeOK
      <4>3. records' = [records EXCEPT ![suite[r]] = Append(@, run)] /\ runs' = [runs EXCEPT ![r] = Append(@, run)]
        BY <3>2
      <4> HIDE DEF run
      <4>4. runs'[r] = Append(runs[r], run) /\ records'[s] = runs'[r]
        BY <1>2, <1>3, <4>1, <4>3 DEF TypeOK
      <4>5. pc'[r] = IF n + 1 = NumCases THEN "report" ELSE "evaluate"
        BY <1>2, <3>2 DEF TypeOK, NextCase
      <4>6. Len(runs'[r]) = n + 1 /\ suite'[r] = s /\ evidence'[s] = "absent" /\ s \in root'
        BY <1>4, <1>10, <2>1, <3>2, <4>1, <4>2, <4>4 DEF Dispatch, Progress
      <4>7. \A earlier \in 1 .. s - 1 : evidence'[earlier] = "whole"
        BY <1>4, <1>10, <4>1 DEF Dispatch
      <4>8. CASE n + 1 = NumCases
        BY <1>3, <2>2, <4>4, <4>5, <4>6, <4>7, <4>8 DEF Progress, Working
      <4>9. CASE n + 1 # NumCases
        BY <1>3, <2>2, <4>4, <4>5, <4>6, <4>7, <4>9, FinalEvaluationAssumption DEF Progress, Working
      <4> QED BY <4>8, <4>9
    <3> QED BY <1>10, <3>1, <3>2 DEF Dispatch
  <2>4. s \in root' => \A earlier \in 1 .. s - 1 : evidence'[earlier] = "whole"
    BY <1>3, <1>4, <1>10 DEF Dispatch, Progress
  <2> QED BY <1>1, <1>2, <1>3, <2>1, <2>2, <2>3, <2>4, <2>5, Elsewhere
<1>11. CASE Create(r)
  <2>1. Own(r) /\ suite'[r] = s
    BY <1>2, <1>3, <1>4, <1>11 DEF Create, Own, Same, TypeOK, Working
  <2>2. Progress(r)'
    BY <1>2, <1>3, <1>4, <1>11 DEF Create, Progress, Working, TypeOK, Fresh, Up
  <2>3. (s \notin root => Fresh(s))' /\ Once(s)' /\ (evidence[s] = "whole" => Earned(s))'
    BY <1>2, <1>3, <1>4, <1>11 DEF Create, Fresh, Once, Progress, Working, Up, TypeOK
  <2>4. s \in root' => \A earlier \in 1 .. s - 1 : evidence'[earlier] = "whole"
    BY <1>3, <1>4, <1>11 DEF Create, Progress
  <2> QED BY <1>1, <1>2, <1>3, <2>1, <2>2, <2>3, <2>4, Elsewhere
<1>12. CASE Flush(r)
  <2>1. Own(r) /\ suite'[r] = s
    BY <1>2, <1>3, <1>4, <1>12 DEF Flush, Own, Same, TypeOK, Working
  <2>2. Progress(r)'
    BY <1>2, <1>3, <1>4, <1>12 DEF Flush, Progress, Working, TypeOK, Fresh, Up
  <2>3. (s \notin root => Fresh(s))' /\ Once(s)' /\ (evidence[s] = "whole" => Earned(s))'
    <3>1. n = NumCases /\ Up(s, n, n) /\ records[s] = runs[r] /\ s \in root
      BY <1>4, <1>12 DEF Flush, Progress, Working
    <3>2. report'[s] = Concluded(s, runs[r]) /\ records' = records
      BY <1>2, <1>3, <1>12 DEF Flush, TypeOK
    <3>3. Flawless(runs[r]) <=> AllGood(s)
      BY <1>3, <3>1 DEF Flawless, AllGood, Cases
    <3>4. Accepted(s, runs[r]) => AllGood(s)
      BY <1>3, <3>1 DEF Accepted, AllGood, Cases, Good
    <3>5. Earned(s)'
      <4>1. AllGood(s)' <=> AllGood(s)
        BY <1>12, <3>2 DEF AllGood, Flush
      <4>2. report'[s].runs = runs[r] /\ (report'[s].passed <=> Accepted(s, runs[r]))
            /\ (report'[s].flawless <=> Flawless(runs[r]))
        BY ONLY <3>2 DEF Concluded
      <4>3. reads'[s] = 1 /\ \A k \in Cases : attempts'[<<s, k>>] = 1 /\ dispatches'[<<s, k>>] = 1
        BY <1>12, <3>1 DEF Flush, Up, Cases
      <4>4. suite'[r] = s
        BY <1>12 DEF Flush
      <4> QED BY <3>1, <3>2, <3>3, <3>4, <4>1, <4>2, <4>3, <4>4 DEF Earned
    <3> QED BY <1>4, <1>12, <3>1, <3>5 DEF Flush, Once
  <2>4. s \in root' => \A earlier \in 1 .. s - 1 : evidence'[earlier] = "whole"
    BY <1>3, <1>4, <1>12 DEF Flush, Progress
  <2> QED BY <1>1, <1>2, <1>3, <2>1, <2>2, <2>3, <2>4, Elsewhere
<1> QED BY <1>1, <1>5, <1>6, <1>7, <1>8, <1>9, <1>10, <1>11, <1>12 DEF Step

(* The invariant that carries both properties holds.                        *)
THEOREM Inductive == Spec => []IInv
BY IInvAtFirst, IInvAfter, PTL DEF Spec

(* However many processes are started for a suite, at once or after one     *)
(* another has died, its manifest is read once at the most and each of its  *)
(* cases is evaluated and played once at the most, in order.                *)
THEOREM NoSecondAttempt == Spec => []AttemptedOnce
BY Inductive, PTL DEF IInv

(* Whole evidence reports every case of its suite, and nothing better than  *)
(* what the case records say; later suites wait for it.                     *)
THEOREM HonestEvidence == Spec => []EvidenceIsEarned
BY Inductive, PTL DEF IInv
=============================================================================
