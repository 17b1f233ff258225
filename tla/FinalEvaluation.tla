-------------------------- MODULE FinalEvaluation --------------------------
(***************************************************************************)
(* The one-shot evaluations of M22 on unseen cases: the final suite, its   *)
(* follow-up and the follow-up of that, each a program that reads a frozen *)
(* manifest once and plays every case once.  Any number of processes may   *)
(* be started for any suite, at the same time or after one that failed or  *)
(* was killed; nothing but the artifact root, which a suite makes and no   *)
(* suite reuses, keeps them apart.  Statistics and native metrics are the  *)
(* constant Gates; an evaluator that was not launched, crashed or reported *)
(* something else than its case is one that failed.                        *)
(***************************************************************************)
EXTENDS Naturals, Sequences

CONSTANTS Runners,   \* the processes that may run at the same time
          NumSuites, \* final, follow-up, follow-up-v2
          NumCases,  \* cases of a manifest (42 in the code)
          Gates,     \* the suites whose service modes and confidence intervals are as required
          Passed,    \* the result the validators accept: the suites that passed,
          NoFailures \* and those without a failed case

Suites == 1 .. NumSuites
Cases == 1 .. NumCases

ASSUME FinalEvaluationAssumption ==
  /\ {NumSuites, NumCases} \subseteq Nat \ {0}
  /\ {Gates, Passed, NoFailures} \subseteq SUBSET Suites

VARIABLES root,       \* the suites whose artifact root has been made
          reads,      \* how often a suite's manifest has been read
          attempts,   \* how often the evaluator was started on each case of a suite
          dispatches, \* how often the engine was started on each case
          records,    \* the case records in a suite's artifact root
          evidence,   \* each suite's evidence file: absent, torn or whole
          report,     \* what a whole one says
          pc,         \* where each process is
          suite,      \* the suite it runs
          runs,       \* the cases it has behind it
          learned     \* the evaluator's answer to the present one

durable == <<root, reads, attempts, dispatches, records, evidence, report>>
vars == <<durable, pc, suite, runs, learned>>

(* What became of a case: the evaluator's answer, and the engine's run.     *)
Answers == {"correct", "mismatch", "failed"}
Outcome == [learned : Answers, native : BOOLEAN]
Good(run) == run.learned = "correct" /\ run.native

Report == [passed : BOOLEAN, flawless : BOOLEAN, runs : Seq(Outcome)]
NoReport == [passed |-> FALSE, flawless |-> FALSE, runs |-> <<>>]

TypeOK ==
  /\ root \subseteq Suites
  /\ reads \in [Suites -> Nat]
  /\ attempts \in [Suites \X Cases -> Nat]
  /\ dispatches \in [Suites \X Cases -> Nat]
  /\ records \in [Suites -> Seq(Outcome)]
  /\ evidence \in [Suites -> {"absent", "torn", "whole"}]
  /\ report \in [Suites -> Report]
  /\ pc \in [Runners -> {"idle", "checked", "preflight", "manifest", "evaluate",
                        "dispatch", "report", "create", "flush"}]
  /\ suite \in [Runners -> Suites]
  /\ runs \in [Runners -> Seq(Outcome)]
  /\ learned \in [Runners -> Answers]

Init ==
  /\ root = {}
  /\ reads = [s \in Suites |-> 0]
  /\ attempts = [sk \in Suites \X Cases |-> 0]
  /\ dispatches = [sk \in Suites \X Cases |-> 0]
  /\ records = [s \in Suites |-> <<>>]
  /\ evidence = [s \in Suites |-> "absent"]
  /\ report = [s \in Suites |-> NoReport]
  /\ pc = [r \in Runners |-> "idle"]
  /\ suite = [r \in Runners |-> 1]
  /\ runs = [r \in Runners |-> <<>>]
  /\ learned = [r \in Runners |-> "failed"]

Goto(r, from, to) == pc[r] = from /\ pc' = [pc EXCEPT ![r] = to]
Raise(r, from) == Goto(r, from, "idle")
NextCase(r) == Len(runs[r]) + 1

(* What a whole evidence file must still say before a follow-up may begin.  *)
Frozen(s, its) == (its.passed <=> s \in Passed) /\ (its.flawless <=> s \in NoFailures)
Immutable(s) == evidence[s] = "whole" /\ Frozen(s, report[s])

(* run, as far as it goes without touching anything.                        *)
Start(r, s) ==
  /\ Goto(r, "idle", "checked")
  /\ s \notin root /\ evidence[s] = "absent"
  /\ \A earlier \in 1 .. s - 1 : Immutable(earlier)
  /\ suite' = [suite EXCEPT ![r] = s]
  /\ runs' = [runs EXCEPT ![r] = <<>>]
  /\ UNCHANGED <<durable, learned>>

\* Mutant of MakeRoot: exist_ok, as every other mkdir of the repository has it.
MakeRootAgain(r) ==
  /\ Goto(r, "checked", "preflight")
  /\ root' = root \cup {suite[r]}
  /\ UNCHANGED <<reads, attempts, dispatches, records, evidence, report, suite, runs, learned>>

(* mkdir refuses a directory that has come into being since.                *)
MakeRoot(r) ==
  /\ Goto(r, "checked", "preflight")
  /\ suite[r] \notin root
  /\ root' = root \cup {suite[r]}
  /\ UNCHANGED <<reads, attempts, dispatches, records, evidence, report, suite, runs, learned>>

(* The evaluator is tried on a public case before the manifest is opened.   *)
Preflight(r) ==
  /\ Goto(r, "preflight", "manifest")
  /\ UNCHANGED <<durable, suite, runs, learned>>

ReadManifest(r) ==
  /\ \/ Goto(r, "manifest", "evaluate")
     \/ Raise(r, "manifest")       \* it does not decode, or is not the frozen one
  /\ reads' = [reads EXCEPT ![suite[r]] = @ + 1]
  /\ UNCHANGED <<root, attempts, dispatches, records, evidence, report, suite, runs, learned>>

(* run_evaluator: nothing the evaluator does ends the suite.                *)
Evaluate(r) ==
  /\ Goto(r, "evaluate", "dispatch")
  /\ attempts' = [attempts EXCEPT ![<<suite[r], NextCase(r)>>] = @ + 1]
  /\ \E answer \in Answers : learned' = [learned EXCEPT ![r] = answer]
  /\ UNCHANGED <<root, reads, dispatches, records, evidence, report, suite, runs>>

(* run_native and the record of the case, on disk before the next one; the  *)
(* artifacts of the case or its record may be impossible to write.          *)
Dispatch(r) ==
  /\ dispatches' = [dispatches EXCEPT ![<<suite[r], NextCase(r)>>] = @ + 1]
  /\ \/ \E native \in BOOLEAN :
          LET run == [learned |-> learned[r], native |-> native] IN
          /\ Goto(r, "dispatch", IF NextCase(r) = NumCases THEN "report" ELSE "evaluate")
          /\ records' = [records EXCEPT ![suite[r]] = Append(@, run)]
          /\ runs' = [runs EXCEPT ![r] = Append(@, run)]
     \/ Raise(r, "dispatch") /\ UNCHANGED <<records, runs>>
  /\ UNCHANGED <<root, reads, attempts, evidence, report, suite, learned>>

\* Mutant of Flawless: a native failure is not a category of its own.
FlawlessLearned(its) == \A k \in DOMAIN its : its[k].learned = "correct"

(* failure_categories over all cases, and acceptance.                       *)
Flawless(its) == \A k \in DOMAIN its : Good(its[k])
Accepted(s, its) ==
  /\ Len(its) = NumCases
  /\ \A k \in DOMAIN its : its[k].learned = "correct" /\ its[k].native
  /\ s \in Gates
Concluded(s, its) == [passed |-> Accepted(s, its), flawless |-> Flawless(its), runs |-> its]

(* The validator reads the records again, and accepts only the result that  *)
(* it has frozen.                                                           *)
Validate(r) ==
  /\ Goto(r, "report", "create")
  /\ runs[r] = records[suite[r]]
  /\ Frozen(suite[r], Concluded(suite[r], runs[r]))
  /\ UNCHANGED <<durable, suite, runs, learned>>

(* write_new: a new file, whole once it is flushed.                         *)
Create(r) ==
  /\ Goto(r, "create", "flush")
  /\ evidence[suite[r]] = "absent"
  /\ evidence' = [evidence EXCEPT ![suite[r]] = "torn"]
  /\ UNCHANGED <<root, reads, attempts, dispatches, records, report, suite, runs, learned>>

Flush(r) ==
  /\ Goto(r, "flush", "idle")
  /\ evidence' = [evidence EXCEPT ![suite[r]] = "whole"]
  /\ report' = [report EXCEPT ![suite[r]] = Concluded(suite[r], runs[r])]
  /\ UNCHANGED <<root, reads, attempts, dispatches, records, suite, runs, learned>>

(* An exception, or the death of the process, at any point.                 *)
Fails(r) ==
  /\ pc[r] # "idle"
  /\ pc' = [pc EXCEPT ![r] = "idle"]
  /\ UNCHANGED <<durable, suite, runs, learned>>

Step(r) ==
  \/ \E s \in Suites : Start(r, s)
  \/ MakeRoot(r) \/ Preflight(r) \/ ReadManifest(r) \/ Evaluate(r) \/ Dispatch(r)
  \/ Validate(r) \/ Create(r) \/ Flush(r) \/ Fails(r)

Next == \E r \in Runners : Step(r)

Spec == Init /\ [][Next]_vars

Once(s) ==
  /\ reads[s] <= 1
  /\ \A k \in Cases :
       /\ dispatches[<<s, k>>] <= attempts[<<s, k>>] /\ attempts[<<s, k>>] <= reads[s]
       /\ \A j \in Cases : j < k => attempts[<<s, k>>] <= dispatches[<<s, j>>]

(* What every report claims of how it came about, manifest_reads 1, retries *)
(* 0, replacements 0, in this order, is written into it as constants: over  *)
(* all processes that were ever started for a suite, at once or after a     *)
(* crash, no manifest is read twice, no case is given to the evaluator or   *)
(* to the engine twice or out of turn, and none is skipped.                 *)
AttemptedOnce == \A s \in Suites : Once(s)

AllGood(s) == \A k \in Cases : Good(records[s][k])

Earned(s) ==
  /\ reads[s] = 1 /\ \A k \in Cases : attempts[<<s, k>>] = 1 /\ dispatches[<<s, k>>] = 1
  /\ report[s].runs = records[s] /\ Len(records[s]) = NumCases
  /\ (report[s].passed => AllGood(s)) /\ (report[s].flawless <=> AllGood(s))

(* A whole evidence file was earned: every case was evaluated and played,   *)
(* it reports what the case records say, it passed only if each of them is  *)
(* good, it admits every failure; and no later suite is opened before it is *)
(* there.                                                                   *)
EvidenceIsEarned ==
  /\ \A s \in Suites : evidence[s] = "whole" => Earned(s)
  /\ \A s \in root : \A earlier \in 1 .. s - 1 : evidence[earlier] = "whole"
=============================================================================
