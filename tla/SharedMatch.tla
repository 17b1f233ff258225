----------------------------- MODULE SharedMatch -----------------------------
(***************************************************************************)
(* The MCP match server (class Match): a scoped player drives one company  *)
(* of a shared live game by tool calls, a neural policy answers for the    *)
(* other, and run.json records how the match ended.                        *)
(*                                                                         *)
(* The native game is TurnGame, which LiveBridge implements, and the       *)
(* transport is reduced to what LiveTransport shows of it.  A request is   *)
(* answered; or it fails because the process has ended, it runs out of     *)
(* time, or its own line of the transport's log fails, and after any of    *)
(* these nothing is answered again, although the process may still do what *)
(* it was asked; or the line of its answer fails, so that the call fails   *)
(* and the next one is answered in order.  A tool call holds the match's   *)
(* lock, so calls do not overlap; between two of its requests the native   *)
(* process may end, and the server may be killed at any point.             *)
(***************************************************************************)
EXTENDS Integers, Sequences, FiniteSets

CONSTANTS Player,        \* args.company
          FirstCompany,  \* args.first_company
          Maximum,       \* args.decisions
          Faults         \* which failures may happen, a subset of FaultKinds

FaultKinds == {"native", "late", "unlogged", "policy", "disk", "archive", "kill"}

ASSUME MatchAssumption ==
  /\ Player \in {0, 1} /\ FirstCompany \in {0, 1}
  /\ Maximum \in 2 .. 512 /\ Maximum % 2 = 0
  /\ Faults \subseteq FaultKinds

VARIABLES
  trouble,     \* whether anything fails at all in this match
  turn, acted, over, played,   \* the native game
  absent,      \* the engine has removed the player's company
  process,     \* native process: none, serving, aborted, closed
  outcome,     \* status of live-result.json
  wire,        \* LiveV2: up, unlogged (up, but an answer was lost to its log),
               \* late (a request ran out of time), aborted
  policy,      \* PolicyClient: up, late (its last request was not answered properly)
  status, decisions, pending, current, started, finished, final, game,   \* Match
  run_json, summary, neural_rows, archive,   \* its files
  pc,          \* where the tool call in progress is
  tool, left,  \* the tool, and the turns a wait still has to play
  reply        \* how the last tool call ended: value, refusal (ToolError), error

native == <<turn, acted, over, played, absent>>
engine == <<process, outcome, wire, policy>>
memory == <<status, decisions, pending, current, started, finished, final, game>>
files == <<run_json, summary, neural_rows, archive>>
control == <<pc, tool, left, reply>>
vars == <<trouble, native, engine, memory, files, control>>

Turns == INSTANCE TurnGame WITH Companies <- 2

May(kind) == trouble /\ kind \in Faults
Neural == 1 - Player
Over == over \/ turn >= Maximum
Mover == Turns!Mover(turn)
NoState == [map |-> FALSE, known |-> FALSE]

Init ==
  /\ trouble \in BOOLEAN
  /\ Turns!Init /\ absent = FALSE
  /\ process = "none" /\ outcome = "NONE" /\ wire = "up" /\ policy = "up"
  /\ status = "ready" /\ decisions = 0 /\ pending = FALSE /\ current = FirstCompany
  /\ started = FALSE /\ finished = FALSE /\ final = NoState /\ game = FALSE
  /\ run_json = "ready" /\ summary = FALSE /\ neural_rows = 0 /\ archive = "ok"
  /\ pc = "idle" /\ tool = "none" /\ left = 0 /\ reply = "none"

-----------------------------------------------------------------------------
(* invoke: how a tool call ends.                                           *)

Finished(kind) == pc' = "idle" /\ reply' = kind

\* A ValueError is a refusal that leaves the record alone; start records it too.
Refuse ==
  /\ Finished("refusal")
  /\ IF tool = "start" THEN status' = "failed" /\ run_json' = "failed"
     ELSE UNCHANGED <<status, run_json>>

\* Any other exception marks the record failed and saves it.
Raise ==
  /\ Finished("error")
  /\ status' = "failed" /\ run_json' = "failed"

-----------------------------------------------------------------------------
(* Requests to the native process.                                         *)

Asking == {"w_observe", "p_act", "s_step", "f_observe", "f_close",
           "n_observe", "n_tensors", "n_act", "n_step", "answer"}

InOrder == wire \in {"up", "unlogged"}
Heard(at) == pc = at /\ game /\ process = "serving" /\ InOrder
OutOfTurn(c) == ~Over /\ c # Mover
Asker == IF pc \in {"p_act", "s_step"} THEN Player ELSE Neural

\* 128 ticks: a company may go bankrupt, and the engine may then remove it.
Removal == absent' \in (IF over' /\ Player # 0 THEN BOOLEAN ELSE {FALSE})

\* A command or a step that is not answered in time may be carried out all the same.
CarriedOut(c) ==
  /\ ~OutOfTurn(c) /\ UNCHANGED absent
  /\ \/ pc \in {"p_act", "n_act"} /\ Turns!Act
     \/ pc \in {"s_step", "n_step"} /\ Turns!Advance

\* Mutation: the end of the response pipe goes unnoticed.
UnheardInTime ==
  /\ pc \in Asking /\ game /\ InOrder /\ process = "serving" /\ May("late")
  /\ wire' = "late" /\ Raise
  /\ UNCHANGED <<native, process, outcome, policy, decisions, pending, current, started, finished,
                 final, game, summary, neural_rows, archive, tool, left>>

\* The process has ended, or does not answer in time.  A close that fails has
\* aborted the transport, and native may or may not have written its result.
Unheard ==
  /\ pc \in Asking /\ game /\ wire # "aborted"
  /\ \/ process # "serving" /\ UNCHANGED <<native, outcome>>
     \/ /\ process = "serving" /\ (wire = "late" \/ May("late"))
        /\ \/ UNCHANGED native
           \/ CarriedOut(Asker)
        /\ outcome' \in (IF pc = "f_close" THEN {outcome, "COMPLETE"} ELSE {outcome})
  /\ Raise
  /\ wire' = (IF pc = "f_close" THEN "aborted" ELSE IF process = "serving" THEN "late" ELSE wire)
  /\ process' = (IF pc = "f_close" THEN "aborted" ELSE process)
  /\ UNCHANGED <<policy, decisions, pending, current, started, finished, final, game,
                 summary, neural_rows, archive, tool, left>>

\* The answer was read and could not be logged: what it says is lost, and the call
\* raises.  close, if this happens to it, aborts: that is as good as unheard.
Stepping == pc \in {"s_step", "n_step"} /\ acted /\ ~OutOfTurn(Asker)

Unlogged ==
  /\ May("unlogged") /\ pc # "f_close" /\ pc \in Asking /\ Heard(pc)
  /\ \/ Stepping /\ Turns!Advance /\ Removal
     \/ pc \in {"p_act", "n_act"} /\ CarriedOut(Asker)
     \/ ~Stepping /\ UNCHANGED native
  /\ wire' = "unlogged" /\ Raise
  /\ UNCHANGED <<process, outcome, policy, decisions, pending, current, started, finished,
                 final, game, summary, neural_rows, archive, tool, left>>

\* A match whose finish failed half-way has no game, or one that was aborted.
NoGame ==
  /\ pc \in Asking /\ ~(finished /\ pc \in {"answer", "w_observe"})
  /\ \/ ~game /\ Raise
     \/ game /\ wire = "aborted" /\ Refuse
  /\ UNCHANGED <<native, engine, decisions, pending, current, started, finished, final, game,
                 summary, neural_rows, archive, tool, left>>

-----------------------------------------------------------------------------
(* The tools.                                                              *)

Enter(name, at, turns) ==
  /\ pc = "idle"
  /\ tool' = name /\ pc' = at /\ left' = turns /\ reply' = "none"

\* start: the policy and the native process are launched, then the neural
\* company plays if it is first.
Start ==
  /\ ~started /\ started' = TRUE
  /\ \/ /\ Enter("start", IF current = Player THEN "answer" ELSE "n_observe", 0)
        /\ process' = "serving" /\ game' = TRUE /\ status' = "running"
        /\ run_json' = IF current = Player THEN "running" ELSE run_json
     \/ /\ May("policy") /\ pc = "idle"
        /\ tool' = "start" /\ left' = 0 /\ Raise /\ UNCHANGED <<process, game>>
  /\ UNCHANGED <<native, outcome, wire, policy, decisions, pending, current, finished, final,
                 summary, neural_rows, archive>>

\* Mutation: reading the state first resumes a neural turn that failed.
ObserveResumes ==
  /\ started /\ Enter("observe", IF current = Neural /\ ~finished THEN "n_observe" ELSE "answer", 0)
  /\ UNCHANGED <<native, engine, memory, files>>

Observe ==
  /\ started /\ Enter("observe", "answer", 0)
  /\ UNCHANGED <<native, engine, memory, files>>

Act ==
  /\ ~pending /\ started /\ ~finished /\ Enter("act", "p_act", 0)
  /\ UNCHANGED <<native, engine, memory, files>>

StepReady == pending /\ ~finished

Step ==
  /\ StepReady /\ Enter("step", "s_step", 0)
  /\ UNCHANGED <<native, engine, memory, files>>

\* Eight turns at most, and no more than the budget.
Wait ==
  /\ started /\ ~pending
  /\ \E n \in 1 .. Maximum \div 2 : n <= 8 /\ Enter("wait", "w_observe", n)
  /\ UNCHANGED <<native, engine, memory, files>>

\* observation and observe: the state of the live game, or the one kept by finish.
Answer ==
  /\ pc = "answer"
  /\ \/ finished /\ final.map
     \/ ~finished /\ Heard("answer") /\ ~OutOfTurn(Player)
  /\ IF tool = "wait" /\ left > 1
     THEN pc' = "w_observe" /\ left' = left - 1 /\ UNCHANGED reply
     ELSE Finished("value") /\ UNCHANGED left
  /\ UNCHANGED <<native, engine, memory, files, tool>>

\* Out of its turn the player may not observe; a removed company has no map.
AnswerFails ==
  /\ pc = "answer"
  /\ \/ finished /\ ~final.map
     \/ ~finished /\ Heard("answer") /\ OutOfTurn(Player)
  /\ Raise
  /\ UNCHANGED <<native, engine, decisions, pending, current, started, finished, final, game,
                 summary, neural_rows, archive, tool, left>>

\* wait_turns: each turn is observed, a WAIT is submitted and stepped.
WaitObserve ==
  /\ pc = "w_observe"
  /\ \/ finished /\ Finished("value") /\ UNCHANGED <<status, run_json>>
     \/ /\ ~finished /\ Heard("w_observe") /\ ~OutOfTurn(Player) /\ ~acted
        /\ pc' = "p_act" /\ UNCHANGED <<reply, status, run_json>>
     \/ /\ ~finished /\ Heard("w_observe") /\ (OutOfTurn(Player) \/ acted) /\ Raise
  /\ UNCHANGED <<native, engine, decisions, pending, current, started, finished, final, game,
                 summary, neural_rows, archive, tool, left>>

\* The player's command is accepted.  A command native executes and rejects is accepted too.
PlayerAct ==
  /\ Heard("p_act") /\ ~OutOfTurn(Player) /\ Turns!Act
  /\ pending' = TRUE
  /\ IF tool = "wait" THEN pc' = "s_step" /\ UNCHANGED reply ELSE Finished("value")
  /\ UNCHANGED <<absent, engine, status, decisions, current, started, finished, final, game,
                 files, tool, left>>

\* It is refused, as stale, illegal or out of turn: the answer says so.
PlayerActRejected ==
  /\ Heard("p_act")
  /\ Finished(IF tool = "wait" THEN "refusal" ELSE "value")
  /\ UNCHANGED <<native, engine, memory, files, tool, left>>

-----------------------------------------------------------------------------
(* native_step and finish.                                                 *)

NextCompany == Turns!Mover(turn')

\* What the server learns of a step.
NativeStep(at, c) ==
  /\ Heard(at) /\ ~OutOfTurn(c) /\ Turns!Advance
  /\ Removal
  /\ decisions' = turn' /\ current' = NextCompany
  /\ UNCHANGED <<engine, status, started, finished, final, game, files, tool, left, reply>>

AtEnd == over' \/ turn' >= Maximum

\* Mutation: the accepted action is never cleared.
PlayerStepStillPending ==
  /\ NativeStep("s_step", Player)
  /\ pc' = (IF AtEnd THEN "f_observe" ELSE "n_observe")
  /\ UNCHANGED pending

PlayerStep ==
  /\ NativeStep("s_step", Player)
  /\ IF AtEnd THEN pc' = "f_observe" /\ UNCHANGED pending
     ELSE pc' = "n_observe" /\ pending' = FALSE

\* Native has no action of the player to step: it was stepped, and the answer was lost.
PlayerStepRefused ==
  /\ Heard("s_step") /\ (OutOfTurn(Player) \/ ~acted)
  /\ Raise
  /\ UNCHANGED <<native, engine, decisions, pending, current, started, finished, final, game,
                 summary, neural_rows, archive, tool, left>>

\* Mutation: the last state is read but not kept.
FinalForgotten ==
  /\ Heard("f_observe") /\ ~OutOfTurn(Player)
  /\ pc' = "f_close"
  /\ UNCHANGED <<native, engine, memory, files, tool, left, reply>>

FinalObserve ==
  /\ Heard("f_observe") /\ ~OutOfTurn(Player)
  /\ final' = [map |-> ~absent, known |-> TRUE]
  /\ pc' = "f_close"
  /\ UNCHANGED <<native, engine, status, decisions, pending, current, started, finished, game,
                 files, tool, left, reply>>

FinalClose ==
  /\ Heard("f_close")
  /\ process' = "closed" /\ outcome' = (IF Over THEN "COMPLETE" ELSE "CLOSED")
  /\ game' = FALSE /\ pc' = "f_record"
  /\ UNCHANGED <<native, wire, policy, status, decisions, pending, current, started, finished, final,
                 files, tool, left, reply>>

\* The report needs a COMPLETE result; it is saved before the record is.
ReportAccepts == outcome = "COMPLETE"

\* Mutation: the record is saved before the report is made.
PersistBeforeReport ==
  /\ pc = "f_record" /\ ReportAccepts
  /\ status' = "completed" /\ run_json' = "completed" /\ pc' = "f_persist"
  /\ UNCHANGED <<native, engine, decisions, pending, current, started, finished, final, game,
                 summary, neural_rows, archive, tool, left, reply>>

FinalRecord ==
  /\ pc = "f_record" /\ ReportAccepts
  /\ status' = "completed" /\ summary' = TRUE /\ pc' = "f_persist"
  /\ UNCHANGED <<native, engine, decisions, pending, current, started, finished, final, game,
                 run_json, neural_rows, archive, tool, left, reply>>

\* Then the record is saved.  The step that ended the match goes on: a player's
\* clears its pending action, a neural one logs its row.
LastMover == Turns!Mover(turn - 1)

FinalPersist ==
  /\ pc = "f_persist"
  /\ finished' = TRUE /\ run_json' = status
  /\ IF LastMover = Player THEN pc' = "answer" /\ pending' = FALSE
     ELSE pc' = "n_log" /\ UNCHANGED pending
  /\ UNCHANGED <<native, engine, status, decisions, current, started, final, game,
                 summary, neural_rows, archive, tool, left, reply>>

FinalFails ==
  /\ May("disk") /\ pc \in {"f_record", "f_persist"}
  /\ finished' = (finished \/ pc = "f_persist")
  /\ Raise
  /\ UNCHANGED <<native, engine, decisions, pending, current, started, final, game,
                 summary, neural_rows, archive, tool, left>>

-----------------------------------------------------------------------------
(* neural_turn.                                                            *)

Advance(from, to) ==
  /\ Heard(from) /\ ~OutOfTurn(Neural) /\ pc' = to
  /\ UNCHANGED <<native, engine, memory, files, tool, left, reply>>

NeuralObserve == Advance("n_observe", "n_tensors")
NeuralTensors == ~acted /\ ~Over /\ Advance("n_tensors", "n_predict")

\* The policy answers with a legal row of its candidates.
Predict ==
  /\ pc = "n_predict" /\ pc' = "n_act"
  /\ UNCHANGED <<native, engine, memory, files, tool, left, reply>>

\* It is late, ends, or answers with an illegal row; or the tensor files are refused.
PredictFails ==
  /\ pc = "n_predict" /\ May("policy")
  /\ policy' = "late"
  /\ Raise \/ Refuse
  /\ UNCHANGED <<native, process, outcome, wire, decisions, pending, current, started, finished, final, game,
                 summary, neural_rows, archive, tool, left>>

NeuralAct ==
  /\ Heard("n_act") /\ ~OutOfTurn(Neural) /\ Turns!Act
  /\ pc' = "n_step"
  /\ UNCHANGED <<absent, engine, memory, files, tool, left, reply>>

\* Native executes the command without success, or the planner refuses to commit it.
NeuralActFails ==
  /\ May("policy") /\ Heard("n_act") /\ ~OutOfTurn(Neural) /\ Turns!Act
  /\ Raise
  /\ UNCHANGED <<absent, engine, decisions, pending, current, started, finished, final, game,
                 summary, neural_rows, archive, tool, left>>

\* Mutation: only the tensors of a neural turn are kept.
NeuralStepUnlogged ==
  /\ NativeStep("n_step", Neural)
  /\ pc' = (IF AtEnd THEN "f_observe" ELSE "n_archive")
  /\ UNCHANGED pending

NeuralStep ==
  /\ NativeStep("n_step", Neural)
  /\ pc' = (IF AtEnd THEN "f_observe" ELSE "n_log")
  /\ UNCHANGED pending

NeuralLog ==
  /\ pc = "n_log"
  /\ \/ neural_rows' = neural_rows + 1 /\ pc' = "n_archive" /\ UNCHANGED <<reply, status, run_json>>
     \/ May("disk") /\ Raise /\ UNCHANGED neural_rows
  /\ UNCHANGED <<native, engine, decisions, pending, current, started, finished, final, game,
                 summary, archive, tool, left>>

\* The tensors are compressed; then start saves its record, and so does a finished match.
Archive ==
  /\ pc = "n_archive" /\ archive = "ok"
  /\ pc' = "answer"
  /\ run_json' = IF finished \/ tool = "start" THEN status ELSE run_json
  /\ UNCHANGED <<native, engine, memory, summary, neural_rows, archive, tool, left, reply>>

\* A copy left half-written makes every later attempt fail as well.
ArchiveFails ==
  /\ pc = "n_archive" /\ (archive = "broken" \/ May("archive"))
  /\ archive' = "broken"
  /\ Raise
  /\ UNCHANGED <<native, engine, decisions, pending, current, started, finished, final, game,
                 summary, neural_rows, tool, left>>

-----------------------------------------------------------------------------
(* The end of the server, and of the native process.                       *)

StatusAtClose ==
  IF started /\ ~finished /\ status # "failed" THEN "aborted-before-native-boundary" ELSE status

\* close: a broken archive raises before the record is saved.
Close ==
  /\ pc = "idle" /\ pc' = "closed"
  /\ process' = (IF game /\ process = "serving" THEN "aborted" ELSE process)
  /\ game' = FALSE
  /\ status' = StatusAtClose
  /\ run_json' = IF archive = "ok" THEN StatusAtClose ELSE run_json
  /\ UNCHANGED <<native, outcome, wire, policy, decisions, pending, current, started, finished, final,
                 summary, neural_rows, archive, tool, left, reply>>

\* The server is killed: native reads the end of its input and closes.
Killed ==
  /\ May("kill") /\ pc # "closed" /\ pc # "killed" /\ pc' = "killed"
  /\ IF process = "serving"
     THEN process' = "closed" /\ outcome' = (IF Over THEN "COMPLETE" ELSE "CLOSED")
     ELSE UNCHANGED <<process, outcome>>
  /\ UNCHANGED <<native, wire, policy, memory, files, tool, left, reply>>

\* Native ends by itself: nobody sent a request for sixty seconds, or it failed.
NativeEnds ==
  /\ May("native") /\ process = "serving" /\ pc # "closed"
  /\ process' = "aborted" /\ outcome' = "FAILED"
  /\ UNCHANGED <<native, wire, policy, memory, files, control>>

Tool == Start \/ Observe \/ Act \/ Step \/ Wait

Progress ==
  \/ Answer \/ AnswerFails \/ WaitObserve \/ PlayerAct \/ PlayerActRejected
  \/ PlayerStep \/ PlayerStepRefused
  \/ FinalObserve \/ FinalClose \/ FinalRecord \/ FinalPersist \/ FinalFails
  \/ NeuralObserve \/ NeuralTensors \/ Predict \/ PredictFails
  \/ NeuralAct \/ NeuralActFails \/ NeuralStep \/ NeuralLog \/ Archive \/ ArchiveFails
  \/ Unheard \/ Unlogged \/ NoGame

Next == (Tool \/ Progress \/ Close \/ Killed \/ NativeEnds) /\ UNCHANGED trouble

Spec == Init /\ [][Next]_vars

\* The server runs its tool calls.
FairSpec == Spec /\ WF_vars(Progress /\ UNCHANGED trouble)
-----------------------------------------------------------------------------
(* Properties.                                                             *)

\* What a saved record may be believed for.  Completed stands for a match native
\* completed, whole: bankruptcy or the full budget, its economic summary on disk.
\* And an orderly shutdown that can save its record never leaves it saying running.
RecordIsTrue ==
  /\ run_json = "completed" =>
       /\ process = "closed" /\ outcome = "COMPLETE" /\ summary
       /\ over \/ turn = Maximum
       /\ decisions = turn /\ ~acted
  /\ pc = "closed" /\ archive = "ok" =>
       run_json \in {"completed", "failed", "aborted-before-native-boundary"} \/ ~started

\* Between tool calls a match that says it runs agrees with the native game on
\* the decisions, the pending action and the company in turn; and whatever failed
\* before, it never asks native for what native would refuse: it plays the neural
\* company in its turn, also when it has missed an answer, and unless it has, it
\* steps actions only that native has accepted.
InStep ==
  /\ pc = "idle" /\ status = "running" /\ process = "serving" =>
       decisions = turn /\ pending = acted /\ current = Mover
  /\ game /\ process = "serving" /\ InOrder =>
       /\ pc = "s_step" /\ wire = "up" => acted /\ ~OutOfTurn(Player)
       /\ pc = "n_step" => acted
       /\ pc \in {"n_tensors", "n_act"} => ~acted /\ ~Over
       /\ pc \in {"n_observe", "n_tensors", "n_act", "n_step"} => ~OutOfTurn(Neural)
       /\ pc = "f_observe" => Over

\* Between tool calls a running match has logged every neural decision.
NeuralTurnsLogged ==
  pc = "idle" /\ status = "running" =>
    neural_rows = Cardinality({n \in 1 .. decisions : Turns!Mover(n - 1) = Neural})

\* A policy that failed to answer is never asked again: its late answer, which
\* carries no identity, cannot be taken for that of another turn.
LatePolicyUnused == policy = "late" => pc # "n_predict"

\* Without a failure of native, policy, disk or transport, no tool call raises.
NoErrorWithoutFault == ~trouble => reply # "error"

\* The same while the player's company is in the game.
NoErrorInTheGame == ~trouble /\ ~absent => reply # "error"

\* Every tool call comes back, also when everything it depends on has failed.
EveryToolReturns == (pc # "idle") ~> (pc \in {"idle", "closed", "killed"})
=============================================================================
