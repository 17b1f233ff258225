----------------------------- MODULE LiveBridge -----------------------------
(***************************************************************************)
(* The native side of the development live environment: one OpenTTD        *)
(* process that reads framed requests from a pipe, answers each one, and   *)
(* writes a trace, tensor snapshots, native saves and a final result file  *)
(* (RunDevelopmentV2Live).  The client of this module is the weakest one:  *)
(* it sends any request, in or out of order, repeats requests, stops       *)
(* reading, hangs up, or kills the process.  LiveTransport replaces it by  *)
(* the client the repository ships.                                        *)
(*                                                                         *)
(* The simulated world is a version number: it grows when a command or an  *)
(* advance changes the state that NativeStateSha256 digests, so that a     *)
(* token is the pair of the observing company and the version.             *)
(***************************************************************************)
EXTENDS Integers, Sequences, FiniteSets

CONSTANTS Companies,      \* company_count: 1, or 2 for the shared game
          FirstCompany,   \* company_id of the configuration
          Maximum,        \* maximum_decisions
          MaxRequests,    \* bound: requests the client sends
          PipeFrames      \* bound: response frames the pipe holds unread

ASSUME BridgeAssumption ==
  /\ Companies \in {1, 2}
  /\ FirstCompany \in 0 .. Companies - 1
  /\ Maximum \in 1 .. 512 /\ Maximum % Companies = 0
  /\ MaxRequests \in Nat
  /\ PipeFrames \in Nat \ {0}

VARIABLES
  mode,        \* the process: serving, leaving its loop, closed, failed, killed
  expected,    \* request_id, the identity the next request must carry
  decisions, pending, terminal,
  action,      \* the executed command the next STEP will record
  standing,    \* each company: alive, bankrupt or removed from the game
  world,       \* version of the simulated state
  trace,       \* rows of transitions.jsonl
  tensors,     \* tensor snapshots on disk: <<decisions, company, world>>
  saves,       \* native saves on disk: <<request id, world>>
  result,      \* live-result.json, absent while its status is "NONE"
  commands,    \* history: every executed command, in order
  outbox,      \* the response being written, at most one
  requests,    \* request pipe, client to native
  responses,   \* response pipe, native to client
  open,        \* the client still holds the write end of the request pipe
  issued       \* requests sent so far

game == <<decisions, pending, terminal, action, standing, world, trace, commands>>
disk == <<tensors, saves, result>>
client == <<open, issued>>
vars == <<mode, expected, game, disk, outbox, requests, responses, client>>

-----------------------------------------------------------------------------
Shared == Companies = 2
CompanyIds == 0 .. Companies - 1
Standings == {"alive", "bankrupt", "removed"}
Operations == {"OBSERVE", "TENSORS", "ACT", "STEP", "CHECKPOINT", "CLOSE", "OTHER", "MALFORMED"}
Outcomes == {"SUCCESS", "NO_OP", "NATIVE_REJECTED"}

ActorAt(n) == (FirstCompany + n) % Companies
ExpectedCompany == ActorAt(decisions)
Token(c) == <<c, world>>
NoToken == <<0, -1>>

\* Mutation: a bankrupt company does not end the game.
PastTheEnd == ~pending
AtBoundary == ~pending /\ ~terminal

\* A response.  op and company repeat the request it answers: the real
\* response tells them by the member it carries.
Answer(r, status, body) ==
  [id |-> r.id, op |-> r.op, company |-> r.company, status |-> status, body |-> body]

FinalResult(status) ==
  [status |-> status, decisions |-> decisions, pending |-> pending]
NoResult == [status |-> "NONE", decisions |-> 0, pending |-> FALSE]

Init ==
  /\ mode = "serving" /\ expected = 1
  /\ decisions = 0 /\ pending = FALSE /\ terminal = FALSE
  /\ action = <<>> /\ commands = <<>> /\ trace = <<>>
  /\ standing = [c \in CompanyIds |-> "alive"]
  /\ world = 0
  /\ tensors = {} /\ saves = {} /\ result = NoResult
  /\ outbox = <<>> /\ requests = <<>> /\ responses = <<>>
  /\ open = TRUE /\ issued = 0

-----------------------------------------------------------------------------
(* Reading a request.                                                      *)

\* The loop is at DevReadRequest; r is the frame at the head of the pipe.
Reading(r) ==
  /\ mode = "serving" /\ outbox = <<>>
  /\ requests' = Tail(requests)

\* A request with the expected identity; its identity is consumed.
Accepting(r) ==
  /\ Reading(r)
  /\ r.op # "MALFORMED" /\ r.id = expected
  /\ expected' = expected + 1

InScope(r) == r.company \in CompanyIds

\* Mutation: only the commands are held to the turn.
ActOutOfTurn(r) ==
  /\ Shared /\ ~terminal /\ decisions < Maximum
  /\ r.op = "ACT" /\ r.company # ExpectedCompany
OutOfTurn(r) ==
  /\ Shared /\ ~terminal /\ decisions < Maximum
  /\ r.op # "CLOSE" /\ r.company # ExpectedCompany

Dispatched(r, op) ==
  /\ Accepting(r) /\ InScope(r) /\ ~OutOfTurn(r) /\ r.op = op

Respond(r, status, body) ==
  /\ outbox' = <<Answer(r, status, body)>>
  /\ UNCHANGED <<mode, responses, client>>

Reject(r, reason) == Respond(r, "REJECTED", reason) /\ UNCHANGED <<game, disk>>

\* Every exception ends in the catch block: a FAILED result, then the process ends.
FailWith(finalDecisions, finalPending) ==
  /\ mode' = "failed"
  /\ result' = [status |-> "FAILED", decisions |-> finalDecisions, pending |-> finalPending]

\* A frame that is truncated, oversized or not canonical JSON, or an identity out of order.
RefuseFrame(r) ==
  /\ Reading(r)
  /\ r.op = "MALFORMED" \/ r.id # expected
  /\ FailWith(decisions, pending)
  /\ UNCHANGED <<expected, game, tensors, saves, outbox, responses, client>>

RejectScope(r) ==
  Accepting(r) /\ ~InScope(r) /\ Reject(r, "COMPANY_SCOPE")

RejectTurn(r) ==
  Accepting(r) /\ InScope(r) /\ OutOfTurn(r) /\ Reject(r, "COMPANY_TURN")

RejectShape(r) ==
  Dispatched(r, "OTHER") /\ Reject(r, "REQUEST_SHAPE_OR_OPERATION")

-----------------------------------------------------------------------------
(* The operations.                                                         *)

\* DevObservation: a company removed from a terminal game has neither map nor token.
Observation(c) ==
  [token |-> IF standing[c] = "removed" THEN NoToken ELSE Token(c),
   map |-> standing[c] # "removed",
   candidates |-> ~pending /\ ~terminal /\ decisions < Maximum,
   decisions |-> decisions]

Observe(r) ==
  /\ Dispatched(r, "OBSERVE")
  /\ Respond(r, "OK", Observation(r.company))
  /\ UNCHANGED <<game, disk>>

Snapshot(c) == {t \in tensors : t[1] = decisions /\ t[2] = c}

\* Mutation: tensors are written between a command and its step as well.
SnapshotAnytime == ~terminal
SnapshotAllowed == AtBoundary

\* The snapshot of a decision is written once; later requests return its paths.
Tensors(r) ==
  /\ Dispatched(r, "TENSORS")
  /\ \/ ~SnapshotAllowed /\ Reject(r, "DECISION_BOUNDARY")
     \/ /\ SnapshotAllowed
        /\ tensors' = IF Snapshot(r.company) = {}
                      THEN tensors \cup {<<decisions, r.company, world>>} ELSE tensors
        /\ Respond(r, "OK", [token |-> Token(r.company), decision |-> decisions])
        /\ UNCHANGED <<game, saves, result>>

\* ExecuteCandidate: a command that succeeds may or may not change the digested state.
Execute(r, outcome) ==
  /\ pending' = TRUE
  /\ world' \in IF outcome = "SUCCESS" THEN {world, world + 1} ELSE {world}
  /\ action' = <<[company |-> r.company, before |-> world]>>
  /\ commands' = Append(commands, [company |-> r.company, token |-> r.token])
  /\ UNCHANGED <<decisions, terminal, standing, trace>>

\* EnumerateCandidates is repeated before execution: only an exposed candidate runs.
\* Mutations: the pending command or the token is not checked.
ExecutableTwice(r) ==
  /\ ~terminal /\ decisions < Maximum
  /\ r.token = Token(r.company) /\ r.candidate = "exposed"
ExecutableStale(r) ==
  AtBoundary /\ decisions < Maximum /\ r.candidate = "exposed"
Executable(r) ==
  /\ AtBoundary /\ decisions < Maximum
  /\ r.token = Token(r.company) /\ r.candidate = "exposed"

ActRefusal(r) ==
  IF ~AtBoundary \/ decisions >= Maximum THEN "DECISION_BOUNDARY"
  ELSE IF r.token # Token(r.company) THEN "STALE_TOKEN" ELSE "ILLEGAL_CANDIDATE"

Act(r) ==
  /\ Dispatched(r, "ACT")
  /\ \/ ~Executable(r) /\ Reject(r, ActRefusal(r))
     \/ /\ Executable(r)
        /\ \E outcome \in Outcomes :
             Execute(r, outcome) /\ Respond(r, "OK", [outcome |-> outcome])
        /\ UNCHANGED disk

\* Mutation: the pending command survives its step.
SimulateStillPending(after) ==
  /\ after \in [CompanyIds -> Standings] /\ after[0] # "removed"
  /\ standing' = after /\ world' = world + 1 /\ decisions' = decisions + 1
  /\ terminal' = \E c \in CompanyIds : after[c] # "alive"
  /\ UNCHANGED <<action, commands, pending>>

\* StateGameLoop for the fixed number of ticks: the world changes, companies may fail.
\* The engine removes a bankrupt company, except the one of the local player.
Simulate(after) ==
  /\ after \in [CompanyIds -> Standings] /\ after[0] # "removed"
  /\ standing' = after
  /\ world' = world + 1
  /\ decisions' = decisions + 1
  /\ pending' = FALSE
  /\ terminal' = \E c \in CompanyIds : after[c] # "alive"
  /\ UNCHANGED <<action, commands>>

Row(r) ==
  [decision |-> decisions + 1, company |-> r.company, actor |-> action[1].company,
   before |-> action[1].before, after |-> world + 1]

Transition(r, over) ==
  [decision |-> decisions + 1, company |-> r.company, terminal |-> over,
   truncated |-> ~over /\ decisions + 1 >= Maximum, next |-> ActorAt(decisions + 1)]

Record(r) == Append(trace, Row(r))

Step(r) ==
  /\ Dispatched(r, "STEP")
  /\ \/ ~pending /\ Reject(r, "NO_PENDING_ACTION")
     \/ /\ pending
        /\ \E after \in [CompanyIds -> Standings] : Simulate(after)
        /\ trace' = Record(r)
        /\ Respond(r, "OK", Transition(r, terminal'))
        /\ UNCHANGED disk

\* The row of the step cannot be written: the world has advanced, the process fails.
StepTraceFails(r) ==
  /\ Dispatched(r, "STEP") /\ pending
  /\ \E after \in [CompanyIds -> Standings] : Simulate(after)
  /\ FailWith(decisions + 1, FALSE)
  /\ UNCHANGED <<trace, tensors, saves, outbox, responses, client>>

SaveAllowed == ~pending

Checkpoint(r) ==
  /\ Dispatched(r, "CHECKPOINT")
  /\ \/ ~SaveAllowed /\ Reject(r, "DECISION_BOUNDARY")
     \/ /\ SaveAllowed
        /\ saves' = saves \cup {<<r.id, world>>}
        /\ Respond(r, "OK", [save |-> r.id])
        /\ UNCHANGED <<game, tensors, result>>

Close(r) ==
  Dispatched(r, "CLOSE") /\ Respond(r, "OK", <<>>) /\ UNCHANGED <<game, disk>>

\* Mutation: the process answers a rejection and goes on.
ActFailureRejected(r) ==
  /\ Dispatched(r, "ACT") /\ Executable(r)
  /\ world' \in {world, world + 1}
  /\ Respond(r, "REJECTED", "NATIVE_REJECTED")
  /\ UNCHANGED <<decisions, pending, terminal, action, standing, trace, commands, disk>>

\* A route cannot be rolled back: the command is neither recorded nor undone.
ActFails(r) ==
  /\ Dispatched(r, "ACT") /\ Executable(r)
  /\ world' \in {world, world + 1}
  /\ FailWith(decisions, pending)
  /\ UNCHANGED <<decisions, pending, terminal, action, standing, trace, commands,
                 tensors, saves, outbox, responses, client>>

\* A file of TENSORS or CHECKPOINT cannot be written.
FileFails(r) ==
  /\ \/ Dispatched(r, "TENSORS") /\ SnapshotAllowed /\ Snapshot(r.company) = {}
     \/ Dispatched(r, "CHECKPOINT") /\ SaveAllowed
  /\ FailWith(decisions, pending)
  /\ UNCHANGED <<game, tensors, saves, outbox, responses, client>>

-----------------------------------------------------------------------------
(* Writing the response, and the ways the loop ends.                       *)

WriteResponse ==
  /\ mode = "serving" /\ outbox # <<>> /\ Len(responses) < PipeFrames
  /\ responses' = responses \o outbox
  /\ outbox' = <<>>
  /\ mode' = IF Head(outbox).op = "CLOSE" /\ Head(outbox).status = "OK" THEN "leaving" ELSE mode
  /\ UNCHANGED <<expected, game, disk, requests, client>>

\* Mutation: a write waits for as long as the client is there.
WriteBlocks ==
  /\ mode = "serving" /\ outbox # <<>> /\ ~open
  /\ FailWith(decisions, pending)
  /\ outbox' = <<>>
  /\ UNCHANGED <<expected, game, tensors, saves, requests, responses, client>>

\* The client does not drain the pipe for sixty seconds.
WriteTimeout ==
  /\ mode = "serving" /\ outbox # <<>>
  /\ FailWith(decisions, pending)
  /\ outbox' = <<>>
  /\ UNCHANGED <<expected, game, tensors, saves, requests, responses, client>>

\* No complete request for sixty seconds.
IdleTimeout ==
  /\ mode = "serving" /\ outbox = <<>> /\ requests = <<>> /\ open
  /\ FailWith(decisions, pending)
  /\ UNCHANGED <<expected, game, tensors, saves, outbox, requests, responses, client>>

EndOfInput ==
  /\ mode = "serving" /\ outbox = <<>> /\ requests = <<>> /\ ~open
  /\ mode' = "leaving"
  /\ UNCHANGED <<expected, game, disk, outbox, requests, responses, client>>

Finish ==
  /\ mode = "leaving" /\ mode' = "closed"
  /\ result' = FinalResult(IF terminal \/ decisions >= Maximum THEN "COMPLETE" ELSE "CLOSED")
  /\ UNCHANGED <<expected, game, tensors, saves, outbox, requests, responses, client>>

\* The result cannot be written: the process fails without one.
FinishFails ==
  /\ mode = "leaving" /\ mode' = "failed"
  /\ UNCHANGED <<expected, game, disk, outbox, requests, responses, client>>

Killed ==
  /\ mode \in {"serving", "leaving"}
  /\ mode' = "killed"
  /\ UNCHANGED <<expected, game, disk, outbox, requests, responses, client>>

Serve(r) ==
  \/ RefuseFrame(r) \/ RejectScope(r) \/ RejectTurn(r) \/ RejectShape(r)
  \/ Observe(r) \/ Tensors(r) \/ Act(r) \/ Step(r) \/ Checkpoint(r) \/ Close(r)

Native == WriteResponse \/ Finish \/ (requests # <<>> /\ Serve(Head(requests)))

Breakdown(r) == StepTraceFails(r) \/ ActFails(r) \/ FileFails(r)

Trouble == WriteTimeout \/ FinishFails \/ Killed \/ (requests # <<>> /\ Breakdown(Head(requests)))

-----------------------------------------------------------------------------
(* Any client.                                                             *)

RequestOf(op, id, c, token, candidate) ==
  [id |-> id, op |-> op, company |-> c, token |-> token, candidate |-> candidate]

Send(r) ==
  /\ open /\ requests' = Append(requests, r)
  /\ issued' = issued + 1
  /\ UNCHANGED <<mode, expected, game, disk, outbox, responses, open>>

\* A fresh request or a repetition of the last identity, with any token ever valid.
AnyRequest ==
  /\ issued < MaxRequests /\ mode = "serving" /\ requests = <<>> /\ outbox = <<>>
  /\ \E id \in {issued, issued + 1}, c \in 0 .. Companies :
       \/ \E op \in Operations \ {"ACT"} : Send(RequestOf(op, id, c, NoToken, "none"))
       \/ \E w \in 0 .. world, candidate \in {"exposed", "unexposed"} :
            Send(RequestOf("ACT", id, c, <<c, w>>, candidate))

Collect ==
  /\ responses # <<>>
  /\ responses' = Tail(responses)
  /\ UNCHANGED <<mode, expected, game, disk, outbox, requests, client>>

HangUp ==
  /\ open /\ mode = "serving" /\ outbox = <<>> /\ open' = FALSE
  /\ UNCHANGED <<mode, expected, game, disk, outbox, requests, responses, issued>>

AnyClient == AnyRequest \/ Collect \/ HangUp

Next == Native \/ Trouble \/ IdleTimeout \/ EndOfInput \/ AnyClient

Spec == Init /\ [][Next]_vars

\* The process keeps running its loop and both of its timers expire.
Fairness == WF_vars(Native) /\ WF_vars(WriteTimeout) /\ WF_vars(IdleTimeout) /\ WF_vars(EndOfInput)
FairSpec == Spec /\ Fairness
-----------------------------------------------------------------------------
(* Properties.                                                             *)

Request == [id: Nat, op: Operations, company: 0 .. Companies,
            token: (0 .. Companies) \X Int, candidate: {"exposed", "unexposed", "none"}]

PendingAction == [company: CompanyIds, before: Nat]
TraceRow == [decision: Nat, company: CompanyIds, actor: CompanyIds, before: Nat, after: Nat]
Command == [company: CompanyIds, token: (0 .. Companies) \X Int]

TypeOK ==
  /\ mode \in {"serving", "leaving", "closed", "failed", "killed"}
  /\ expected \in Nat /\ decisions \in 0 .. Maximum
  /\ pending \in BOOLEAN /\ terminal \in BOOLEAN
  /\ action \in Seq(PendingAction) /\ Len(action) <= 1
  /\ standing \in [CompanyIds -> Standings]
  /\ world \in Nat
  /\ trace \in Seq(TraceRow)
  /\ tensors \subseteq Nat \X CompanyIds \X Nat
  /\ saves \subseteq Nat \X Nat
  /\ result \in [status: {"NONE", "COMPLETE", "CLOSED", "FAILED"}, decisions: Nat, pending: BOOLEAN]
  /\ commands \in Seq(Command)
  /\ requests \in Seq(Request)
  /\ open \in BOOLEAN /\ issued \in Nat

Answers == {outbox[i] : i \in 1 .. Len(outbox)} \cup {responses[i] : i \in 1 .. Len(responses)}
Answered(op) == {a \in Answers : a.op = op /\ a.status = "OK"}

\* Whatever is sent, repeated or refused, the commands executed are one per
\* decision completed, and one more between an accepted ACT and its STEP.
OneCommandPerDecision ==
  Len(commands) = decisions + (IF pending THEN 1 ELSE 0)

\* Row i of the trace is decision i, of the company whose turn it was; the
\* company that stepped is the one whose command the row records.
TraceFollowsTurns ==
  \A i \in 1 .. Len(trace) :
    /\ trace[i].decision = i
    /\ trace[i].company = ActorAt(i - 1)
    /\ trace[i].actor = trace[i].company

\* Nothing changes the simulated state between two recorded decisions: each row
\* starts from the state the row before it left.
UnbrokenHistory ==
  /\ \A i \in 1 .. Len(trace) :
       trace[i].before = IF i = 1 THEN 0 ELSE trace[i - 1].after
  /\ mode = "serving" /\ ~pending =>
       world = IF trace = <<>> THEN 0 ELSE trace[Len(trace)].after

\* A state token is spent by the one command it admitted.
TokensSpentOnce ==
  \A i, j \in 1 .. Len(commands) :
    commands[i].token = commands[j].token => i = j

\* The files a TENSORS answer names were written in the state its token names,
\* although they are only written for the first request of a decision.
FreshSnapshots ==
  \A a \in Answered("TENSORS") : \A t \in tensors :
    t[1] = a.body.decision /\ t[2] = a.company => t[3] = a.body.token[2]

\* Once a company is bankrupt or the budget is spent nothing moves the world.
NothingAfterTheEnd ==
  [][terminal \/ decisions >= Maximum => UNCHANGED <<world, commands, trace>>]_vars

\* The live environment is a turn game.
Turns == INSTANCE TurnGame WITH turn <- decisions, acted <- pending, over <- terminal,
  played <- [i \in 1 .. Len(commands) |-> commands[i].company]
PlaysTurns == Turns!Spec

\* No client keeps the process alive by silence, and none can wedge it by not
\* reading: it always ends.
AlwaysEnds == <>(mode \notin {"serving", "leaving"})
=============================================================================
