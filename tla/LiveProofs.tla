-------------------------- MODULE LiveProofs --------------------------
(***************************************************************************)
(* What the live environment guarantees for every budget, either number of *)
(* companies and any number of requests.  First the native process under   *)
(* any client: the types of its state, one command per decision, the turn  *)
(* order and continuity of its trace, single use of the state tokens,      *)
(* fresh snapshots, and that it implements the turn game.  Then the client *)
(* of the repository together with that process: no caller is given the    *)
(* answer of another call, identities stay in order whatever fails,        *)
(* requests.jsonl accounts for what was done, and a clean close means a    *)
(* true result.                                                            *)
(***************************************************************************)
EXTENDS LiveTransport, SequenceTheorems, TLAPS

-----------------------------------------------------------------------------
(* The inductive invariant.                                                *)

\* An accepted command waits for a step that is still allowed, and it was
\* given by the company in turn in the state the last row left.
PendingCommand ==
  pending =>
    /\ ~terminal /\ decisions < Maximum
    /\ Len(action) = 1
    /\ action[1].company = ActorAt(decisions)

\* While the process serves, the trace is exactly the decisions completed.
TraceLength ==
  /\ Len(trace) <= decisions
  /\ mode = "serving" => Len(trace) = decisions

\* The world version the next command starts from.
LastAfter == IF trace = <<>> THEN 0 ELSE trace[Len(trace)].after

Continuity ==
  /\ \A i \in 1 .. Len(trace) :
       trace[i].before = IF i = 1 THEN 0 ELSE trace[i - 1].after
  /\ mode = "serving" /\ ~pending => world = LastAfter
  /\ mode = "serving" /\ pending => action[1].before = LastAfter

\* Tokens carry the version they were spent in; the versions grow.
SpentVersions ==
  /\ \A i \in 1 .. Len(commands) :
       /\ commands[i].token[2] <= world
       /\ ~pending => commands[i].token[2] < world
  /\ \A i, j \in 1 .. Len(commands) :
       i < j => commands[i].token[2] < commands[j].token[2]

IInv ==
  /\ TypeOK /\ PendingCommand /\ OneCommandPerDecision /\ TraceLength
  /\ TraceFollowsTurns /\ Continuity /\ SpentVersions

-----------------------------------------------------------------------------
(* The steps that matter: an executed command, an advance, or neither.     *)

Quiet ==
  /\ UNCHANGED game
  /\ mode' = "serving" => mode = "serving"

Commanded(r) ==
  /\ r \in Request /\ r.op = "ACT" /\ InScope(r) /\ ~OutOfTurn(r) /\ Executable(r)
  /\ \E outcome \in Outcomes : Execute(r, outcome)
  /\ mode = "serving" /\ mode' = "serving"

Botched(r) ==
  /\ Executable(r)
  /\ world' \in {world, world + 1}
  /\ mode' = "failed"
  /\ UNCHANGED <<decisions, pending, terminal, action, standing, trace, commands>>

Advanced(r) ==
  /\ r \in Request /\ InScope(r) /\ ~OutOfTurn(r) /\ r.op = "STEP" /\ pending
  /\ \E after \in [CompanyIds -> Standings] : Simulate(after)
  /\ mode = "serving"
  /\ \/ trace' = Append(trace, Row(r)) /\ mode' = "serving"
     \/ trace' = trace /\ mode' = "failed"

LEMMA HeadIsRequest ==
  ASSUME TypeOK, requests # <<>>
  PROVE  Head(requests) \in Request
BY DEF TypeOK

\* Every step of the process or of its client is one of the five kinds.
LEMMA KindsOfStep ==
  ASSUME TypeOK, Next
  PROVE  Quiet \/ \E r \in Request : Commanded(r) \/ Botched(r) \/ Advanced(r)
<1>1. CASE WriteResponse \/ Finish
  BY <1>1 DEF WriteResponse, Finish, Quiet, game
<1>2. CASE requests # <<>> /\ Serve(Head(requests))
  <2> DEFINE r == Head(requests)
  <2>0. r \in Request
    BY <1>2, HeadIsRequest
  <2>1. CASE RefuseFrame(r)
    BY <2>1 DEF RefuseFrame, FailWith, Quiet, game
  <2>2. CASE RejectScope(r) \/ RejectTurn(r) \/ RejectShape(r)
    BY <2>2 DEF RejectScope, RejectTurn, RejectShape, Reject, Respond, Quiet, game
  <2>3. CASE Observe(r) \/ Tensors(r) \/ Checkpoint(r) \/ Close(r)
    BY <2>3 DEF Observe, Tensors, Checkpoint, Close, Reject, Respond, Quiet, game
  <2>4. CASE Act(r)
    <3>1. CASE ~Executable(r)
      BY <2>4, <3>1 DEF Act, Reject, Respond, Quiet, game
    <3>2. CASE Executable(r)
      <4>1. Commanded(r)
        BY <2>0, <2>4, <3>2 DEF Act, Dispatched, Accepting, Reading, Respond, Commanded
      <4> QED BY <2>0, <4>1
    <3> QED BY <3>1, <3>2
  <2>5. CASE Step(r)
    <3>1. CASE ~pending
      BY <2>5, <3>1 DEF Step, Reject, Respond, Quiet, game
    <3>2. CASE pending
      <4>1. Advanced(r)
        BY <2>0, <2>5, <3>2 DEF Step, Dispatched, Accepting, Reading, Respond, Record, Advanced
      <4> QED BY <2>0, <4>1
    <3> QED BY <3>1, <3>2
  <2> QED BY <1>2, <2>1, <2>2, <2>3, <2>4, <2>5 DEF Serve
<1>3. CASE Trouble
  <2>1. CASE WriteTimeout \/ FinishFails \/ Killed
    BY <2>1 DEF WriteTimeout, FinishFails, Killed, FailWith, Quiet, game
  <2>2. CASE requests # <<>> /\ Breakdown(Head(requests))
    <3> DEFINE r == Head(requests)
    <3>0. r \in Request
      BY <2>2, HeadIsRequest
    <3>1. CASE StepTraceFails(r)
      <4>1. Advanced(r)
        BY <3>0, <3>1 DEF StepTraceFails, Dispatched, Accepting, Reading, FailWith, Advanced
      <4> QED BY <3>0, <4>1
    <3>2. CASE ActFails(r)
      <4>1. Botched(r)
        BY <3>2 DEF ActFails, FailWith, Botched
      <4> QED BY <3>0, <4>1
    <3>3. CASE FileFails(r)
      BY <3>3 DEF FileFails, FailWith, Quiet, game
    <3> QED BY <2>2, <3>1, <3>2, <3>3 DEF Breakdown
  <2> QED BY <1>3, <2>1, <2>2 DEF Trouble
<1>4. CASE IdleTimeout \/ EndOfInput
  BY <1>4 DEF IdleTimeout, EndOfInput, FailWith, Quiet, game
<1>5. CASE AnyClient
  BY <1>5 DEF AnyClient, AnyRequest, Send, Collect, HangUp, Quiet, game
<1> QED BY <1>1, <1>2, <1>3, <1>4, <1>5 DEF Next, Native

-----------------------------------------------------------------------------
(* Types.                                                                  *)

LEMMA ActorIsCompany ==
  ASSUME NEW n \in Nat
  PROVE  ActorAt(n) \in CompanyIds
<1>1. CASE Companies = 1
  BY <1>1, BridgeAssumption DEF ActorAt, CompanyIds
<1>2. CASE Companies = 2
  BY <1>2, BridgeAssumption DEF ActorAt, CompanyIds
<1> QED BY <1>1, <1>2, BridgeAssumption

\* The company that acts or steps is the one in turn.
LEMMA ActorInTurn ==
  ASSUME NEW r, r \in Request, InScope(r), ~OutOfTurn(r), r.op # "CLOSE",
         decisions \in Nat, ~terminal, decisions < Maximum
  PROVE  r.company = ActorAt(decisions)
<1>1. CASE Companies = 1
  BY <1>1, BridgeAssumption DEF InScope, CompanyIds, ActorAt, Request
<1>2. CASE Companies = 2
  BY <1>2 DEF OutOfTurn, Shared, ExpectedCompany
<1> QED BY <1>1, <1>2, BridgeAssumption

GameTypeOK ==
  /\ decisions \in 0 .. Maximum
  /\ pending \in BOOLEAN /\ terminal \in BOOLEAN
  /\ action \in Seq(PendingAction) /\ Len(action) <= 1
  /\ standing \in [CompanyIds -> Standings]
  /\ world \in Nat
  /\ trace \in Seq(TraceRow)
  /\ commands \in Seq(Command)

LEMMA GameTypeStep ==
  ASSUME IInv, Next
  PROVE  GameTypeOK'
<1> USE BridgeAssumption
<1>0. TypeOK /\ PendingCommand
  BY DEF IInv
<1>1. CASE Quiet
  BY <1>0, <1>1 DEF TypeOK, GameTypeOK, Quiet, game
<1>2. ASSUME NEW r \in Request, Commanded(r)
      PROVE  GameTypeOK'
  <2>1. PICK outcome \in Outcomes : Execute(r, outcome)
    BY <1>2 DEF Commanded
  <2>2. r.company \in CompanyIds /\ r.token \in (0 .. Companies) \X Int
    BY <1>2 DEF Commanded, InScope, Request
  <2>3. UNCHANGED <<decisions, terminal, standing, trace>> /\ pending' = TRUE
    BY <2>1 DEF Execute
  <2>4. world' \in Nat
    BY <2>1, <1>0 DEF Execute, TypeOK
  <2>5. action' \in Seq(PendingAction) /\ Len(action') <= 1
    <3>1. [company |-> r.company, before |-> world] \in PendingAction
      BY <2>2, <1>0 DEF TypeOK, PendingAction
    <3> QED BY <2>1, <3>1 DEF Execute
  <2>6. commands' \in Seq(Command)
    <3>1. [company |-> r.company, token |-> r.token] \in Command
      BY <2>2 DEF Command
    <3> QED BY <2>1, <1>0, <3>1, AppendProperties DEF Execute, TypeOK
  <2> QED BY <2>3, <2>4, <2>5, <2>6, <1>0 DEF TypeOK, GameTypeOK
<1>3. ASSUME NEW r \in Request, Botched(r)
      PROVE  GameTypeOK'
  BY <1>0, <1>3 DEF TypeOK, GameTypeOK, Botched
<1>4. ASSUME NEW r \in Request, Advanced(r)
      PROVE  GameTypeOK'
  <2>1. PICK after \in [CompanyIds -> Standings] : Simulate(after)
    BY <1>4 DEF Advanced
  <2>2. pending /\ decisions < Maximum /\ Len(action) = 1
    BY <1>0, <1>4 DEF Advanced, PendingCommand
  <2>3. decisions' \in 0 .. Maximum /\ pending' = FALSE /\ world' \in Nat
    BY <2>1, <2>2, <1>0 DEF Simulate, TypeOK
  <2>4. terminal' \in BOOLEAN
    BY <2>1, Zenon DEF Simulate
  <2>5. standing' \in [CompanyIds -> Standings] /\ UNCHANGED <<action, commands>>
    BY <2>1 DEF Simulate
  <2>6. Row(r) \in TraceRow
    <3>1. action[1] \in PendingAction
      <4>1. action \in Seq(PendingAction) /\ 1 \in 1 .. Len(action)
        BY <1>0, <2>2 DEF TypeOK
      <4> QED BY ONLY <4>1, ElementOfSeq
    <3>2. r.company \in CompanyIds
      BY <1>4 DEF Advanced, InScope
    <3> QED BY <1>0, <3>1, <3>2 DEF Row, TypeOK, PendingAction, TraceRow
  <2>7. trace' \in Seq(TraceRow)
    <3>1. trace \in Seq(TraceRow) /\ (trace' = trace \/ trace' = Append(trace, Row(r)))
      BY <1>0, <1>4 DEF Advanced, TypeOK
    <3> QED BY ONLY <3>1, <2>6, AppendProperties
  <2> QED BY <2>3, <2>4, <2>5, <2>7, <1>0 DEF TypeOK, GameTypeOK
<1> QED BY <1>0, <1>1, <1>2, <1>3, <1>4, KindsOfStep

PlumbingTypeOK ==
  /\ mode \in {"serving", "leaving", "closed", "failed", "killed"}
  /\ expected \in Nat
  /\ tensors \subseteq Nat \X CompanyIds \X Nat
  /\ saves \subseteq Nat \X Nat
  /\ result \in [status: {"NONE", "COMPLETE", "CLOSED", "FAILED"}, decisions: Nat, pending: BOOLEAN]
  /\ requests \in Seq(Request)
  /\ open \in BOOLEAN /\ issued \in Nat

\* Reading takes the head of the request pipe and, if accepted, its identity.
LEMMA ReadingTypes ==
  ASSUME TypeOK, requests # <<>>,
         NEW r, r = Head(requests), requests' = Tail(requests),
         expected' \in {expected, expected + 1}
  PROVE  r \in Request /\ requests' \in Seq(Request) /\ expected' \in Nat
<1>1. requests \in Seq(Request) /\ expected \in Nat
  BY DEF TypeOK
<1> QED BY <1>1, HeadTailProperties

LEMMA FailureResultType ==
  ASSUME NEW n \in Nat, NEW p \in BOOLEAN, FailWith(n, p)
  PROVE  result' \in [status: {"NONE", "COMPLETE", "CLOSED", "FAILED"}, decisions: Nat, pending: BOOLEAN]
BY DEF FailWith

LEMMA PlumbingTypeStep ==
  ASSUME IInv, Next
  PROVE  PlumbingTypeOK'
<1> USE BridgeAssumption DEF PlumbingTypeOK
<1>0. TypeOK /\ PendingCommand /\ PlumbingTypeOK
  BY DEF IInv, TypeOK
<1>1. CASE WriteResponse
  BY <1>0, <1>1 DEF WriteResponse, disk, client
<1>2. ASSUME requests # <<>>, NEW r, r = Head(requests),
             Serve(r) \/ Breakdown(r)
      PROVE  PlumbingTypeOK'
  <2>0. requests' = Tail(requests) /\ expected' \in {expected, expected + 1} /\ UNCHANGED client
    BY <1>2 DEF Serve, Breakdown, RefuseFrame, RejectScope, RejectTurn, RejectShape, Observe,
         Tensors, Act, Step, Checkpoint, Close, StepTraceFails, ActFails, FileFails,
         Dispatched, Accepting, Reading, Reject, Respond, client
  <2>1. r \in Request /\ requests' \in Seq(Request) /\ expected' \in Nat
    BY <1>0, <1>2, <2>0, ReadingTypes
  <2>2. mode' \in {mode, "failed"}
    BY <1>2 DEF Serve, Breakdown, RefuseFrame, RejectScope, RejectTurn, RejectShape, Observe,
         Tensors, Act, Step, Checkpoint, Close, StepTraceFails, ActFails, FileFails,
         Reject, Respond, FailWith
  <2>3. result' \in [status: {"NONE", "COMPLETE", "CLOSED", "FAILED"},
                      decisions: Nat, pending: BOOLEAN]
    <3>1. CASE result' = result
      BY <3>1, <1>0
    <3>2. CASE FailWith(decisions, pending) \/ FailWith(decisions + 1, FALSE)
      <4>1. decisions \in Nat /\ decisions + 1 \in Nat /\ pending \in BOOLEAN /\ FALSE \in BOOLEAN
        BY <1>0 DEF TypeOK
      <4> QED BY ONLY <3>2, <4>1, FailureResultType
    <3> QED BY <3>1, <3>2, <1>2 DEF Serve, Breakdown, RefuseFrame, RejectScope, RejectTurn,
         RejectShape, Observe, Tensors, Act, Step, Checkpoint, Close, StepTraceFails, ActFails,
         FileFails, Reject, disk
  <2>4. tensors' \in {tensors, tensors \cup {<<decisions, r.company, world>>}}
    BY <1>2 DEF Serve, Breakdown, RefuseFrame, RejectScope, RejectTurn, RejectShape, Observe,
         Tensors, Act, Step, Checkpoint, Close, StepTraceFails, ActFails, FileFails, Reject, disk
  <2>5. saves' \in {saves, saves \cup {<<r.id, world>>}}
    BY <1>2 DEF Serve, Breakdown, RefuseFrame, RejectScope, RejectTurn, RejectShape, Observe,
         Tensors, Act, Step, Checkpoint, Close, StepTraceFails, ActFails, FileFails, Reject, disk
  <2>6. tensors' # tensors => r.company \in CompanyIds
    BY <1>2 DEF Serve, Breakdown, RefuseFrame, RejectScope, RejectTurn, RejectShape, Observe,
         Tensors, Act, Step, Checkpoint, Close, StepTraceFails, ActFails, FileFails, Reject, disk,
         Dispatched, InScope
  <2>7. tensors' \subseteq Nat \X CompanyIds \X Nat
    BY <2>4, <2>6, <1>0 DEF TypeOK
  <2>8. saves' \subseteq Nat \X Nat
    BY <2>1, <2>5, <1>0 DEF TypeOK, Request
  <2> QED BY <1>0, <2>0, <2>1, <2>2, <2>3, <2>7, <2>8 DEF client
<1>3. CASE WriteTimeout \/ IdleTimeout
  BY <1>0, <1>3 DEF WriteTimeout, IdleTimeout, FailWith, game, client, TypeOK
<1>4. CASE Killed \/ FinishFails \/ EndOfInput
  BY <1>0, <1>4 DEF Killed, FinishFails, EndOfInput, disk, client
<1>5. CASE Finish
  BY <1>0, <1>5 DEF Finish, FinalResult, client, TypeOK
<1>6. CASE AnyRequest
  <2>1. PICK r : Send(r) /\ r \in Request
    <3>1. PICK id \in {issued, issued + 1}, c \in 0 .. Companies :
            \/ \E op \in Operations \ {"ACT"} : Send(RequestOf(op, id, c, NoToken, "none"))
            \/ \E w \in 0 .. world, candidate \in {"exposed", "unexposed"} :
                 Send(RequestOf("ACT", id, c, <<c, w>>, candidate))
      BY <1>6 DEF AnyRequest
    <3>2. id \in Nat /\ world \in Nat
      BY <1>0, <3>1 DEF TypeOK
    <3>3. ASSUME NEW op \in Operations, NEW w \in Int, NEW d \in 0 .. Companies,
                 NEW candidate \in {"exposed", "unexposed", "none"}
          PROVE  RequestOf(op, id, c, <<d, w>>, candidate) \in Request
      BY <3>2, <3>3 DEF RequestOf, Request
    <3>4. NoToken = <<0, -1>> /\ 0 \in 0 .. Companies /\ -1 \in Int /\ "ACT" \in Operations
      BY DEF NoToken, Operations
    <3>5. \A op \in Operations : RequestOf(op, id, c, NoToken, "none") \in Request
      BY <3>3, <3>4
    <3>6. \A w \in 0 .. world, candidate \in {"exposed", "unexposed"} :
            RequestOf("ACT", id, c, <<c, w>>, candidate) \in Request
      BY <3>1, <3>2, <3>3, <3>4
    <3> QED BY ONLY <3>1, <3>5, <3>6
  <2>2. requests' = Append(requests, r) /\ issued' = issued + 1
    BY <2>1 DEF Send
  <2>3. requests' \in Seq(Request) /\ issued' \in Nat
    <3>1. requests \in Seq(Request) /\ issued \in Nat
      BY <1>0 DEF TypeOK
    <3> QED BY <2>1, <2>2, <3>1, AppendProperties
  <2> QED BY <1>0, <2>1, <2>3 DEF Send, disk
<1>7. CASE Collect
  BY <1>0, <1>7 DEF Collect, disk, client
<1>8. CASE HangUp
  BY <1>0, <1>8 DEF HangUp, disk
<1> QED BY <1>1, <1>2, <1>3, <1>4, <1>5, <1>6, <1>7, <1>8 DEF Next, Native, Trouble, AnyClient

LEMMA TypeStep ==
  ASSUME IInv, Next
  PROVE  TypeOK'
BY GameTypeStep, PlumbingTypeStep DEF GameTypeOK, PlumbingTypeOK, TypeOK

-----------------------------------------------------------------------------
(* Each kind of step preserves the rest of the inductive invariant.        *)

IRest ==
  /\ PendingCommand /\ OneCommandPerDecision /\ TraceLength
  /\ TraceFollowsTurns /\ Continuity /\ SpentVersions

LEMMA SpentTokenIsInt ==
  ASSUME NEW s \in Seq(Command), NEW i \in 1 .. Len(s)
  PROVE  s[i].token[2] \in Int
<1>1. s[i] \in Command
  BY ElementOfSeq
<1> QED BY <1>1 DEF Command

LEMMA QuietStep ==
  ASSUME IInv, Quiet
  PROVE  IRest'
<1>1. UNCHANGED <<decisions, pending, terminal, action, world, trace, commands>>
  BY DEF Quiet, game
<1>2. mode' = "serving" => mode = "serving"
  BY DEF Quiet
<1> QED BY <1>1, <1>2 DEF IInv, IRest, PendingCommand, OneCommandPerDecision, TraceLength,
      TraceFollowsTurns, Continuity, LastAfter, SpentVersions

LEMMA BotchedStep ==
  ASSUME IInv, NEW r, Botched(r)
  PROVE  IRest'
<1>1. UNCHANGED <<decisions, pending, terminal, action, trace, commands>> /\ mode' = "failed"
  BY DEF Botched
<1>2. world \in Nat /\ world' \in {world, world + 1}
  BY DEF Botched, IInv, TypeOK
<1>3. SpentVersions'
  <2>1. \A i \in 1 .. Len(commands) : commands[i].token[2] \in Int
    BY SpentTokenIsInt DEF IInv, TypeOK
  <2> QED BY <1>1, <1>2, <2>1 DEF IInv, SpentVersions
<1> QED BY <1>1, <1>3 DEF IInv, IRest, PendingCommand, OneCommandPerDecision, TraceLength,
      TraceFollowsTurns, Continuity

LEMMA CommandedStep ==
  ASSUME IInv, NEW r, Commanded(r)
  PROVE  IRest'
<1>0. /\ TypeOK /\ PendingCommand /\ OneCommandPerDecision /\ TraceLength
      /\ TraceFollowsTurns /\ Continuity /\ SpentVersions
  BY DEF IInv
<1>1. PICK outcome \in Outcomes : Execute(r, outcome)
  BY DEF Commanded
<1>2. UNCHANGED <<decisions, terminal, trace>> /\ pending' = TRUE
  BY <1>1 DEF Execute
<1>3. ~pending /\ ~terminal /\ decisions < Maximum /\ mode = "serving" /\ mode' = "serving"
  BY DEF Commanded, Executable, AtBoundary
<1>4. r.company = ActorAt(decisions)
  BY <1>0, <1>3, BridgeAssumption, ActorInTurn DEF Commanded, TypeOK
<1>5. r.token[2] = world
  BY DEF Commanded, Executable, Token
<1>6. world \in Nat /\ world' \in {world, world + 1}
  BY <1>0, <1>1 DEF Execute, TypeOK
<1>7. action' = <<[company |-> r.company, before |-> world]>>
  BY <1>1 DEF Execute
<1>8. /\ commands \in Seq(Command)
      /\ Len(commands') = Len(commands) + 1
      /\ commands'[Len(commands) + 1] = [company |-> r.company, token |-> r.token]
      /\ \A i \in 1 .. Len(commands) : commands'[i] = commands[i]
  <2>1. commands \in Seq(Command) /\ [company |-> r.company, token |-> r.token] \in Command
    <3>1. r.company \in CompanyIds /\ r.token \in (0 .. Companies) \X Int
      BY DEF Commanded, InScope, Request
    <3>2. commands \in Seq(Command)
      BY <1>0 DEF TypeOK
    <3> QED BY <3>1, <3>2 DEF Command
  <2>2. commands' = Append(commands, [company |-> r.company, token |-> r.token])
    BY <1>1 DEF Execute
  <2> QED BY ONLY <2>1, <2>2, AppendProperties
<1>9. PendingCommand'
  BY <1>2, <1>3, <1>4, <1>7 DEF PendingCommand, ActorAt
<1>10. OneCommandPerDecision'
  BY <1>0, <1>2, <1>3, <1>8 DEF OneCommandPerDecision, TypeOK
<1>11. TraceLength' /\ TraceFollowsTurns'
  BY <1>0, <1>2, <1>3 DEF TraceLength, TraceFollowsTurns
<1>12. Continuity'
  BY <1>0, <1>2, <1>3, <1>7 DEF Continuity, LastAfter
<1>13. SpentVersions'
  <2>1. \A i \in 1 .. Len(commands) : commands[i].token[2] \in Int /\ commands[i].token[2] < world
    BY <1>0, <1>3, <1>8, SpentTokenIsInt DEF SpentVersions
  <2>2. \A i \in 1 .. Len(commands') : commands'[i].token[2] <= world'
    <3> TAKE i \in 1 .. Len(commands')
    <3>1. CASE i = Len(commands) + 1
      BY <3>1, <1>5, <1>6, <1>8
    <3>2. CASE i \in 1 .. Len(commands)
      BY <3>2, <2>1, <1>6, <1>8
    <3> QED BY <3>1, <3>2, <1>8
  <2>3. ASSUME NEW i \in 1 .. Len(commands'), NEW j \in 1 .. Len(commands'), i < j
        PROVE  commands'[i].token[2] < commands'[j].token[2]
    <3>1. i \in 1 .. Len(commands)
      BY <1>8, <2>3
    <3>2. CASE j = Len(commands) + 1
      BY <3>1, <3>2, <1>5, <1>8, <2>1
    <3>3. CASE j \in 1 .. Len(commands)
      BY <3>1, <3>3, <2>3, <1>0, <1>8 DEF SpentVersions
    <3> QED BY <3>2, <3>3, <1>8
  <2> QED BY <2>2, <2>3, <1>2 DEF SpentVersions
<1> QED BY <1>9, <1>10, <1>11, <1>12, <1>13 DEF IRest

LEMMA AdvancedStep ==
  ASSUME IInv, NEW r, Advanced(r)
  PROVE  IRest'
<1>0. /\ TypeOK /\ PendingCommand /\ OneCommandPerDecision /\ TraceLength
      /\ TraceFollowsTurns /\ Continuity /\ SpentVersions
  BY DEF IInv
<1>1. /\ pending /\ ~terminal /\ decisions < Maximum /\ mode = "serving"
      /\ action[1].company = ActorAt(decisions) /\ action[1].before = LastAfter
  BY <1>0 DEF Advanced, PendingCommand, Continuity
<1>2. /\ world' = world + 1 /\ decisions' = decisions + 1 /\ pending' = FALSE
      /\ UNCHANGED <<action, commands>>
  BY DEF Advanced, Simulate
<1>3. world \in Nat /\ decisions \in Nat
  BY <1>0 DEF TypeOK
<1>4. r.company = ActorAt(decisions)
  BY <1>1, <1>3, ActorInTurn DEF Advanced
<1>5. Len(trace) = decisions /\ trace \in Seq(TraceRow)
  BY <1>0, <1>1 DEF TraceLength, TypeOK
<1>6. PendingCommand' /\ OneCommandPerDecision'
  BY <1>0, <1>1, <1>2, <1>3 DEF PendingCommand, OneCommandPerDecision
<1>7. SpentVersions'
  <2>1. \A i \in 1 .. Len(commands) : commands[i].token[2] \in Int
    BY <1>0, SpentTokenIsInt DEF TypeOK
  <2> QED BY <1>0, <1>2, <1>3, <2>1 DEF SpentVersions
<1>8. CASE trace' = trace /\ mode' = "failed"
  <2>1. TraceLength' /\ TraceFollowsTurns' /\ Continuity'
    BY <1>0, <1>2, <1>3, <1>5, <1>8 DEF TraceLength, TraceFollowsTurns, Continuity
  <2> QED BY <1>6, <1>7, <2>1 DEF IRest
<1>9. CASE trace' = Append(trace, Row(r)) /\ mode' = "serving"
  <2>1. /\ Len(trace') = decisions + 1
        /\ trace'[decisions + 1] = Row(r)
        /\ \A i \in 1 .. decisions : trace'[i] = trace[i]
    BY <1>3, <1>5, <1>9
  <2>2. /\ Row(r).decision = decisions + 1 /\ Row(r).company = ActorAt(decisions)
        /\ Row(r).actor = ActorAt(decisions)
        /\ Row(r).before = LastAfter /\ Row(r).after = world'
    BY <1>1, <1>2, <1>4 DEF Row
  <2>3. TraceLength'
    BY <1>2, <1>3, <2>1 DEF TraceLength
  <2>4. TraceFollowsTurns'
    <3> SUFFICES ASSUME NEW i \in 1 .. Len(trace')
                 PROVE  /\ trace'[i].decision = i
                        /\ trace'[i].company = ActorAt(i - 1)
                        /\ trace'[i].actor = trace'[i].company
      BY DEF TraceFollowsTurns, ActorAt
    <3>1. CASE i = decisions + 1
      BY <3>1, <1>3, <2>1, <2>2
    <3>2. CASE i \in 1 .. decisions
      BY <3>2, <1>0, <1>5, <2>1 DEF TraceFollowsTurns
    <3> QED BY <3>1, <3>2, <1>3, <2>1
  <2>5. Continuity'
    <3>1. trace' # <<>> /\ LastAfter' = world'
      BY <1>3, <2>1, <2>2 DEF LastAfter
    <3>2. ASSUME NEW i \in 1 .. Len(trace')
          PROVE  trace'[i].before = IF i = 1 THEN 0 ELSE trace'[i - 1].after
      <4>1. CASE i = decisions + 1
        <5>1. CASE decisions = 0
          BY <4>1, <5>1, <1>5, <2>1, <2>2 DEF LastAfter
        <5>2. CASE decisions # 0
          <6>1. LastAfter = trace[decisions].after /\ trace'[decisions] = trace[decisions]
            BY <5>2, <1>3, <1>5, <2>1 DEF LastAfter
          <6> QED BY <4>1, <5>2, <6>1, <1>3, <2>1, <2>2
        <5> QED BY <5>1, <5>2
      <4>2. CASE i \in 1 .. decisions
        <5>1. i = 1 \/ i - 1 \in 1 .. decisions
          BY <4>2, <1>3
        <5> QED BY <4>2, <5>1, <1>0, <1>5, <2>1 DEF Continuity
      <4> QED BY <4>1, <4>2, <1>3, <2>1
    <3> QED BY <1>2, <3>1, <3>2 DEF Continuity
  <2> QED BY <1>6, <1>7, <2>3, <2>4, <2>5 DEF IRest
<1> QED BY <1>8, <1>9 DEF Advanced

LEMMA InitInv == Init => IInv
<1> SUFFICES ASSUME Init PROVE IInv
  OBVIOUS
<1> USE BridgeAssumption
<1>1. TypeOK
  <2>1. decisions \in 0 .. Maximum
    BY DEF Init
  <2>2. standing \in [CompanyIds -> Standings]
    BY DEF Init, Standings
  <2>3. result \in [status: {"NONE", "COMPLETE", "CLOSED", "FAILED"}, decisions: Nat, pending: BOOLEAN]
    BY DEF Init, NoResult
  <2>4. tensors = {} /\ saves = {} /\ action = <<>> /\ trace = <<>>
        /\ commands = <<>> /\ requests = <<>>
    BY DEF Init
  <2>5. /\ action \in Seq(PendingAction) /\ trace \in Seq(TraceRow)
        /\ commands \in Seq(Command) /\ requests \in Seq(Request)
    BY <2>4
  <2>6. Len(action) <= 1
    BY <2>4
  <2>7. tensors \subseteq Nat \X CompanyIds \X Nat /\ saves \subseteq Nat \X Nat
    BY <2>4
  <2>8. /\ mode = "serving" /\ expected \in Nat /\ world \in Nat /\ issued \in Nat
        /\ pending = FALSE /\ terminal = FALSE /\ open = TRUE
    BY DEF Init
  <2> QED BY ONLY <2>1, <2>2, <2>3, <2>5, <2>6, <2>7, <2>8 DEF TypeOK
<1>2. IRest
  BY DEF Init, IRest, PendingCommand, OneCommandPerDecision, TraceLength, TraceFollowsTurns,
         Continuity, LastAfter, SpentVersions
<1> QED BY <1>1, <1>2 DEF IInv, IRest

LEMMA StepInv == IInv /\ [Next]_vars => IInv'
<1> SUFFICES ASSUME IInv, [Next]_vars PROVE IInv'
  OBVIOUS
<1>1. CASE UNCHANGED vars
  <2>1. TypeOK'
    BY <1>1 DEF vars, game, disk, client, IInv, TypeOK
  <2>2. Quiet
    BY <1>1 DEF vars, Quiet
  <2> QED BY <2>1, <2>2, QuietStep DEF IInv, IRest
<1>2. CASE Next
  <2>1. TypeOK /\ TypeOK'
    BY <1>2, TypeStep DEF IInv
  <2>2. IRest'
    BY <1>2, <2>1, KindsOfStep, QuietStep, CommandedStep, BotchedStep, AdvancedStep
  <2> QED BY <2>1, <2>2 DEF IInv, IRest
<1> QED BY <1>1, <1>2

THEOREM Inductive == Spec => []IInv
BY InitInv, StepInv, PTL DEF Spec

-----------------------------------------------------------------------------
(* The theorems.                                                           *)

LEMMA HistoryHolds == IInv => UnbrokenHistory
BY DEF IInv, Continuity, LastAfter, UnbrokenHistory

LEMMA SingleUseHolds == IInv => TokensSpentOnce
<1> SUFFICES ASSUME IInv, NEW i \in 1 .. Len(commands), NEW j \in 1 .. Len(commands),
                    commands[i].token = commands[j].token
             PROVE  i = j
  BY DEF TokensSpentOnce
<1>1. commands[i].token[2] \in Int /\ commands[j].token[2] \in Int
  BY SpentTokenIsInt DEF IInv, TypeOK
<1>2. ~(i < j) /\ ~(j < i)
  BY <1>1 DEF IInv, SpentVersions
<1> QED BY <1>2

\* Types, for every budget and any client of the live environment.
THEOREM TypeCorrect == Spec => []TypeOK
BY Inductive, PTL DEF IInv

\* No request order, repetition or failure of the process executes a second
\* command in a decision, or advances a decision that has none.
THEOREM OneCommand == Spec => []OneCommandPerDecision
BY Inductive, PTL DEF IInv

\* The trace lists the decisions in order, each of the company in turn.
THEOREM TurnOrder == Spec => []TraceFollowsTurns
BY Inductive, PTL DEF IInv

\* Each recorded decision starts in the state the one before it left.
THEOREM History == Spec => []UnbrokenHistory
BY HistoryHolds, Inductive, PTL

\* The state token of one command never admits another.
THEOREM SingleUse == Spec => []TokensSpentOnce
BY SingleUseHolds, Inductive, PTL

\* A game that is over, or whose budget is spent, is never moved again.
THEOREM Finality == Spec => NothingAfterTheEnd
<1>1. ASSUME IInv, [Next]_vars, terminal \/ decisions >= Maximum
      PROVE  UNCHANGED <<world, commands, trace>>
  <2>0. TypeOK /\ PendingCommand /\ decisions \in Nat /\ Maximum \in Nat
    BY <1>1, BridgeAssumption DEF IInv, TypeOK
  <2>1. CASE Quiet \/ UNCHANGED vars
    BY <2>1 DEF Quiet, game, vars
  <2>2. ASSUME NEW r, Commanded(r) \/ Botched(r) \/ Advanced(r)
        PROVE  FALSE
    BY <1>1, <2>0, <2>2 DEF Commanded, Botched, Advanced, PendingCommand, Executable, AtBoundary
  <2> QED BY <1>1, <2>0, <2>1, <2>2, KindsOfStep
<1> QED BY <1>1, Inductive, PTL DEF Spec, NothingAfterTheEnd

\* The live environment, with every failure and any client, plays turns.
THEOREM Refinement == Spec => PlaysTurns
<1> DEFINE mover == [i \in 1 .. Len(commands) |-> commands[i].company]
<1>1. Init => Turns!Init
  BY DEF Init, Turns!Init
<1>2. ASSUME IInv, [Next]_vars
      PROVE  [Turns!Next]_Turns!vars
  <2>0. TypeOK /\ PendingCommand
    BY <1>2 DEF IInv
  <2>1. CASE Quiet \/ UNCHANGED vars
    BY <2>1 DEF Quiet, game, vars, Turns!vars
  <2>2. ASSUME NEW r, Botched(r)
        PROVE  UNCHANGED Turns!vars
    BY <2>2 DEF Botched, Turns!vars
  <2>3. ASSUME NEW r, Commanded(r)
        PROVE  Turns!Act
    <3>1. PICK outcome \in Outcomes : Execute(r, outcome)
      BY <2>3 DEF Commanded
    <3>2. ~pending /\ ~terminal /\ decisions < Maximum
      BY <2>3 DEF Commanded, Executable, AtBoundary
    <3>3. r.company = Turns!Mover(decisions)
      BY <2>0, <2>3, <3>2, ActorInTurn DEF Commanded, TypeOK, Turns!Mover, ActorAt
    <3>4. mover' = Append(mover, r.company)
      <4>1. /\ commands \in Seq(Command)
            /\ commands' = Append(commands, [company |-> r.company, token |-> r.token])
        BY <2>0, <3>1 DEF Execute, TypeOK
      <4>2. /\ Len(commands) \in Nat /\ Len(commands') = Len(commands) + 1
            /\ commands'[Len(commands) + 1].company = r.company
            /\ \A i \in 1 .. Len(commands) : commands'[i] = commands[i]
        BY <4>1
      <4> QED BY <4>2
    <3> QED BY <3>1, <3>2, <3>3, <3>4 DEF Execute, Turns!Act
  <2>4. ASSUME NEW r, Advanced(r)
        PROVE  Turns!Advance
    <3>1. PICK after \in [CompanyIds -> Standings] : Simulate(after)
      BY <2>4 DEF Advanced
    <3>2. terminal' \in BOOLEAN
      BY <3>1, Zenon DEF Simulate
    <3> QED BY <2>4, <3>1, <3>2 DEF Advanced, Simulate, Turns!Advance
  <2> QED BY <1>2, <2>0, <2>1, <2>2, <2>3, <2>4, KindsOfStep DEF Turns!Next
<1> QED BY <1>1, <1>2, Inductive, PTL DEF Spec, PlaysTurns, Turns!Spec

-----------------------------------------------------------------------------
(* Sequences whose elements need no type.                                  *)

IsSequence(s) == \E S : s \in Seq(S)

LEMMA AppendSequence ==
  ASSUME NEW s, IsSequence(s), NEW e
  PROVE  /\ IsSequence(Append(s, e))
         /\ Len(Append(s, e)) = Len(s) + 1
         /\ \A i \in 1 .. Len(s) : Append(s, e)[i] = s[i]
         /\ Append(s, e)[Len(s) + 1] = e
         /\ Len(s) \in Nat
<1>1. PICK S : s \in Seq(S)
  BY DEF IsSequence
<1>2. s \in Seq(S \cup {e}) /\ e \in S \cup {e}
  BY <1>1
<1>3. Append(s, e) \in Seq(S \cup {e})
  BY <1>2
<1> QED BY <1>2, <1>3 DEF IsSequence

LEMMA TailSequence ==
  ASSUME NEW s, IsSequence(s), s # <<>>
  PROVE  /\ IsSequence(Tail(s)) /\ Head(s) = s[1]
         /\ Len(s) \in Nat \ {0} /\ Len(Tail(s)) = Len(s) - 1
         /\ \A i \in 1 .. Len(Tail(s)) : Tail(s)[i] = s[i + 1]
<1>1. PICK S : s \in Seq(S)
  BY DEF IsSequence
<1> QED BY <1>1 DEF IsSequence

-----------------------------------------------------------------------------
(* Snapshots.  A file and an answer that name a decision were made in the   *)
(* state in which that decision is still to be taken, if it is.             *)

Here == mode = "serving" /\ AtBoundary

Buffers == IsSequence(responses) /\ (outbox = <<>> \/ \E a : outbox = <<a>>)

SnapshotsCurrent ==
  \A t \in tensors : t[1] \in Nat /\ t[1] <= decisions /\ (Here /\ t[1] = decisions => t[3] = world)

AnswersCurrent ==
  \A a \in Answered("TENSORS") :
    /\ a.body.decision \in Nat /\ a.body.decision <= decisions
    /\ Here /\ a.body.decision = decisions => a.body.token[2] = world

SnapshotInv == Buffers /\ SnapshotsCurrent /\ AnswersCurrent /\ FreshSnapshots

\* A TENSORS request is answered with paths, of new files or of those there are.
Snapped(r) ==
  /\ Here /\ UNCHANGED <<game, mode>>
  /\ tensors' \in {tensors, tensors \cup {<<decisions, r.company, world>>}}
  /\ \A a \in Answered("TENSORS")' :
       \/ a \in Answered("TENSORS")
       \/ a.company = r.company /\ a.body = [token |-> Token(r.company), decision |-> decisions]

NotSnapped == tensors' = tensors /\ Answered("TENSORS")' \subseteq Answered("TENSORS")

\* The boundary that a file or an answer belongs to is left for good.
BoundaryLeft ==
  \/ UNCHANGED <<decisions, world>> /\ (Here' => Here)
  \/ decisions' = decisions /\ ~Here'
  \/ decisions' = decisions + 1

LEMMA BoundaryStep ==
  ASSUME IInv, Next
  PROVE  BoundaryLeft
<1>1. CASE Quiet
  BY <1>1 DEF Quiet, game, BoundaryLeft, Here, AtBoundary
<1>2. ASSUME NEW r \in Request, Commanded(r)
      PROVE  BoundaryLeft
  BY <1>2 DEF Commanded, Execute, BoundaryLeft, Here, AtBoundary
<1>3. ASSUME NEW r \in Request, Botched(r)
      PROVE  BoundaryLeft
  BY <1>3 DEF Botched, BoundaryLeft, Here
<1>4. ASSUME NEW r \in Request, Advanced(r)
      PROVE  BoundaryLeft
  BY <1>4 DEF Advanced, Simulate, BoundaryLeft
<1> QED BY <1>1, <1>2, <1>3, <1>4, KindsOfStep DEF IInv

\* What is on its way to the client after a reply, a delivery and a read.
LEMMA ReplyAnswers ==
  ASSUME Buffers, outbox = <<>>, NEW a, outbox' = <<a>>, responses' = responses
  PROVE  Buffers' /\ Answers' = Answers \cup {a}
BY DEF Buffers, Answers

LEMMA DropAnswers ==
  ASSUME Buffers, outbox' \in {outbox, <<>>}, responses' = responses
  PROVE  Buffers' /\ Answers' \subseteq Answers
BY DEF Buffers, Answers

LEMMA DeliverAnswers ==
  ASSUME Buffers, outbox # <<>>, outbox' = <<>>, responses' = responses \o outbox
  PROVE  Buffers' /\ Answers' \subseteq Answers
<1>1. PICK a : outbox = <<a>>
  BY DEF Buffers
<1>2. responses' = Append(responses, a)
  <2>1. PICK S : responses \in Seq(S)
    BY DEF Buffers, IsSequence
  <2>2. responses \in Seq(S \cup {a}) /\ a \in S \cup {a}
    BY <2>1
  <2> QED BY <1>1, <2>2, AppendIsConcat
<1>3. /\ IsSequence(responses') /\ Len(responses') = Len(responses) + 1 /\ Len(responses) \in Nat
      /\ \A i \in 1 .. Len(responses) : responses'[i] = responses[i]
      /\ responses'[Len(responses) + 1] = a
  BY <1>2, AppendSequence DEF Buffers
<1>4. ASSUME NEW i \in 1 .. Len(responses')
      PROVE  responses'[i] \in Answers
  <2>1. CASE i \in 1 .. Len(responses)
    BY <1>3, <2>1 DEF Answers
  <2>2. CASE i = Len(responses) + 1
    <3>1. a = outbox[1] /\ 1 \in 1 .. Len(outbox)
      BY <1>1
    <3> QED BY <1>3, <2>2, <3>1 DEF Answers
  <2> QED BY <1>3, <2>1, <2>2
<1> QED BY <1>3, <1>4 DEF Buffers, Answers

LEMMA CollectAnswers ==
  ASSUME Buffers, Collect
  PROVE  Buffers' /\ Answers' \subseteq Answers
<1>1. /\ IsSequence(responses') /\ Len(responses) \in Nat \ {0} /\ outbox' = outbox
      /\ Len(responses') = Len(responses) - 1
      /\ \A i \in 1 .. Len(responses') : responses'[i] = responses[i + 1]
  BY TailSequence DEF Buffers, Collect
<1>2. ASSUME NEW i \in 1 .. Len(responses')
      PROVE  responses'[i] \in Answers
  <2>1. i + 1 \in 1 .. Len(responses) /\ responses'[i] = responses[i + 1]
    BY <1>1
  <2> QED BY <2>1 DEF Answers
<1> QED BY <1>1, <1>2 DEF Buffers, Answers

LEMMA KindsOfAnswer ==
  ASSUME Buffers, Next
  PROVE  Buffers' /\ (NotSnapped \/ \E r : Snapped(r))
<1>0. ASSUME Answers' \subseteq Answers, tensors' = tensors
      PROVE  NotSnapped
  BY <1>0 DEF NotSnapped, Answered
<1>1. ASSUME NEW r, NEW status, NEW body, outbox = <<>>, Respond(r, status, body)
      PROVE  Buffers' /\ Answers' = Answers \cup {Answer(r, status, body)}
  BY <1>1, ReplyAnswers DEF Respond
<1>2. ASSUME NEW r, NEW status, NEW body, outbox = <<>>, Respond(r, status, body), tensors' = tensors,
             r.op # "TENSORS" \/ status # "OK"
      PROVE  Buffers' /\ NotSnapped
  <2>1. Buffers' /\ Answers' = Answers \cup {Answer(r, status, body)}
    BY <1>1, <1>2
  <2>2. Answer(r, status, body).op # "TENSORS" \/ Answer(r, status, body).status # "OK"
    BY <1>2 DEF Answer
  <2> QED BY <1>2, <2>1, <2>2 DEF NotSnapped, Answered
<1>3. CASE WriteResponse
  BY <1>0, <1>3, DeliverAnswers DEF WriteResponse, disk
<1>4. CASE Finish \/ WriteTimeout \/ FinishFails \/ Killed \/ IdleTimeout \/ EndOfInput
  BY <1>0, <1>4, DropAnswers
     DEF Finish, WriteTimeout, FinishFails, Killed, IdleTimeout, EndOfInput, disk
<1>5. CASE requests # <<>> /\ Serve(Head(requests))
  <2> DEFINE r == Head(requests)
  <2>1. CASE RefuseFrame(r)
    BY <1>0, <2>1, DropAnswers DEF RefuseFrame
  <2>2. CASE RejectScope(r) \/ RejectTurn(r) \/ RejectShape(r)
    BY <1>2, <2>2 DEF RejectScope, RejectTurn, RejectShape, Dispatched, Accepting, Reading, Reject, disk
  <2>3. CASE Observe(r) \/ Act(r) \/ Step(r) \/ Checkpoint(r) \/ Close(r)
    BY <1>2, <2>3 DEF Observe, Act, Step, Checkpoint, Close, Dispatched, Accepting, Reading, Reject, disk
  <2>4. CASE Tensors(r) /\ ~SnapshotAllowed
    BY <1>2, <2>4 DEF Tensors, Dispatched, Accepting, Reading, Reject, disk
  <2>5. CASE Tensors(r) /\ SnapshotAllowed
    <3> DEFINE body == [token |-> Token(r.company), decision |-> decisions]
    <3>1. /\ Respond(r, "OK", body) /\ outbox = <<>> /\ mode = "serving" /\ UNCHANGED game
          /\ tensors' \in {tensors, tensors \cup {<<decisions, r.company, world>>}}
      BY <2>5 DEF Tensors, Dispatched, Accepting, Reading, Reject
    <3>2. Buffers' /\ Answers' = Answers \cup {Answer(r, "OK", body)}
      BY <1>1, <3>1
    <3>3. Answer(r, "OK", body).company = r.company /\ Answer(r, "OK", body).body = body
      BY DEF Answer
    <3>4. \A a \in Answered("TENSORS")' :
            a \in Answered("TENSORS") \/ (a.company = r.company /\ a.body = body)
      BY <3>2, <3>3 DEF Answered
    <3>5. Here /\ mode' = mode
      BY <2>5, <3>1 DEF SnapshotAllowed, Here, Respond
    <3> QED BY <3>1, <3>2, <3>4, <3>5 DEF Snapped
  <2> QED BY <1>5, <2>1, <2>2, <2>3, <2>4, <2>5 DEF Serve
<1>6. CASE requests # <<>> /\ Breakdown(Head(requests))
  BY <1>0, <1>6, DropAnswers DEF Breakdown, StepTraceFails, ActFails, FileFails
<1>7. CASE AnyRequest \/ HangUp
  BY <1>0, <1>7, DropAnswers DEF AnyRequest, Send, HangUp, disk
<1>8. CASE Collect
  BY <1>0, <1>8, CollectAnswers DEF Collect, disk
<1> QED BY <1>3, <1>4, <1>5, <1>6, <1>7, <1>8 DEF Next, Native, Trouble, AnyClient

LEMMA SnapshotStep ==
  ASSUME IInv, SnapshotInv, Next
  PROVE  SnapshotInv'
<1>0. /\ Buffers' /\ (NotSnapped \/ \E r : Snapped(r)) /\ BoundaryLeft
      /\ decisions \in Nat /\ SnapshotsCurrent /\ AnswersCurrent /\ FreshSnapshots
  BY KindsOfAnswer, BoundaryStep, BridgeAssumption DEF SnapshotInv, IInv, TypeOK
<1>1. CASE NotSnapped
  <2>1. SnapshotsCurrent'
    BY <1>0, <1>1 DEF NotSnapped, BoundaryLeft, SnapshotsCurrent
  <2>2. AnswersCurrent'
    BY <1>0, <1>1 DEF NotSnapped, BoundaryLeft, AnswersCurrent
  <2>3. FreshSnapshots'
    BY <1>0, <1>1 DEF NotSnapped, FreshSnapshots
  <2> QED BY <1>0, <2>1, <2>2, <2>3 DEF SnapshotInv
<1>2. ASSUME NEW r, Snapped(r)
      PROVE  SnapshotInv'
  <2> DEFINE body == [token |-> Token(r.company), decision |-> decisions]
  <2>0. /\ Here /\ Here' /\ UNCHANGED <<decisions, world>>
        /\ body.decision = decisions /\ body.token[2] = world
    BY <1>2 DEF Snapped, Here, AtBoundary, game, Token
  <2>1. SnapshotsCurrent'
    BY <1>0, <1>2, <2>0 DEF Snapped, SnapshotsCurrent
  <2>2. AnswersCurrent'
    BY <1>0, <1>2, <2>0 DEF Snapped, AnswersCurrent
  <2>3. FreshSnapshots'
    <3> SUFFICES ASSUME NEW a \in Answered("TENSORS")', NEW t \in tensors',
                        t[1] = a.body.decision, t[2] = a.company
                 PROVE  t[3] = a.body.token[2]
      BY DEF FreshSnapshots
    <3>1. CASE a.body.decision = decisions
      BY <2>0, <2>1, <2>2, <3>1 DEF SnapshotsCurrent, AnswersCurrent
    <3>2. CASE a.body.decision # decisions
      <4>1. a \in Answered("TENSORS") /\ t \in tensors
        BY <1>2, <2>0, <3>2 DEF Snapped
      <4> QED BY <1>0, <4>1 DEF FreshSnapshots
    <3> QED BY <3>1, <3>2
  <2> QED BY <1>0, <2>1, <2>2, <2>3 DEF SnapshotInv
<1> QED BY <1>0, <1>1, <1>2

\* The files a TENSORS answer names show the state its token names, also when
\* they were written for an earlier request of the decision, or are read late.
THEOREM SnapshotsAreFresh == Spec => []FreshSnapshots
<1>1. Init => SnapshotInv
  BY DEF Init, SnapshotInv, Buffers, IsSequence, SnapshotsCurrent, AnswersCurrent, FreshSnapshots,
     Answered, Answers
<1>2. IInv /\ SnapshotInv /\ [Next]_vars => SnapshotInv'
  <2>1. ASSUME SnapshotInv, UNCHANGED vars
        PROVE  SnapshotInv'
    BY <2>1 DEF vars, game, disk, SnapshotInv, Buffers, SnapshotsCurrent, AnswersCurrent,
       FreshSnapshots, Answered, Answers, Here, AtBoundary
  <2> QED BY <2>1, SnapshotStep
<1>3. SnapshotInv => FreshSnapshots
  BY DEF SnapshotInv
<1> QED BY <1>1, <1>2, <1>3, Inductive, PTL DEF Spec

-----------------------------------------------------------------------------
(* The session: this process and the client of LiveTransport.  The process *)
(* keeps its invariant: its own steps are those proved about above, and    *)
(* the steps of this client are quiet.                                     *)

Entry == [kind : {"request", "response"}, id : Nat]

TypesOK ==
  /\ request_id \in Nat
  /\ request_id > 0 => call \in Request /\ call.id = request_id
  /\ stage \in {"writing", "header", "body"} => request_id > 0
  /\ IsSequence(responses) /\ IsSequence(heard)
  /\ outbox = <<>> \/ \E a : outbox = <<a>>
  /\ events \in Seq(Entry) /\ flushed \in 0 .. Len(events)
  /\ unsent \subseteq 1 .. request_id

\* The latest identity stands for the latest call, the others for earlier ones.
OfItsCall(a) ==
  /\ a.id \in 1 .. request_id
  /\ a.id = request_id => a.op = call.op /\ a.company = call.company

Served(a) == OfItsCall(a) /\ a.id < expected

AllOfTheirCalls ==
  /\ \A i \in 1 .. Len(requests) : OfItsCall(requests[i])
  /\ \A i \in 1 .. Len(responses) : Served(responses[i])
  /\ outbox # <<>> => Served(outbox[1])

\* What was counted and not yet expected is unsent, being written, or queued.
Ordered ==
  /\ expected \in 1 .. request_id + 1
  /\ stage = "writing" => expected <= request_id
  /\ IdentitiesInOrder

HeardRight ==
  \A i \in 1 .. Len(heard) :
    /\ heard[i][2].op = heard[i][1].op
    /\ heard[i][2].company = heard[i][1].company
    /\ heard[i][2].id = heard[i][1].id

\* Every identity is unsent or has its request on disk; each has at most one
\* request in the log, and at most one answer, after it.
LogInOrder ==
  /\ \A n \in (1 .. request_id) \ unsent :
       \E i \in 1 .. flushed : events[i] = [kind |-> "request", id |-> n]
  /\ \A i \in 1 .. Len(events) : events[i].id \in 1 .. request_id
  /\ \A i \in 1 .. Len(events) : events[i].kind = "response" =>
       \E j \in 1 .. i - 1 : events[j] = [kind |-> "request", id |-> events[i].id]
  /\ \A i, j \in 1 .. Len(events) : events[i] = events[j] => i = j

\* The call in progress was not given up, and its answer is not in the log.
AnswerAwaited ==
  stage \in {"writing", "header", "body"} =>
    /\ request_id \notin unsent
    /\ \A i \in 1 .. Len(events) : events[i] # [kind |-> "response", id |-> request_id]

\* CLOSE was the last call, and it was answered.
AllServed ==
  /\ stage = "exiting" \/ closing = "ok" => expected = request_id + 1 /\ unsent = {}
  /\ closing = "ok" => stage = "gone"

TrueResult ==
  /\ result.status \in {"COMPLETE", "CLOSED"}
  /\ result.decisions = Len(trace) /\ result.pending = (Len(commands) > Len(trace))

\* The trace is whole when the loop is left, and the result is written from it.
Settled ==
  /\ mode = "leaving" => Len(trace) = decisions
  /\ mode = "closed" => TrueResult
  /\ closing = "ok" => mode = "closed"

Conversation == TypesOK /\ AllOfTheirCalls /\ Ordered /\ HeardRight /\ LogInOrder
                  /\ AnswerAwaited /\ AllServed

SessionInv == IInv /\ Conversation /\ Settled

-----------------------------------------------------------------------------
(* The steps of the native process.                                        *)

\* A request is answered, or its handler fails.
Consumed ==
  /\ mode = "serving" /\ outbox = <<>> /\ requests # <<>>
  /\ requests' = Tail(requests) /\ responses' = responses
  /\ Head(requests).id = expected /\ expected' = expected + 1
  /\ \/ \E a : /\ outbox' = <<a>> /\ a.id = Head(requests).id
               /\ a.op = Head(requests).op /\ a.company = Head(requests).company
     \/ mode' = "failed" /\ outbox' = <<>>

\* A frame is refused, which ends the process.
Refused ==
  /\ mode' = "failed" /\ requests # <<>> /\ requests' = Tail(requests)
  /\ UNCHANGED <<responses, expected, outbox>>

Delivered ==
  /\ mode = "serving" /\ outbox # <<>> /\ responses' = responses \o outbox /\ outbox' = <<>>
  /\ UNCHANGED <<requests, expected>>

Idled ==
  /\ outbox' \in {outbox, <<>>}
  /\ mode' = "serving" => mode = "serving"
  /\ UNCHANGED <<requests, responses, expected>>

NativeStep == Native \/ Trouble \/ IdleTimeout \/ EndOfInput

LEMMA KindsOfNativeStep ==
  ASSUME NativeStep
  PROVE  Consumed \/ Refused \/ Delivered \/ Idled
<1>1. CASE WriteResponse
  BY <1>1 DEF WriteResponse, Delivered
<1>2. CASE Finish \/ WriteTimeout \/ FinishFails \/ Killed \/ IdleTimeout \/ EndOfInput
  BY <1>2 DEF Finish, WriteTimeout, FinishFails, Killed, IdleTimeout, EndOfInput,
     FailWith, Idled
<1>3. CASE requests # <<>> /\ Serve(Head(requests))
  <2> DEFINE r == Head(requests)
  <2>1. CASE RefuseFrame(r)
    BY <1>3, <2>1 DEF RefuseFrame, Reading, FailWith, Refused
  <2>2. ASSUME Accepting(r), NEW status, NEW body, Respond(r, status, body)
        PROVE  Consumed
    <3>1. /\ outbox' = <<Answer(r, status, body)>>
          /\ Answer(r, status, body).id = r.id /\ Answer(r, status, body).op = r.op
          /\ Answer(r, status, body).company = r.company
      BY <2>2 DEF Respond, Answer
    <3> QED BY <1>3, <2>2, <3>1 DEF Accepting, Reading, Respond, Consumed
  <2>3. CASE RejectScope(r) \/ RejectTurn(r) \/ RejectShape(r)
    BY <2>2, <2>3 DEF RejectScope, RejectTurn, RejectShape, Dispatched, Reject
  <2>4. CASE Observe(r) \/ Tensors(r) \/ Checkpoint(r) \/ Close(r)
    BY <2>2, <2>4 DEF Observe, Tensors, Checkpoint, Close, Dispatched, Reject
  <2>5. CASE Act(r) \/ Step(r)
    BY <2>2, <2>5 DEF Act, Step, Dispatched, Reject
  <2> QED BY <1>3, <2>1, <2>3, <2>4, <2>5 DEF Serve
<1>4. CASE requests # <<>> /\ Breakdown(Head(requests))
  BY <1>4 DEF Breakdown, StepTraceFails, ActFails, FileFails, Dispatched, Accepting,
     Reading, FailWith, Consumed
<1> QED BY <1>1, <1>2, <1>3, <1>4 DEF NativeStep, Native, Trouble

-----------------------------------------------------------------------------
(* The steps of the client.                                                *)

\* The log may have got one line more, and more of it may be on disk.
LogMoves(e) == events' \in {events, Append(events, e)} /\ flushed' \in flushed .. Len(events')

\* A call is counted and logged; or its line fails, and it is given up.
Asked ==
  /\ stage = "idle" /\ request_id' = request_id + 1
  /\ call' \in Request /\ call'.id = request_id + 1
  /\ LogMoves([kind |-> "request", id |-> request_id + 1])
  /\ \/ /\ stage' = "writing" /\ unsent' = unsent
        /\ events' = Append(events, [kind |-> "request", id |-> request_id + 1])
        /\ flushed' = Len(events')
     \/ stage' \in {"idle", "gone"} /\ unsent' = unsent \cup {request_id + 1}
  /\ mode' \in {mode, "killed"} /\ closing' \in {closing, "error"}
  /\ UNCHANGED <<expected, outbox, requests, responses, heard>>

\* Its frame is queued.
Written ==
  /\ stage = "writing" /\ stage' = "header"
  /\ requests' = Append(requests, call)
  /\ UNCHANGED <<expected, outbox, responses, request_id, call, mode, heard, log, unsent, closing>>

\* An answer is returned to the caller.
Returned ==
  /\ stage = "body" /\ stage' \in {"idle", "exiting"}
  /\ responses # <<>> /\ responses' = Tail(responses) /\ Head(responses).id = request_id
  /\ heard' = Append(heard, <<call, Head(responses)>>)
  /\ LogMoves([kind |-> "response", id |-> request_id])
  /\ UNCHANGED <<expected, outbox, requests, request_id, call, mode, unsent, closing>>

\* A frame is thrown away, or none is touched; a call may end, or not be sent.
Passed ==
  /\ \/ responses' = responses
     \/ responses # <<>> /\ responses' = Tail(responses)
  /\ mode' \in {mode, "killed"}
  /\ stage # "gone" /\ stage' \notin {"writing", "exiting"}
  /\ stage = "exiting" => stage' = "gone"
  /\ stage' \in {"header", "body"} => stage \in {"header", "body"}
  /\ unsent' = IF stage = "writing" THEN unsent \cup {request_id} ELSE unsent
  /\ \/ events' = events /\ flushed' \in flushed .. Len(events)
     \/ stage = "body" /\ stage' \in {"idle", "gone"} /\ LogMoves([kind |-> "response", id |-> request_id])
  /\ closing' = "ok" => closing = "ok" \/ stage = "exiting"
  /\ UNCHANGED <<expected, outbox, requests, request_id, call, heard>>

LEMMA RaiseEnds ==
  ASSUME NEW r, Raise(r)
  PROVE  /\ stage' \in {"idle", "gone"} /\ mode' \in {mode, "killed"}
         /\ closing' \in {closing, "error"}
         /\ UNCHANGED <<expected, outbox, requests>>
BY DEF Raise, Abort, native

LEMMA DropEnds ==
  ASSUME NEW r, Drop(r), TypesOK
  PROVE  /\ stage' \in {"idle", "gone"} /\ mode' \in {mode, "killed"}
         /\ closing' \in {closing, "error"} /\ events' = events /\ flushed' \in flushed .. Len(events)
         /\ UNCHANGED <<expected, outbox, requests>>
<1>1. Raise(r)
  BY DEF Drop
<1>2. /\ stage' \in {"idle", "gone"} /\ mode' \in {mode, "killed"}
      /\ closing' \in {closing, "error"} /\ UNCHANGED <<expected, outbox, requests>>
  BY <1>1, RaiseEnds
<1>3. events' = events /\ flushed' \in flushed .. Len(events)
  <2>1. flushed \in 0 .. Len(events) /\ Len(events) \in Nat
    BY DEF TypesOK
  <2>2. CASE LogCloses
    BY <2>2 DEF LogCloses, LogFails
  <2>3. CASE UNCHANGED log
    BY <2>1, <2>3 DEF log
  <2> QED BY <2>2, <2>3 DEF Drop
<1> QED BY <1>2, <1>3

LEMMA CallIsRequest ==
  ASSUME TypesOK, world \in Nat, NEW op, NEW c, NEW token, NEW candidate,
         Ask(op, c, token, candidate),
         op \in Operations, c \in CompanyIds, token \in (0 .. Companies) \X Int,
         candidate \in {"exposed", "none"}
  PROVE  Asked
<1> DEFINE e == [kind |-> "request", id |-> request_id + 1]
<1>0. request_id \in Nat /\ events \in Seq(Entry) /\ flushed \in 0 .. Len(events)
  BY DEF TypesOK
<1>1. call' = [id |-> request_id + 1, op |-> op, company |-> c, token |-> token, candidate |-> candidate]
  BY DEF Ask, NextIdentity, RequestOf
<1>2. c \in 0 .. Companies
  BY BridgeAssumption DEF CompanyIds
<1>3. call' \in Request /\ call'.id = request_id + 1
  BY <1>0, <1>1, <1>2 DEF Request
<1>4. LogRequest(call') = Append(events, e) /\ e \in Entry
  BY <1>0, <1>3 DEF LogRequest, Event, Entry
<1>5. CASE Logged(LogRequest(call')) /\ stage' = "writing"
              /\ UNCHANGED <<native, requests, open, issued, unsent, closing>>
  <2>1. events' = Append(events, e) /\ flushed' = Len(events')
    BY <1>4, <1>5 DEF Logged
  <2>2. Len(events') = Len(events) + 1 /\ Len(events) \in Nat
    BY <1>0, <1>4, <2>1
  <2>3. LogMoves(e)
    BY <1>0, <2>1, <2>2 DEF LogMoves
  <2> QED BY <1>3, <1>5, <2>1, <2>3 DEF Ask, NextIdentity, Asked, native
<1>6. CASE LogFails(LogRequest(call')) /\ Raise(call') /\ unsent' = unsent \cup {call'.id}
  <2>1. LogMoves(e)
    BY <1>4, <1>6 DEF LogFails, LogMoves
  <2>2. /\ stage' \in {"idle", "gone"} /\ mode' \in {mode, "killed"}
        /\ closing' \in {closing, "error"} /\ UNCHANGED <<expected, outbox, requests>>
    BY <1>6, RaiseEnds
  <2> QED BY <1>3, <1>6, <2>1, <2>2 DEF Ask, NextIdentity, Asked
<1> QED BY <1>5, <1>6 DEF Ask

LEMMA KindsOfClientStep ==
  ASSUME Client, TypesOK, world \in Nat
  PROVE  Asked \/ Written \/ Returned \/ Passed
<1>0. request_id \in Nat /\ events \in Seq(Entry) /\ flushed \in 0 .. Len(events) /\ Len(events) \in Nat
  BY DEF TypesOK
<1>1. CASE AnyCall
  <2>1. ASSUME NEW op \in Calls \ {"ACT"}, NEW c \in CompanyIds, Ask(op, c, NoToken, "none")
        PROVE  Asked
    <3>1. op \in Operations /\ NoToken \in (0 .. Companies) \X Int
      BY BridgeAssumption, TransportAssumption DEF Operations, NoToken
    <3> QED BY <2>1, <3>1, CallIsRequest
  <2>2. ASSUME NEW c \in CompanyIds, NEW w \in 0 .. world, Ask("ACT", c, <<c, w>>, "exposed")
        PROVE  Asked
    BY <2>2, CallIsRequest, BridgeAssumption DEF CompanyIds, Operations
  <2>3. CASE Ask("CLOSE", 0, NoToken, "none")
    BY <2>3, CallIsRequest, BridgeAssumption DEF CompanyIds, Operations, NoToken
  <2> QED BY <1>1, <2>1, <2>2, <2>3 DEF AnyCall
<1>2. CASE Write
  BY <1>2 DEF Write, Written, native, log
<1>3. CASE WriteFails
  <2>1. call.id = request_id
    BY <1>3 DEF WriteFails, TypesOK
  <2> QED BY <1>3, <2>1, DropEnds DEF WriteFails, Passed
<1>4. CASE ReadSize
  BY <1>0, <1>4 DEF ReadSize, Passed, native, pipes, log
<1>5. CASE ReadText \/ ReadTimeout \/ PipeClosed
  BY <1>5, DropEnds DEF ReadText, ReadTimeout, PipeClosed, Passed
<1>6. CASE ReadBody
  <2> DEFINE e == [kind |-> "response", id |-> request_id]
  <2>0. LogResponse(call) = Append(events, e) /\ e \in Entry
    BY <1>0, <1>6 DEF ReadBody, TypesOK, LogResponse, Event, Entry
  <2>1. CASE ~SameIdentity(Head(responses)) /\ Drop(call) /\ UNCHANGED heard
    BY <1>6, <2>1, DropEnds DEF ReadBody, Passed
  <2>2. CASE LogFails(LogResponse(call)) /\ Raise(call) /\ UNCHANGED heard
    <3>1. LogMoves(e)
      BY <2>0, <2>2 DEF LogFails, LogMoves
    <3> QED BY <1>6, <2>2, <3>1, RaiseEnds DEF ReadBody, Passed
  <2>3. CASE SameIdentity(Head(responses)) /\ Logged(LogResponse(call))
               /\ heard' = Append(heard, <<call, Head(responses)>>)
               /\ stage' = (IF call.op = "CLOSE" THEN "exiting" ELSE "idle")
               /\ UNCHANGED <<native, requests, open, issued, closing>>
    <3>1. events' = Append(events, e) /\ flushed' = Len(events')
      BY <2>0, <2>3 DEF Logged
    <3>2. Len(events') = Len(events) + 1
      BY <1>0, <2>0, <3>1
    <3>3. LogMoves(e)
      BY <1>0, <3>1, <3>2 DEF LogMoves
    <3> QED BY <1>6, <2>3, <3>3 DEF ReadBody, SameIdentity, Returned, native
  <2> QED BY <1>6, <2>1, <2>2, <2>3 DEF ReadBody
<1>7. CASE Exit
  BY <1>0, <1>7 DEF Exit, Abort, Passed, log
<1>8. CASE CallerAborts
  BY <1>8 DEF CallerAborts, Abort, Passed, LogCloses, LogFails
<1>9. CASE ClientKilled
  BY <1>0, <1>9 DEF ClientKilled, Passed, native, log
<1> QED BY <1>1, <1>2, <1>3, <1>4, <1>5, <1>6, <1>7, <1>8, <1>9 DEF Client

-----------------------------------------------------------------------------
(* The conversation.                                                       *)

Untouched == UNCHANGED transport
Talk == TypesOK /\ AllOfTheirCalls /\ Ordered /\ AllServed

Numbers == {requests[i].id : i \in 1 .. Len(requests)}
Due == (expected .. request_id) \ (unsent \cup Waiting)

LEMMA ConsumedStep ==
  ASSUME Talk, requests \in Seq(Request), Consumed, Untouched
  PROVE  Talk'
<1> USE DEF Talk
<1>0. /\ Len(requests) \in Nat \ {0} /\ Head(requests) = requests[1]
      /\ Len(requests') = Len(requests) - 1
      /\ \A i \in 1 .. Len(requests') : requests'[i] = requests[i + 1]
  BY DEF Consumed
<1>1. /\ expected \in Nat /\ request_id \in Nat /\ expected' = expected + 1
      /\ requests[1].id = expected /\ expected \in Due /\ Numbers = Due
      /\ \A i, j \in 1 .. Len(requests) : i < j => requests[i].id < requests[j].id
  BY <1>0 DEF TypesOK, Ordered, IdentitiesInOrder, Consumed, Numbers, Due
<1>2. TypesOK'
  BY DEF TypesOK, Consumed, Untouched, transport, IsSequence
<1>3. AllOfTheirCalls'
  <2>1. \A i \in 1 .. Len(requests') : OfItsCall(requests'[i])
    BY <1>0 DEF AllOfTheirCalls
  <2>2. outbox' # <<>> => OfItsCall(outbox'[1]) /\ outbox'[1].id = expected
    BY <1>0, <1>1 DEF AllOfTheirCalls, OfItsCall, Consumed
  <2>3. \A i \in 1 .. Len(responses) : Served(responses[i]) /\ responses[i].id < expected'
    BY <1>1 DEF AllOfTheirCalls, Served, OfItsCall
  <2> QED BY <1>1, <2>1, <2>2, <2>3 DEF AllOfTheirCalls, Served, OfItsCall, Consumed, Untouched, transport
<1>4. Ordered'
  <2>1. expected <= request_id /\ expected \notin unsent /\ (stage = "writing" => expected # request_id)
    BY <1>1 DEF Due, Waiting
  <2>2. expected' \in 1 .. request_id' + 1 /\ (stage' = "writing" => expected' <= request_id')
    BY <1>1, <2>1 DEF Ordered, Untouched, transport
  <2>3. \A n \in unsent : expected' <= n
    <3> SUFFICES ASSUME NEW n \in unsent PROVE expected' <= n
      OBVIOUS
    <3>1. n \in Nat /\ expected <= n /\ n # expected
      BY <2>1 DEF Ordered, IdentitiesInOrder, TypesOK
    <3> QED BY <1>1, <3>1
  <2>4. \A i, j \in 1 .. Len(requests') : i < j => requests'[i].id < requests'[j].id
    <3> SUFFICES ASSUME NEW i \in 1 .. Len(requests'), NEW j \in 1 .. Len(requests'), i < j
                 PROVE  requests'[i].id < requests'[j].id
      OBVIOUS
    <3>1. /\ i + 1 \in 1 .. Len(requests) /\ j + 1 \in 1 .. Len(requests) /\ i + 1 < j + 1
          /\ requests'[i] = requests[i + 1] /\ requests'[j] = requests[j + 1]
      BY <1>0
    <3> QED BY <1>1, <3>1
  <2>5. ASSUME NEW i \in 1 .. Len(requests')
        PROVE  requests'[i].id \in Due'
    <3>1. i + 1 \in 1 .. Len(requests) /\ 1 \in 1 .. Len(requests) /\ 1 < i + 1
          /\ requests'[i] = requests[i + 1]
      BY <1>0
    <3>2. requests[1].id < requests[i + 1].id /\ requests[i + 1].id \in Due
      BY <1>1, <3>1 DEF Numbers
    <3> QED BY <1>1, <3>1, <3>2 DEF Due, Waiting, Untouched, transport
  <2>6. ASSUME NEW n \in Due'
        PROVE  \E i \in 1 .. Len(requests') : requests'[i].id = n
    <3>1. n \in Due /\ n # expected
      BY <1>1 DEF Due, Waiting, Untouched, transport
    <3>2. PICK i \in 1 .. Len(requests) : requests[i].id = n
      BY <1>1, <3>1 DEF Numbers
    <3>3. i # 1
      BY <1>1, <3>1, <3>2
    <3>4. i - 1 \in 1 .. Len(requests') /\ (i - 1) + 1 = i
      BY <1>0, <3>3
    <3>5. requests'[i - 1] = requests[i]
      BY <1>0, <3>4
    <3> QED BY <3>2, <3>4, <3>5
  <2>7. Numbers' = Due'
    BY <2>5, <2>6 DEF Numbers
  <2> QED BY <2>2, <2>3, <2>4, <2>7 DEF Ordered, IdentitiesInOrder, Numbers, Due, Untouched, transport
<1>5. AllServed'
  <2>1. expected # request_id + 1
    BY <1>1 DEF Due
  <2> QED BY <2>1 DEF AllServed, Untouched, transport
<1> QED BY <1>2, <1>3, <1>4, <1>5

LEMMA RefusedStep ==
  ASSUME Talk, requests \in Seq(Request), Refused, Untouched
  PROVE  Talk'
<1> USE DEF Talk, Untouched, transport
<1>0. /\ Len(requests') = Len(requests) - 1 /\ Len(requests) \in Nat \ {0}
      /\ \A i \in 1 .. Len(requests') : requests'[i] = requests[i + 1]
  BY DEF Refused
<1>1. \A i \in 1 .. Len(requests') : OfItsCall(requests'[i])
  BY <1>0 DEF AllOfTheirCalls
<1>2. TypesOK' /\ AllServed'
  BY DEF TypesOK, AllServed, Refused
<1>3. AllOfTheirCalls'
  BY <1>1 DEF AllOfTheirCalls, Served, OfItsCall, Refused
<1>4. Ordered'
  BY DEF Ordered, IdentitiesInOrder, Refused
<1> QED BY <1>2, <1>3, <1>4

LEMMA DeliveredStep ==
  ASSUME Talk, requests \in Seq(Request), Delivered, Untouched
  PROVE  Talk'
<1> USE DEF Talk, Untouched, transport
<1>1. PICK a : outbox = <<a>>
  BY DEF TypesOK, Delivered
<1>2. Served(a)
  BY <1>1 DEF AllOfTheirCalls
<1>3. responses' = Append(responses, a)
  <2>1. PICK S : responses \in Seq(S)
    BY DEF TypesOK, IsSequence
  <2>2. responses \in Seq(S \cup {a}) /\ a \in S \cup {a}
    BY <2>1
  <2> QED BY <1>1, <2>2, AppendIsConcat DEF Delivered
<1>4. /\ IsSequence(responses') /\ Len(responses') = Len(responses) + 1 /\ Len(responses) \in Nat
      /\ \A i \in 1 .. Len(responses) : responses'[i] = responses[i]
      /\ responses'[Len(responses) + 1] = a
  BY <1>3, AppendSequence, BridgeAssumption DEF TypesOK
<1>5. \A i \in 1 .. Len(responses') : Served(responses'[i])
  BY <1>2, <1>4 DEF AllOfTheirCalls
<1>6. TypesOK'
  BY <1>4 DEF TypesOK, Delivered
<1>7. AllOfTheirCalls'
  BY <1>5 DEF AllOfTheirCalls, Served, OfItsCall, Delivered
<1>8. Ordered' /\ AllServed'
  BY DEF Ordered, IdentitiesInOrder, Waiting, AllServed, Delivered
<1> QED BY <1>6, <1>7, <1>8

LEMMA IdledStep ==
  ASSUME Talk, Idled, Untouched
  PROVE  Talk'
<1> USE DEF Talk, Untouched, transport
<1>1. TypesOK' /\ AllOfTheirCalls'
  BY DEF TypesOK, AllOfTheirCalls, Served, OfItsCall, Idled
<1>2. Ordered' /\ AllServed'
  BY DEF Ordered, IdentitiesInOrder, Waiting, AllServed, Idled
<1> QED BY <1>1, <1>2

\* The log stays in order when a line is added to it, or may have been.
LEMMA LogGrows ==
  ASSUME TypesOK, LogInOrder, NEW e \in Entry, LogMoves(e),
         request_id' \in Nat, request_id' >= request_id, unsent \subseteq unsent',
         e.id \in 1 .. request_id', \A i \in 1 .. Len(events) : events[i] # e,
         e.kind = "response" => e.id \in (1 .. request_id) \ unsent,
         \A n \in (1 .. request_id') \ unsent' :
           \/ n \in 1 .. request_id
           \/ /\ e = [kind |-> "request", id |-> n]
              /\ events' = Append(events, e) /\ flushed' = Len(events')
  PROVE  LogInOrder' /\ events' \in Seq(Entry) /\ flushed' \in 0 .. Len(events')
<1>1. /\ events \in Seq(Entry) /\ request_id \in Nat /\ Len(events) \in Nat
      /\ flushed \in 0 .. Len(events)
  BY DEF TypesOK
<1>2. /\ Len(events') \in {Len(events), Len(events) + 1} /\ events' \in Seq(Entry)
      /\ \A i \in 1 .. Len(events) : events'[i] = events[i]
      /\ Len(events') = Len(events) + 1 => events'[Len(events) + 1] = e
      /\ events' = Append(events, e) => Len(events') = Len(events) + 1
  <2>1. Append(events, e) \in Seq(Entry) /\ Len(Append(events, e)) = Len(events) + 1
    BY <1>1
  <2>2. CASE events' = events
    BY <1>1, <2>1, <2>2
  <2>3. CASE events' = Append(events, e)
    BY <1>1, <2>1, <2>3
  <2> QED BY <2>2, <2>3 DEF LogMoves
<1>3. flushed' \in 0 .. Len(events') /\ flushed <= flushed'
  BY <1>1, <1>2 DEF LogMoves
<1>4. ASSUME NEW n \in (1 .. request_id') \ unsent'
      PROVE  \E i \in 1 .. flushed' : events'[i] = [kind |-> "request", id |-> n]
  <2>1. CASE e = [kind |-> "request", id |-> n] /\ events' = Append(events, e) /\ flushed' = Len(events')
    BY <1>1, <1>2, <2>1
  <2>2. CASE n \in 1 .. request_id
    <3>1. PICK i \in 1 .. flushed : events[i] = [kind |-> "request", id |-> n]
      BY <2>2 DEF LogInOrder
    <3> QED BY <1>1, <1>2, <1>3, <3>1
  <2> QED BY <1>4, <2>1, <2>2
<1>5. ASSUME NEW i \in 1 .. Len(events')
      PROVE  events'[i].id \in 1 .. request_id'
  <2>1. CASE i \in 1 .. Len(events)
    <3>1. events[i].id \in 1 .. request_id
      BY <2>1 DEF LogInOrder
    <3> QED BY <1>1, <1>2, <2>1, <3>1
  <2>2. CASE i = Len(events) + 1
    BY <1>1, <1>2, <2>2
  <2> QED BY <1>1, <1>2, <2>1, <2>2
<1>6. ASSUME NEW i \in 1 .. Len(events'), events'[i].kind = "response"
      PROVE  \E j \in 1 .. i - 1 : events'[j] = [kind |-> "request", id |-> events'[i].id]
  <2>1. CASE i \in 1 .. Len(events)
    <3>1. events'[i] = events[i]
      BY <1>2, <2>1
    <3>2. PICK j \in 1 .. i - 1 : events[j] = [kind |-> "request", id |-> events[i].id]
      BY <1>6, <2>1, <3>1 DEF LogInOrder
    <3>3. j \in 1 .. Len(events)
      BY <1>1, <2>1
    <3>4. events'[j] = [kind |-> "request", id |-> events'[i].id]
      BY <1>2, <3>1, <3>2, <3>3
    <3> QED BY <3>4
  <2>2. CASE i = Len(events) + 1
    <3>1. e.id \in (1 .. request_id) \ unsent /\ events'[i] = e
      BY <1>1, <1>2, <1>6, <2>2
    <3>2. PICK j \in 1 .. flushed : events[j] = [kind |-> "request", id |-> e.id]
      BY <3>1 DEF LogInOrder
    <3> QED BY <1>1, <1>2, <1>6, <2>2, <3>1, <3>2
  <2> QED BY <1>1, <1>2, <1>6, <2>1, <2>2
<1>7. ASSUME NEW i \in 1 .. Len(events'), NEW j \in 1 .. Len(events'), events'[i] = events'[j]
      PROVE  i = j
  <2>1. CASE i \in 1 .. Len(events) /\ j \in 1 .. Len(events)
    <3>1. events[i] = events[j]
      BY <1>1, <1>2, <1>7, <2>1
    <3> QED BY <2>1, <3>1 DEF LogInOrder
  <2>2. CASE i = Len(events) + 1 \/ j = Len(events) + 1
    BY <1>1, <1>2, <1>7, <2>2
  <2> QED BY <1>1, <1>2, <2>1, <2>2
<1> QED BY <1>2, <1>3, <1>4, <1>5, <1>6, <1>7 DEF LogInOrder

LEMMA AskedStep ==
  ASSUME Conversation, requests \in Seq(Request), Asked
  PROVE  Conversation'
<1> USE DEF Conversation
<1> DEFINE entry == [kind |-> "request", id |-> request_id + 1]
<1>0. /\ request_id \in Nat /\ request_id' = request_id + 1 /\ call'.id = request_id'
      /\ events \in Seq(Entry) /\ Len(events) \in Nat /\ entry \in Entry
      /\ unsent \subseteq 1 .. request_id
  BY DEF TypesOK, Asked, Entry
<1>1. /\ unsent \subseteq unsent' /\ unsent' \subseteq unsent \cup {request_id'}
      /\ stage' = "writing" <=> request_id' \notin unsent'
      /\ stage' = "writing" => events' = Append(events, entry) /\ flushed' = Len(events')
  BY <1>0 DEF Asked
<1>2. LogInOrder' /\ events' \in Seq(Entry) /\ flushed' \in 0 .. Len(events')
  <2>1. \A i \in 1 .. Len(events) : events[i] # entry
    BY <1>0 DEF LogInOrder
  <2>2. /\ entry \in Entry /\ entry.id \in 1 .. request_id' /\ LogMoves(entry)
        /\ request_id' \in Nat /\ request_id' >= request_id /\ entry.kind # "response"
        /\ unsent \subseteq unsent'
    BY <1>0, <1>1 DEF Asked
  <2>3. ASSUME NEW n \in (1 .. request_id') \ unsent'
        PROVE  \/ n \in 1 .. request_id
               \/ /\ entry = [kind |-> "request", id |-> n]
                  /\ events' = Append(events, entry) /\ flushed' = Len(events')
    BY <1>0, <1>1, <2>3
  <2> HIDE DEF entry
  <2> QED BY <2>1, <2>2, <2>3, LogGrows
<1>3. TypesOK'
  BY <1>0, <1>1, <1>2 DEF TypesOK, Asked
<1>4. AllOfTheirCalls'
  <2>1. ASSUME NEW a, OfItsCall(a)
        PROVE  OfItsCall(a)'
    BY <1>0, <2>1 DEF OfItsCall
  <2>2. ASSUME NEW a, Served(a)
        PROVE  Served(a)'
    BY <1>0, <2>2 DEF Served, OfItsCall, Asked
  <2> QED BY <2>1, <2>2 DEF AllOfTheirCalls, Asked
<1>5. Ordered'
  <2>1. expected' = expected /\ expected \in 1 .. request_id + 1 /\ requests' = requests
    BY DEF Ordered, Asked
  <2>2. \A n \in unsent' : expected' <= n
    BY <1>0, <1>1, <2>1 DEF Ordered, IdentitiesInOrder
  <2>3. mode' = "serving" => mode = "serving"
    BY DEF Asked
  <2>4. Due' = Due
    BY <1>0, <1>1, <2>1 DEF Due, Waiting, Asked
  <2>5. expected' \in 1 .. request_id' + 1 /\ expected' <= request_id'
    BY <1>0, <2>1
  <2> QED BY <2>1, <2>2, <2>3, <2>4, <2>5 DEF Ordered, IdentitiesInOrder, Due
<1>6. HeardRight' /\ AllServed'
  BY DEF HeardRight, AllServed, Asked
<1>7. AnswerAwaited'
  <2>1. \A i \in 1 .. Len(events) : events[i].id \in 1 .. request_id
    BY DEF LogInOrder
  <2>2. events' = events \/ events' = Append(events, entry)
    BY DEF Asked, LogMoves
  <2>0. /\ Len(Append(events, entry)) = Len(events) + 1
        /\ \A i \in 1 .. Len(events) : Append(events, entry)[i] = events[i]
        /\ Append(events, entry)[Len(events) + 1] = entry
    BY <1>0
  <2>3. ASSUME NEW i \in 1 .. Len(events'), events'[i] = [kind |-> "response", id |-> request_id']
        PROVE  FALSE
    <3>1. CASE i \in 1 .. Len(events)
      <4>1. events'[i] = events[i]
        BY <2>0, <2>2, <3>1
      <4> QED BY <1>0, <2>1, <2>3, <3>1, <4>1
    <3>2. CASE i \notin 1 .. Len(events)
      <4>1. events' = Append(events, entry) /\ i = Len(events) + 1
        BY <1>0, <2>0, <2>2, <3>2
      <4>2. events'[i] = entry
        BY <2>0, <4>1
      <4> QED BY <2>3, <4>2
    <3> QED BY <3>1, <3>2
  <2>4. stage' \in {"writing", "header", "body"} => request_id' \notin unsent'
    BY <1>1 DEF Asked
  <2> QED BY <2>3, <2>4 DEF AnswerAwaited
<1> QED BY <1>2, <1>3, <1>4, <1>5, <1>6, <1>7

LEMMA WrittenStep ==
  ASSUME Conversation, requests \in Seq(Request), Written
  PROVE  Conversation'
<1> USE DEF Conversation
<1>0. /\ request_id \in Nat /\ request_id > 0 /\ request_id' = request_id
      /\ call \in Request /\ call.id = request_id /\ call' = call /\ Len(requests) \in Nat
      /\ Len(requests') = Len(requests) + 1 /\ requests'[Len(requests) + 1] = call
      /\ \A i \in 1 .. Len(requests) : requests'[i] = requests[i]
      /\ expected' = expected /\ mode' = mode /\ unsent' = unsent
  BY DEF TypesOK, Written
<1>1. TypesOK' /\ HeardRight' /\ LogInOrder' /\ AnswerAwaited' /\ AllServed'
  BY DEF TypesOK, HeardRight, LogInOrder, AnswerAwaited, AllServed, Written, log
<1>2. AllOfTheirCalls'
  <2>1. \A i \in 1 .. Len(requests') : OfItsCall(requests'[i])
    BY <1>0 DEF AllOfTheirCalls, OfItsCall
  <2> QED BY <1>0, <2>1 DEF AllOfTheirCalls, Served, OfItsCall, Written
<1>3. Ordered'
  <2>1. expected \in Nat /\ expected <= request_id /\ request_id \notin unsent
    BY <1>0 DEF Ordered, AnswerAwaited, Written
  <2>2. CASE mode = "serving"
    <3>0. /\ Numbers = Due /\ \A i, j \in 1 .. Len(requests) : i < j => requests[i].id < requests[j].id
      BY <2>2 DEF Ordered, IdentitiesInOrder, Numbers, Due
    <3>1. Due' = Due \cup {request_id}
      BY <1>0, <2>1 DEF Due, Waiting, Written
    <3>2. Numbers' = Numbers \cup {request_id}
      BY <1>0 DEF Numbers
    <3>3. \A i \in 1 .. Len(requests) : requests[i].id \in Nat /\ requests[i].id < request_id
      <4> SUFFICES ASSUME NEW i \in 1 .. Len(requests)
                   PROVE  requests[i].id \in Nat /\ requests[i].id < request_id
        OBVIOUS
      <4>1. requests[i].id \in Due
        BY <3>0 DEF Numbers
      <4> QED BY <1>0, <2>1, <4>1 DEF Due, Waiting, Written
    <3>4. \A i, j \in 1 .. Len(requests') : i < j => requests'[i].id < requests'[j].id
      <4> SUFFICES ASSUME NEW i \in 1 .. Len(requests'), NEW j \in 1 .. Len(requests'), i < j
                   PROVE  requests'[i].id < requests'[j].id
        OBVIOUS
      <4>1. i \in 1 .. Len(requests)
        BY <1>0
      <4>2. CASE j \in 1 .. Len(requests)
        BY <1>0, <3>0, <4>1, <4>2
      <4>3. CASE j = Len(requests) + 1
        BY <1>0, <3>3, <4>1, <4>3
      <4> QED BY <1>0, <4>2, <4>3
    <3> QED BY <1>0, <3>0, <3>1, <3>2, <3>4
            DEF Ordered, IdentitiesInOrder, Numbers, Due, Written
  <2>3. CASE mode # "serving"
    BY <1>0, <2>3 DEF Ordered, IdentitiesInOrder, Written
  <2> QED BY <2>2, <2>3
<1> QED BY <1>1, <1>2, <1>3

\* A response frame that is taken off the pipe leaves the others as they were.
LEMMA FramesLeft ==
  ASSUME TypesOK, AllOfTheirCalls, UNCHANGED <<request_id, call, expected>>,
         \/ responses' = responses
         \/ responses # <<>> /\ responses' = Tail(responses)
  PROVE  IsSequence(responses)' /\ \A i \in 1 .. Len(responses') : Served(responses[i])'
<1>1. CASE responses' = responses
  BY <1>1 DEF TypesOK, AllOfTheirCalls, Served, OfItsCall
<1>2. CASE responses # <<>> /\ responses' = Tail(responses)
  <2>1. /\ IsSequence(responses') /\ Len(responses) \in Nat \ {0}
        /\ Len(responses') = Len(responses) - 1
        /\ \A i \in 1 .. Len(responses') : responses'[i] = responses[i + 1]
    BY <1>2, TailSequence, BridgeAssumption DEF TypesOK
  <2>2. ASSUME NEW i \in 1 .. Len(responses')
        PROVE  Served(responses[i])'
    <3>1. i + 1 \in 1 .. Len(responses) /\ responses'[i] = responses[i + 1]
      BY <2>1
    <3>2. Served(responses[i + 1])
      BY <3>1 DEF AllOfTheirCalls
    <3> QED BY <3>1, <3>2 DEF Served, OfItsCall
  <2> QED BY <2>1, <2>2
<1> QED BY <1>1, <1>2

\* The answer of the call in progress is logged at most once, after its request.
LEMMA ResponseLogged ==
  ASSUME Conversation, stage \in {"header", "body"}, request_id' = request_id,
         unsent \subseteq unsent', LogMoves([kind |-> "response", id |-> request_id])
  PROVE  LogInOrder' /\ events' \in Seq(Entry) /\ flushed' \in 0 .. Len(events')
<1> USE DEF Conversation
<1> DEFINE entry == [kind |-> "response", id |-> request_id]
<1>1. /\ request_id \in Nat /\ request_id > 0 /\ request_id \notin unsent
      /\ \A i \in 1 .. Len(events) : events[i] # entry
  BY DEF TypesOK, AnswerAwaited
<1>2. /\ entry \in Entry /\ entry.id \in (1 .. request_id) \ unsent
      /\ request_id' \in Nat /\ request_id' >= request_id /\ entry.id \in 1 .. request_id'
  BY <1>1 DEF Entry
<1>3. LogMoves(entry)
  OBVIOUS
<1>4. \A n \in (1 .. request_id') \ unsent' : n \in 1 .. request_id
  OBVIOUS
<1> HIDE DEF entry
<1> QED BY <1>1, <1>2, <1>3, <1>4, LogGrows

LEMMA PassedStep ==
  ASSUME Conversation, Passed
  PROVE  Conversation'
<1> USE DEF Conversation
<1>0. /\ request_id \in Nat /\ request_id' = request_id /\ call' = call /\ expected' = expected
      /\ requests' = requests /\ events \in Seq(Entry) /\ Len(events) \in Nat
      /\ flushed \in 0 .. Len(events) /\ unsent \subseteq 1 .. request_id
      /\ unsent \subseteq unsent' /\ unsent' \subseteq unsent \cup {request_id}
      /\ stage = "writing" => request_id \in 1 .. request_id
  BY DEF TypesOK, Passed
<1>1. IsSequence(responses)' /\ \A i \in 1 .. Len(responses') : Served(responses[i])'
  BY FramesLeft DEF Passed
<1>2. LogInOrder' /\ events' \in Seq(Entry) /\ flushed' \in 0 .. Len(events')
  <2>1. CASE events' = events /\ flushed' \in flushed .. Len(events)
    <3>1. flushed' \in 0 .. Len(events') /\ flushed <= flushed'
      BY <1>0, <2>1
    <3>2. ASSUME NEW n \in (1 .. request_id') \ unsent'
          PROVE  \E i \in 1 .. flushed' : events'[i] = [kind |-> "request", id |-> n]
      <4>1. PICK i \in 1 .. flushed : events[i] = [kind |-> "request", id |-> n]
        BY <1>0 DEF LogInOrder
      <4> QED BY <1>0, <2>1, <3>1, <4>1
    <3> QED BY <1>0, <2>1, <3>1, <3>2 DEF LogInOrder
  <2>2. CASE stage = "body" /\ LogMoves([kind |-> "response", id |-> request_id])
    BY <1>0, <2>2, ResponseLogged
  <2> QED BY <2>1, <2>2 DEF Passed
<1>3. TypesOK'
  BY <1>0, <1>1, <1>2 DEF TypesOK, Passed
<1>4. AllOfTheirCalls'
  BY <1>0, <1>1 DEF AllOfTheirCalls, Served, OfItsCall, Passed
<1>5. Ordered'
  <2>1. \A n \in unsent' : expected' <= n
    <3>1. CASE stage = "writing"
      BY <1>0, <3>1 DEF Ordered, IdentitiesInOrder
    <3>2. CASE stage # "writing"
      BY <1>0, <3>2 DEF Ordered, IdentitiesInOrder, Passed
    <3> QED BY <3>1, <3>2
  <2>2. mode' = "serving" => mode = "serving"
    BY DEF Passed
  <2>3. Due' = Due
    BY <1>0 DEF Due, Waiting, Passed
  <2> QED BY <1>0, <2>1, <2>2, <2>3 DEF Ordered, IdentitiesInOrder, Due, Passed
<1>6. HeardRight' /\ AllServed'
  BY DEF HeardRight, AllServed, Passed
<1>7. AnswerAwaited'
  <2>1. CASE stage' \in {"header", "body"}
    <3>1. stage \in {"header", "body"} /\ unsent' = unsent
      BY <2>1 DEF Passed
    <3>2. events' = events
      BY <2>1 DEF Passed
    <3> QED BY <1>0, <3>1, <3>2 DEF AnswerAwaited
  <2>2. CASE stage' \notin {"header", "body"}
    BY <2>2 DEF AnswerAwaited, Passed
  <2> QED BY <2>1, <2>2
<1> QED BY <1>2, <1>3, <1>4, <1>5, <1>6, <1>7

LEMMA ReturnedStep ==
  ASSUME Conversation, Returned
  PROVE  Conversation'
<1> USE DEF Conversation
<1>1. IsSequence(responses)' /\ \A i \in 1 .. Len(responses') : Served(responses[i])'
  BY FramesLeft DEF Returned
<1>2. /\ Head(responses).id = request_id /\ Head(responses).op = call.op
      /\ Head(responses).company = call.company /\ request_id < expected
  <2>1. Head(responses) = responses[1] /\ 1 \in 1 .. Len(responses)
    BY TailSequence, BridgeAssumption DEF Returned, TypesOK
  <2> QED BY <2>1 DEF Returned, AllOfTheirCalls, Served, OfItsCall
<1>3. /\ request_id \in Nat /\ request_id > 0 /\ call.id = request_id /\ expected \in Nat
      /\ request_id' = request_id /\ unsent' = unsent /\ unsent \subseteq 1 .. request_id
      /\ expected' = expected /\ expected <= request_id + 1
  BY DEF TypesOK, Returned, Ordered
<1>4. /\ IsSequence(heard') /\ Len(heard) \in Nat /\ Len(heard') = Len(heard) + 1
      /\ \A i \in 1 .. Len(heard) : heard'[i] = heard[i]
      /\ heard'[Len(heard) + 1] = <<call, Head(responses)>>
  BY AppendSequence, BridgeAssumption DEF TypesOK, Returned
<1>5. LogInOrder' /\ events' \in Seq(Entry) /\ flushed' \in 0 .. Len(events')
  BY <1>3, ResponseLogged DEF Returned
<1>6. TypesOK'
  BY <1>1, <1>3, <1>4, <1>5 DEF TypesOK, Returned
<1>7. AllOfTheirCalls'
  BY <1>1, <1>3 DEF AllOfTheirCalls, Served, OfItsCall, Returned
<1>8. AnswerAwaited' /\ Ordered'
  BY <1>3 DEF AnswerAwaited, Ordered, IdentitiesInOrder, Waiting, Returned
<1>9. AllServed'
  <2>1. expected = request_id + 1
    BY <1>2, <1>3
  <2>2. unsent = {}
    BY <1>3, <2>1 DEF Ordered, IdentitiesInOrder
  <2> QED BY <1>3, <2>1, <2>2 DEF AllServed, Returned
<1>10. HeardRight'
  <2> SUFFICES ASSUME NEW i \in 1 .. Len(heard')
               PROVE  /\ heard'[i][2].op = heard'[i][1].op
                      /\ heard'[i][2].company = heard'[i][1].company
                      /\ heard'[i][2].id = heard'[i][1].id
    BY DEF HeardRight
  <2>1. CASE i \in 1 .. Len(heard)
    BY <1>4, <2>1 DEF HeardRight
  <2>2. CASE i = Len(heard) + 1
    BY <1>2, <1>3, <1>4, <2>2
  <2> QED BY <1>4, <2>1, <2>2
<1> QED BY <1>5, <1>6, <1>7, <1>8, <1>9, <1>10

LEMMA ConversationStep ==
  ASSUME SessionInv, SessionNext
  PROVE  Conversation'
<1>0. requests \in Seq(Request) /\ world \in Nat /\ Conversation /\ TypesOK
  BY DEF SessionInv, IInv, TypeOK, Conversation
<1>1. CASE Client
  BY <1>0, <1>1, KindsOfClientStep, AskedStep, WrittenStep, ReturnedStep, PassedStep
<1>2. CASE Process
  <2>1. NativeStep /\ Untouched
    BY <1>2 DEF Process, NativeStep, Untouched
  <2>2. Talk'
    BY <1>0, <2>1, KindsOfNativeStep, ConsumedStep, RefusedStep, DeliveredStep, IdledStep
       DEF Conversation, Talk
  <2>3. HeardRight' /\ LogInOrder' /\ AnswerAwaited'
    BY <1>0, <2>1 DEF Conversation, HeardRight, LogInOrder, AnswerAwaited, Untouched, transport
  <2> QED BY <2>2, <2>3 DEF Conversation, Talk
<1> QED BY <1>1, <1>2 DEF SessionNext

-----------------------------------------------------------------------------
(* The native process, and its result.                                     *)

\* To the bridge, a step of this client is one of its own kind of client, or the
\* end of the process.
LEMMA ClientIsQuiet ==
  ASSUME Client
  PROVE  /\ UNCHANGED <<expected, game, disk, outbox>>
         /\ mode' \in {mode, "killed"} /\ (~Running => mode' = mode)
         /\ open' \in {open, FALSE} /\ issued' \in {issued, issued + 1}
         /\ closing' \in {closing, "ok", "error"}
         /\ closing' = "ok" => closing = "ok" \/ mode = "closed"
<1> USE DEF game, disk
<1>1. ASSUME NEW r, Raise(r) \/ Drop(r)
      PROVE  /\ UNCHANGED <<expected, game, disk, outbox>>
             /\ mode' \in {mode, "killed"} /\ (~Running => mode' = mode)
             /\ open' \in {open, FALSE} /\ issued' = issued
             /\ closing' \in {closing, "error"}
  BY <1>1 DEF Drop, Raise, Abort, native
<1>2. ASSUME NEW op, NEW c, NEW token, NEW candidate, Ask(op, c, token, candidate)
      PROVE  /\ UNCHANGED <<expected, game, disk, outbox>>
             /\ mode' \in {mode, "killed"} /\ (~Running => mode' = mode)
             /\ open' \in {open, FALSE} /\ issued' \in {issued, issued + 1}
             /\ closing' \in {closing, "error"}
  <2>1. CASE Raise(call')
    BY <1>1, <2>1
  <2>2. CASE UNCHANGED <<native, requests, open, issued, unsent, closing>>
    BY <2>2 DEF native
  <2> QED BY <1>2, <2>1, <2>2 DEF Ask
<1>3. CASE AnyCall
  BY <1>2, <1>3 DEF AnyCall
<1>4. CASE ReadSize \/ Write \/ ClientKilled
  BY <1>4 DEF ReadSize, Write, ClientKilled, native, pipes
<1>5. CASE WriteFails \/ ReadText \/ ReadTimeout \/ PipeClosed
  BY <1>1, <1>5 DEF WriteFails, ReadText, ReadTimeout, PipeClosed
<1>6. CASE ReadBody
  <2>1. CASE Drop(call) \/ Raise(call)
    BY <1>1, <2>1
  <2>2. CASE UNCHANGED <<native, requests, open, issued, closing>>
    BY <2>2 DEF native
  <2> QED BY <1>6, <2>1, <2>2 DEF ReadBody
<1>7. CASE Exit
  <2>1. /\ UNCHANGED <<expected, game, disk, outbox>>
        /\ mode' \in {mode, "killed"} /\ (~Running => mode' = mode)
        /\ open' \in {open, FALSE} /\ issued' \in {issued, issued + 1}
    BY <1>7 DEF Exit, Abort
  <2>2. CASE ExitedCleanly
    BY <1>7, <2>1, <2>2 DEF Exit, ExitedCleanly
  <2>3. CASE ~ExitedCleanly
    BY <1>7, <2>1, <2>3 DEF Exit
  <2> QED BY <2>2, <2>3
<1>8. CASE CallerAborts
  BY <1>8 DEF CallerAborts, Abort
<1> QED BY <1>3, <1>4, <1>5, <1>6, <1>7, <1>8 DEF Client

LEMMA BridgeStep ==
  ASSUME SessionInv, SessionNext
  PROVE  IInv'
<1>0. IInv /\ TypeOK /\ TypesOK /\ world \in Nat
  BY DEF SessionInv, IInv, TypeOK, Conversation
<1>1. CASE Client
  <2>1. /\ UNCHANGED <<expected, game, disk, outbox>>
        /\ mode' \in {mode, "killed"} /\ open' \in {open, FALSE} /\ issued' \in {issued, issued + 1}
    BY <1>0, <1>1, ClientIsQuiet
  <2>2. requests' \in Seq(Request)
    <3>1. requests \in Seq(Request)
      BY <1>0 DEF TypeOK
    <3>2. requests' = requests \/ (call \in Request /\ requests' = Append(requests, call))
      BY <1>0, <1>1, KindsOfClientStep DEF Asked, Written, Returned, Passed, TypesOK
    <3> QED BY <3>1, <3>2
  <2>3. TypeOK'
    <3>1. GameTypeOK'
      BY <1>0, <2>1 DEF TypeOK, GameTypeOK, game
    <3>2. mode' \in {"serving", "leaving", "closed", "failed", "killed"}
      BY <1>0, <2>1 DEF TypeOK
    <3>3. expected' \in Nat /\ open' \in BOOLEAN /\ issued' \in Nat
      <4>1. expected \in Nat /\ open \in BOOLEAN /\ issued \in Nat
        BY <1>0 DEF TypeOK
      <4>2. expected' = expected /\ open' \in {open, FALSE} /\ issued' \in {issued, issued + 1}
        BY <2>1
      <4>3. open' \in BOOLEAN
        BY <4>1, <4>2, Zenon
      <4>4. expected' \in Nat /\ issued' \in Nat
        BY <4>1, <4>2
      <4> QED BY <4>3, <4>4
    <3>4. UNCHANGED disk
      BY <2>1
    <3>5. /\ tensors' \subseteq Nat \X CompanyIds \X Nat /\ saves' \subseteq Nat \X Nat
          /\ result' \in [status: {"NONE", "COMPLETE", "CLOSED", "FAILED"}, decisions: Nat, pending: BOOLEAN]
      BY <1>0, <3>4 DEF TypeOK, disk
    <3> QED BY <2>2, <3>1, <3>2, <3>3, <3>5 DEF TypeOK, GameTypeOK
  <2>4. Quiet
    BY <2>1 DEF Quiet
  <2>5. IRest'
    BY <1>0, <2>4, QuietStep, BridgeAssumption
  <2> QED BY <2>3, <2>5 DEF IInv, IRest
<1>2. CASE Process
  <2>1. Next
    BY <1>2 DEF Process, Next
  <2> QED BY <1>0, <2>1, StepInv, BridgeAssumption
<1> QED BY <1>1, <1>2 DEF SessionNext

\* The loop is left between two recorded decisions; then only the result is written.
LEMMA EndOfNative ==
  ASSUME NativeStep
  PROVE  /\ mode \in {"serving", "leaving"}
         /\ mode' = "leaving" => mode = "serving" /\ UNCHANGED <<trace, decisions>>
         /\ mode' = "closed" => mode = "leaving" /\ Finish
<1>1. CASE WriteResponse \/ EndOfInput
  BY <1>1 DEF WriteResponse, EndOfInput, game
<1>2. CASE Finish \/ WriteTimeout \/ FinishFails \/ Killed \/ IdleTimeout
  BY <1>2 DEF Finish, WriteTimeout, FinishFails, Killed, IdleTimeout, FailWith
<1>3. CASE requests # <<>> /\ Serve(Head(requests))
  BY <1>3 DEF Serve, RefuseFrame, RejectScope, RejectTurn, RejectShape, Observe,
     Tensors, Act, Step, Checkpoint, Close, Dispatched, Accepting, Reading,
     FailWith, Respond, Reject
<1>4. CASE requests # <<>> /\ Breakdown(Head(requests))
  BY <1>4 DEF Breakdown, StepTraceFails, ActFails, FileFails, Dispatched, Accepting,
     Reading, FailWith
<1> QED BY <1>1, <1>2, <1>3, <1>4 DEF NativeStep, Native, Trouble

LEMMA FinishTellsTheTruth ==
  ASSUME IInv, Settled, Finish
  PROVE  TrueResult'
<1>1. /\ result' = [status |-> result'.status, decisions |-> decisions, pending |-> pending]
      /\ result'.status \in {"COMPLETE", "CLOSED"}
      /\ UNCHANGED <<trace, commands>> /\ mode = "leaving"
  BY DEF Finish, FinalResult, game
<1>2. Len(trace) = decisions
  BY <1>1 DEF Settled
<1>3. pending \in BOOLEAN /\ decisions \in Nat
  BY BridgeAssumption DEF IInv, TypeOK
<1>4. Len(commands) = decisions + (IF pending THEN 1 ELSE 0)
  BY DEF IInv, OneCommandPerDecision
<1>5. pending = (Len(commands) > decisions)
  <2>1. CASE pending
    <3>1. Len(commands) > decisions
      BY <1>3, <1>4, <2>1
    <3> QED BY <1>3, <2>1, <3>1, Zenon
  <2>2. CASE ~pending
    <3>1. ~(Len(commands) > decisions)
      BY <1>3, <1>4, <2>2
    <3>2. pending = FALSE
      BY <1>3, <2>2, Zenon
    <3>3. (Len(commands) > decisions) = FALSE
      BY <1>3, <1>4, <2>2, SMT
    <3> QED BY <3>2, <3>3, Zenon
  <2> QED BY <2>1, <2>2
<1>6. result'.decisions = Len(trace') /\ result'.pending = (Len(commands') > Len(trace'))
  BY <1>1, <1>2, <1>5
<1> QED BY <1>1, <1>6 DEF TrueResult

LEMMA SettledStep ==
  ASSUME SessionInv, SessionNext
  PROVE  Settled'
<1>0. IInv /\ Settled
  BY DEF SessionInv
<1>1. CASE Client
  <2>1. /\ UNCHANGED <<game, disk>> /\ mode' \in {mode, "killed"} /\ (~Running => mode' = mode)
        /\ closing' \in {closing, "ok", "error"}
        /\ closing' = "ok" => closing = "ok" \/ mode = "closed"
    BY <1>0, <1>1, ClientIsQuiet
  <2> QED BY <1>0, <2>1 DEF Settled, TrueResult, Running, game, disk
<1>2. CASE Process
  <2>1. NativeStep /\ closing' = closing
    BY <1>2 DEF Process, NativeStep, transport
  <2>2. mode' = "leaving" => Len(trace') = decisions'
    BY <1>0, <2>1, EndOfNative DEF IInv, TraceLength
  <2>3. mode' = "closed" => TrueResult'
    BY <1>0, <2>1, EndOfNative, FinishTellsTheTruth
  <2>4. closing' # "ok"
    BY <1>0, <2>1, EndOfNative DEF Settled
  <2> QED BY <2>2, <2>3, <2>4 DEF Settled
<1> QED BY <1>1, <1>2 DEF SessionNext

-----------------------------------------------------------------------------
(* The invariant is inductive.                                             *)

LEMMA SessionInitInv == SessionInit => SessionInv
<1> SUFFICES ASSUME SessionInit PROVE SessionInv
  OBVIOUS
<1>1. Init
  BY DEF SessionInit, Init, Init, CompanyIds, CompanyIds, NoResult, NoResult
<1>2. IInv
  BY <1>1, InitInv, BridgeAssumption
<1>3. /\ request_id = 0 /\ stage = "idle" /\ heard = <<>> /\ events = <<>> /\ closing = "none"
      /\ flushed = 0 /\ unsent = {}
      /\ outbox = <<>> /\ requests = <<>> /\ responses = <<>> /\ mode = "serving" /\ expected = 1
  BY <1>1 DEF SessionInit, Init
<1>4. IsSequence(<<>>)
  BY DEF IsSequence
<1>5. TypesOK
  BY <1>3, <1>4 DEF TypesOK
<1>6. /\ AllOfTheirCalls /\ Ordered /\ HeardRight /\ LogInOrder /\ AnswerAwaited /\ AllServed
      /\ Settled
  BY <1>3 DEF AllOfTheirCalls, Ordered, IdentitiesInOrder, Waiting, HeardRight, LogInOrder,
     AnswerAwaited, AllServed, Settled
<1> QED BY <1>2, <1>5, <1>6 DEF SessionInv, Conversation

LEMMA SessionStepInv == SessionInv /\ [SessionNext]_session => SessionInv'
<1> SUFFICES ASSUME SessionInv, [SessionNext]_session PROVE SessionInv'
  OBVIOUS
<1>1. CASE SessionNext
  BY <1>1, BridgeStep, ConversationStep, SettledStep DEF SessionInv
<1>2. CASE UNCHANGED session
  <2>1. Quiet /\ TypeOK'
    BY <1>2 DEF session, native, pipes, Quiet, game, TypeOK, SessionInv, IInv
  <2>2. IInv'
    BY <2>1, QuietStep, BridgeAssumption DEF SessionInv, IInv, IRest
  <2>3. Conversation' /\ Settled'
    BY <1>2 DEF session, native, pipes, transport, SessionInv, Conversation, Settled, TypesOK,
       AllOfTheirCalls, Served, OfItsCall, Ordered, IdentitiesInOrder, Waiting, HeardRight,
       LogInOrder, AnswerAwaited, AllServed, TrueResult
  <2> QED BY <2>2, <2>3 DEF SessionInv
<1> QED BY <1>1, <1>2

\* What holds of the client and the native process together after every step.
THEOREM SessionInductive == SessionSpec => []SessionInv
BY SessionInitInv, SessionStepInv, PTL DEF SessionSpec

\* A caller only ever gets the answer of its own call, whatever was late, cut off,
\* left unread or not logged.
THEOREM OwnAnswers == SessionSpec => []AnswersMatchCalls
<1>1. SessionInv => AnswersMatchCalls
  BY DEF SessionInv, Conversation, HeardRight, AnswersMatchCalls
<1> QED BY <1>1, SessionInductive, PTL

\* The process never gets past the number of a call that failed before its frame
\* was written, and everything else it is sent comes once and in order.
THEOREM InOrder == SessionSpec => []IdentitiesInOrder
<1>1. SessionInv => IdentitiesInOrder
  BY DEF SessionInv, Conversation, Ordered
<1> QED BY <1>1, SessionInductive, PTL

\* Whatever request the process may have acted on is on disk in requests.jsonl, and
\* every answer logged there follows its request, once.
THEOREM EffectsAreLogged == SessionSpec => []EventsAccountForEffects
<1>1. SessionInv => EventsAccountForEffects
  <2> SUFFICES ASSUME SessionInv PROVE EventsAccountForEffects
    OBVIOUS
  <2>1. ASSUME NEW n \in 1 .. expected - 1
        PROVE  n \in (1 .. request_id) \ unsent
    <3>1. expected \in 1 .. request_id + 1 /\ request_id \in Nat /\ \A m \in unsent : expected <= m
      BY DEF SessionInv, Conversation, TypesOK, Ordered, IdentitiesInOrder
    <3> QED BY <3>1
  <2> QED BY <2>1 DEF SessionInv, Conversation, LogInOrder, EventsAccountForEffects
<1> QED BY <1>1, SessionInductive, PTL

\* When close returns, every call of the session was served, the process has
\* written its result, and the result tells how many decisions were recorded and
\* whether a command was left without one.
THEOREM CloseIsTrue == SessionSpec => []CleanCloseMeansResult
<1>1. SessionInv => CleanCloseMeansResult
  BY DEF SessionInv, Settled, TrueResult, Conversation, AllServed, CleanCloseMeansResult
<1> QED BY <1>1, SessionInductive, PTL

\* With this client too, whatever it leaves unread: one command per decision, a
\* trace in turn and unbroken, and no state token spent twice.
THEOREM BridgeKept ==
  SessionSpec => [](OneCommandPerDecision /\ TraceFollowsTurns /\ UnbrokenHistory /\ TokensSpentOnce)
<1>1. SessionInv => OneCommandPerDecision /\ TraceFollowsTurns /\ UnbrokenHistory /\ TokensSpentOnce
  BY HistoryHolds, SingleUseHolds DEF SessionInv, IInv
<1> QED BY <1>1, SessionInductive, PTL
=============================================================================
