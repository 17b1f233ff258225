----------------------------- MODULE SyncBridge -----------------------------
(***************************************************************************)
(* The synchronized V1 environment worker: one OpenTTD process that reads   *)
(* checksummed frames from a pipe and answers each one (BridgeWorker, built *)
(* up by the m03, m04, m05, m06 and m09 patches; this module is the worker  *)
(* after all of them).  The client sends anything: stale, skipped and       *)
(* repeated requests, old handles and tokens, damaged frames, half frames,  *)
(* and it may stop reading.                                                 *)
(*                                                                         *)
(* The engine is reduced to the actions it executed in this episode and to  *)
(* the set of actions that are legal at the present boundary; a tick        *)
(* interval is one unit, since every step advances the same 128 ticks.      *)
(***************************************************************************)
EXTENDS Integers, Sequences

CONSTANTS Sessions,        \* session identities a client may choose, from 1
          Actions,         \* indices of the policy's action registry
          Wait,            \* the action that every active boundary allows
          DefaultHorizon,  \* DEFAULT_ACTION_HORIZON
          Horizons,        \* horizons an evaluation reset may ask for
          MaxEpisodes,     \* bound: resets that are accepted
          MaxRequests      \* bound: request identities that are used

ASSUME SyncBridgeAssumption ==
  /\ Sessions \subseteq Nat \ {0}
  /\ Actions \subseteq Nat /\ Wait \in Actions
  /\ DefaultHorizon \in Nat \ {0}
  /\ Horizons \subseteq Nat \ {0}
  /\ MaxEpisodes \in Nat /\ MaxRequests \in Nat

VARIABLES
  lifecycle,
  session, episode,    \* the handle; a zero names nothing
  lastRequest,         \* last_request_id
  ordinal,             \* transition_ordinal
  horizon,             \* action_horizon, and tick_horizon with it
  maskToken,           \* last_mask_token
  done,                \* episode_done
  legal,               \* actions legal at the present boundary of the engine
  doing,               \* the RESET or STEP that is under way
  log,                 \* history: every action the engine executed
  wanted,              \* history: the horizon each episode's reset asked for
  outgoing,            \* the response that is being written
  answer,              \* the last response that was written
  process              \* running, exited with code 0, or ended by an exception

handle == <<session, episode>>
engine == <<legal, log>>
episodeState == <<ordinal, horizon, maskToken, done, wanted>>
vars == <<lifecycle, handle, lastRequest, episodeState, engine, doing, outgoing, answer, process>>

-----------------------------------------------------------------------------
Stable == {"READY", "AT_BOUNDARY", "PAUSED", "FAILED", "CLOSED"}
Transient == {"RESETTING", "EXECUTING", "ADVANCING"}
None == [kind |-> "none"]
NoToken == [mask |-> {}, episode |-> 0, ordinal |-> 0]
Foreign == -1   \* an index that the registry does not have

AskedHorizons == Horizons \cup {DefaultHorizon}
MaxOrdinal == CHOOSE n \in AskedHorizons : \A m \in AskedHorizons : m <= n

Named == Sessions \cup {0}   \* what a frame may have in its session field

\* The frames a client can send that pass every check of ReadFrame.
Frames ==
  [session : Named, episode : 0 .. MaxEpisodes,
   ordinal : 0 .. MaxOrdinal + 1, payload : {"good", "bad"}]

\* A mask token digests the boundary and the mask; FNV-1a is taken to be
\* injective on them.  The boundary token of a STEP says no more than its
\* handle and ordinal, which are compared as well.
Tokens == [mask : SUBSET Actions, episode : 0 .. MaxEpisodes, ordinal : 0 .. MaxOrdinal]
Token(mask) == [mask |-> mask, episode |-> episode, ordinal |-> ordinal]

Init ==
  /\ lifecycle = "READY"
  /\ session = 0 /\ episode = 0
  /\ lastRequest = 0 /\ ordinal = 0
  /\ horizon = DefaultHorizon
  /\ maskToken = NoToken
  /\ done = FALSE
  /\ legal = {}
  /\ doing = None
  /\ log = <<>>
  /\ wanted = <<>>
  /\ outgoing = None /\ answer = None
  /\ process = "running"

-----------------------------------------------------------------------------
(* Responses: the header carries the worker's handle and ordinal, not the   *)
(* request's, except before the first reset.                                *)

Respond(kind, s) == outgoing' = [kind |-> kind, session |-> s]

Written ==
  /\ outgoing.kind # "none"
  /\ answer' = [kind |-> outgoing.kind, episode |-> episode, ordinal |-> ordinal,
                session |-> IF session = 0 THEN outgoing.session ELSE session]
  /\ outgoing' = None
  /\ process' = IF lifecycle = "CLOSED" THEN "exited"
                ELSE IF outgoing.kind = "thrown" THEN "threw" ELSE "running"
  /\ UNCHANGED <<lifecycle, handle, lastRequest, episodeState, engine, doing>>

\* The client has gone: the write throws inside the catch block and ends Run.
WriteFails ==
  /\ outgoing.kind # "none"
  /\ outgoing' = None
  /\ lifecycle' = IF outgoing.kind = "refused" THEN lifecycle ELSE "FAILED"
  /\ process' = "threw"
  /\ UNCHANGED <<handle, lastRequest, episodeState, engine, doing, answer>>

Reading == process = "running" /\ outgoing = None /\ doing = None

InOrder(id) == id = lastRequest + 1
ValidHandle(r) == session # 0 /\ r.session = session /\ r.episode = episode
AtCurrent(r) == ValidHandle(r) /\ r.ordinal = ordinal

-----------------------------------------------------------------------------
(* When each operation is accepted.                                         *)

\* Mutation: a failed worker may be reset.
ResetRevives(r) ==
  /\ lifecycle \in {"READY", "AT_BOUNDARY", "FAILED"}
  /\ r.payload = "good"
  /\ r.session # 0 /\ r.ordinal = 0
  /\ IF session = 0 THEN r.episode = 0 ELSE r.session = session /\ r.episode = episode

ResetAccepted(r) ==
  /\ lifecycle \in {"READY", "AT_BOUNDARY"}
  /\ r.payload = "good"
  /\ r.session # 0 /\ r.ordinal = 0
  /\ IF session = 0 THEN r.episode = 0 ELSE r.session = session /\ r.episode = episode

QueryAccepted(r) ==
  /\ lifecycle \in {"AT_BOUNDARY", "PAUSED"}
  /\ r.payload = "good"
  /\ AtCurrent(r)

PauseAccepted(r) == lifecycle = "AT_BOUNDARY" /\ r.payload = "good" /\ AtCurrent(r)
ResumeAccepted(r) == lifecycle = "PAUSED" /\ r.payload = "good" /\ AtCurrent(r)

\* Mutation: a failed worker is closed by its handle, which a failed first
\* reset never gave it.
CloseByHandle(r) ==
  /\ lifecycle \in {"READY", "AT_BOUNDARY", "PAUSED", "FAILED"}
  /\ r.payload = "good"
  /\ IF lifecycle = "READY" THEN r.episode = 0 /\ r.ordinal = 0 ELSE AtCurrent(r)

CloseAccepted(r) ==
  /\ lifecycle \in {"READY", "AT_BOUNDARY", "PAUSED", "FAILED"}
  /\ r.payload = "good"
  /\ IF lifecycle = "READY" \/ (lifecycle = "FAILED" /\ session = 0)
     THEN r.episode = 0 /\ r.ordinal = 0
     ELSE AtCurrent(r)

\* Mutation: a later ordinal will do.
StepAhead(r, token) ==
  /\ lifecycle = "AT_BOUNDARY" /\ r.payload = "good" /\ ValidHandle(r)
  /\ r.ordinal > ordinal
  /\ maskToken # NoToken /\ token = maskToken /\ ~done

StepAccepted(r, token) ==
  /\ lifecycle = "AT_BOUNDARY"
  /\ r.payload = "good"
  /\ ValidHandle(r)
  /\ r.ordinal = ordinal + 1
  /\ maskToken # NoToken /\ token = maskToken
  /\ ~done

-----------------------------------------------------------------------------
(* Refusals: a BridgeError that is not fatal.  Only a payload that is not   *)
(* canonical JSON and an identity out of order leave last_request_id alone. *)

Refuse ==
  /\ \E s \in Named : Respond("refused", s)
  /\ UNCHANGED <<lifecycle, handle, episodeState, engine, doing, answer, process>>

NotCanonical == Reading /\ Refuse /\ UNCHANGED lastRequest

OutOfOrder ==
  /\ Reading
  /\ \E id \in 0 .. MaxRequests + 2 : ~InOrder(id)
  /\ Refuse
  /\ UNCHANGED lastRequest

\* ValidateOrdering: the identity is used up whatever the handler then says.
Consume ==
  /\ Reading
  /\ \E id \in 1 .. MaxRequests : InOrder(id) /\ lastRequest' = id

\* An operation whose conditions do not hold, or an unknown message type,
\* which a frame of any content can have.
Refused == Consume /\ Refuse

-----------------------------------------------------------------------------
(* Failures, which leave the worker FAILED but reading.                     *)

Fatal(s) ==
  /\ lifecycle' = "FAILED"
  /\ UNCHANGED <<handle, episodeState, engine>>
  /\ doing' = None
  /\ Respond("fatal", s)
  /\ UNCHANGED <<answer, process>>

\* BAD_MAGIC, BAD_PROTOCOL_VERSION, BAD_FLAGS, BAD_FRAME, BAD_CHECKSUM.
DamagedFrame ==
  /\ Reading
  /\ \E s \in Named : Fatal(s)
  /\ UNCHANGED lastRequest

\* A RESET whose override fields have the wrong JSON type is not refused:
\* get<int64_t> throws, which Run takes for a failure of the engine.
MistypedReset ==
  /\ lifecycle \in {"READY", "AT_BOUNDARY"}
  /\ Consume
  /\ \E s \in Named : Fatal(s)

\* OVERSIZED_PAYLOAD, and a frame cut off inside its payload: answered, and
\* then the process ends.
EndingFrame ==
  /\ Reading
  /\ lifecycle' = "FAILED"
  /\ \E s \in Named : Respond("thrown", s)
  /\ UNCHANGED <<handle, episodeState, engine, lastRequest, doing, answer, process>>

\* The pipe ends before a header is complete: nothing can be answered.
EndOfInput ==
  /\ Reading
  /\ lifecycle' = "FAILED"
  /\ process' = "threw"
  /\ UNCHANGED <<handle, lastRequest, episodeState, engine, doing, outgoing, answer>>

-----------------------------------------------------------------------------
(* RESET                                                                    *)

ResetBegins ==
  /\ Consume
  /\ episode < MaxEpisodes
  /\ \E r \in Frames :
       /\ ResetAccepted(r)
       /\ \E h \in AskedHorizons : doing' = [kind |-> "RESET", request |-> r, horizon |-> h]
  /\ lifecycle' = "RESETTING"
  /\ UNCHANGED <<handle, episodeState, engine, outgoing, answer, process>>

\* The scenario is materialized: a new world, and nothing of the old episode.
ResetEnds ==
  /\ doing.kind = "RESET"
  /\ lifecycle' = "AT_BOUNDARY"
  /\ session' = IF session = 0 THEN doing.request.session ELSE session
  /\ episode' = episode + 1
  /\ ordinal' = 0
  /\ horizon' = doing.horizon
  /\ maskToken' = NoToken
  /\ done' = FALSE
  /\ wanted' = Append(wanted, doing.horizon)
  /\ legal' \in {mask \in SUBSET Actions : Wait \in mask}
  /\ log' = log
  /\ doing' = None
  /\ Respond("ok", doing.request.session)
  /\ UNCHANGED <<lastRequest, answer, process>>

\* M02 materialization or its checks throw.
ResetFails ==
  /\ doing.kind = "RESET"
  /\ Fatal(doing.request.session)
  /\ UNCHANGED lastRequest

-----------------------------------------------------------------------------
(* Queries                                                                  *)

Snapshot ==
  /\ Consume
  /\ \E r \in Frames : QueryAccepted(r) /\ Respond("ok", r.session)
  /\ UNCHANGED <<lifecycle, handle, episodeState, engine, doing, answer, process>>

\* OBSERVE reads as SNAPSHOT does. Its extraction and that of LEGAL_ACTIONS are
\* checked for perturbing the engine, and may throw.
ObserveFails ==
  /\ Consume
  /\ \E r \in Frames : QueryAccepted(r) /\ Fatal(r.session)

\* The mask that LEGAL_ACTIONS serializes is all zero while paused or done.
OfferedMask == IF lifecycle = "AT_BOUNDARY" /\ ~done THEN legal ELSE {}

LegalActions ==
  /\ Consume
  /\ \E r \in Frames : QueryAccepted(r) /\ Respond("ok", r.session)
  /\ maskToken' = Token(OfferedMask)
  /\ UNCHANGED <<lifecycle, handle, ordinal, horizon, done, wanted, engine, doing, answer, process>>

-----------------------------------------------------------------------------
(* STEP                                                                     *)

\* An index outside the registry, or not legal now: an OK response with the
\* outcome ILLEGAL_INPUT, and the boundary and its token stay.
IllegalInput ==
  /\ Consume
  /\ \E r \in Frames :
       /\ \E token \in Tokens : StepAccepted(r, token)
       /\ \E action \in Actions \cup {Foreign} : action \notin legal
       /\ Respond("ok", r.session)
  /\ UNCHANGED <<lifecycle, handle, episodeState, engine, doing, answer, process>>

StepBegins ==
  /\ Consume
  /\ \E r \in Frames :
       /\ \E token \in Tokens, action \in Actions :
            /\ StepAccepted(r, token)
            /\ action \in legal
            /\ doing' = [kind |-> "STEP", request |-> r, action |-> action, shown |-> token]
  /\ lifecycle' = "EXECUTING"
  /\ UNCHANGED <<handle, episodeState, engine, outgoing, answer, process>>

Row(r, action, shown) ==
  [episode |-> episode, ordinal |-> r.ordinal, id |-> lastRequest, action |-> action,
   legal |-> legal, shown |-> shown]

\* ExecuteRlAction ran: SUCCESS, NO_OP or NATIVE_REJECTED, and its commands
\* are in the engine before the first tick.
Execute ==
  /\ doing.kind = "STEP" /\ lifecycle = "EXECUTING"
  /\ log' = Append(log, Row(doing.request, doing.action, doing.shown))
  /\ lifecycle' = "ADVANCING"
  /\ UNCHANGED <<handle, lastRequest, episodeState, legal, doing, outgoing, answer, process>>

\* Mutation: the mask token is not spent by the step.
AdvanceKeepsToken ==
  /\ doing.kind = "STEP" /\ lifecycle = "ADVANCING" /\ ordinal < doing.request.ordinal
  /\ ordinal' = doing.request.ordinal
  /\ legal' \in {mask \in SUBSET Actions : Wait \in mask}
  /\ UNCHANGED <<lifecycle, handle, lastRequest, horizon, maskToken, done, wanted, log, doing, outgoing, answer, process>>

\* The ticks are run, the ordinal moves and the token is spent; the reward is
\* still to be projected.
Advance ==
  /\ doing.kind = "STEP" /\ lifecycle = "ADVANCING" /\ ordinal < doing.request.ordinal
  /\ ordinal' = doing.request.ordinal
  /\ maskToken' = NoToken
  /\ legal' \in {mask \in SUBSET Actions : Wait \in mask}
  /\ UNCHANGED <<lifecycle, handle, lastRequest, horizon, done, wanted, log, doing, outgoing, answer, process>>

\* Bankruptcy ends the episode at any transition, a horizon at its own; the
\* recorded form of STEP also issues the next mask and its token.
Commit ==
  /\ doing.kind = "STEP" /\ lifecycle = "ADVANCING" /\ ordinal = doing.request.ordinal
  /\ \E bankrupt \in BOOLEAN, tensors \in BOOLEAN :
       /\ done' = (bankrupt \/ ordinal >= horizon)
       /\ maskToken' = IF tensors /\ ~done' THEN Token(legal) ELSE maskToken
  /\ lifecycle' = "AT_BOUNDARY"
  /\ doing' = None
  /\ Respond("ok", doing.request.session)
  /\ UNCHANGED <<handle, lastRequest, ordinal, horizon, wanted, engine, answer, process>>

\* INTEGRATION_FAILURE, INVALID_STATE, INTERNAL_INVARIANT or ENGINE_FAILURE at
\* any point of the step: before the action, after it (or after some of its
\* commands), after the ticks, or after the ordinal moved.
StepFails ==
  /\ doing.kind = "STEP"
  /\ Fatal(doing.request.session)
  /\ UNCHANGED lastRequest

-----------------------------------------------------------------------------
(* PAUSE, RESUME, CLOSE                                                     *)

Pause ==
  /\ Consume
  /\ \E r \in Frames : PauseAccepted(r) /\ Respond("ok", r.session)
  /\ lifecycle' = "PAUSED"
  /\ UNCHANGED <<handle, episodeState, engine, doing, answer, process>>

Resume ==
  /\ Consume
  /\ \E r \in Frames : ResumeAccepted(r) /\ Respond("ok", r.session)
  /\ lifecycle' = "AT_BOUNDARY"
  /\ UNCHANGED <<handle, episodeState, engine, doing, answer, process>>

Close ==
  /\ Consume
  /\ \E r \in Frames : CloseAccepted(r) /\ Respond("ok", r.session)
  /\ lifecycle' = "CLOSED"
  /\ UNCHANGED <<handle, episodeState, engine, doing, answer, process>>


-----------------------------------------------------------------------------
Handle ==
  \/ NotCanonical \/ OutOfOrder \/ Refused
  \/ MistypedReset \/ DamagedFrame \/ EndingFrame \/ EndOfInput
  \/ ResetBegins \/ Snapshot \/ ObserveFails \/ LegalActions
  \/ IllegalInput \/ StepBegins \/ Pause \/ Resume \/ Close

Proceed ==
  \/ ResetEnds \/ ResetFails
  \/ Execute \/ Advance \/ Commit \/ StepFails
  \/ Written \/ WriteFails

Next == Handle \/ Proceed

Spec == Init /\ [][Next]_vars

-----------------------------------------------------------------------------
(* Properties                                                               *)

\* A game step is executed at most once however often it is sent: the actions
\* of an episode carry the ordinals 1, 2, 3, ... and requests that only grow
\* (ValidateOrdering with the ordinal check of Step).
StepsInOrder ==
  /\ log # <<>> => log[1].ordinal = 1
  /\ \A i \in 1 .. Len(log) - 1 :
       /\ log[i].id < log[i + 1].id
       /\ \/ log[i + 1].episode = log[i].episode /\ log[i + 1].ordinal = log[i].ordinal + 1
          \/ log[i + 1].episode > log[i].episode /\ log[i + 1].ordinal = 1
  /\ \A i \in DOMAIN log : log[i].ordinal <= wanted[log[i].episode]

\* Whoever steps has asked what is legal at this very boundary, since the last
\* step and the last reset, and what it does is legal there (last_mask_token).
FreshlyMasked ==
  \A i \in DOMAIN log :
    /\ log[i].action \in log[i].legal
    /\ log[i].shown.episode = log[i].episode
    /\ log[i].shown.ordinal = log[i].ordinal - 1

\* Whatever went wrong, the header of the last response is enough to close the
\* worker: a CLOSE made of its handle and ordinal would be accepted.
ClosableFromHeader ==
  (Reading /\ answer # None /\ lifecycle # "CLOSED") =>
    CloseAccepted([session |-> answer.session, episode |-> answer.episode,
                   ordinal |-> answer.ordinal, payload |-> "good"])

\* Every action executed has its bit set in the mask whose token it presented:
\* a STEP rejects the token of any other mask.
ShownLegal == \A i \in DOMAIN log : log[i].action \in log[i].shown.mask

\* How many actions the engine has executed in this episode.
Played == IF log # <<>> /\ log[Len(log)].episode = episode THEN log[Len(log)].ordinal ELSE 0

\* The worker keeps the promise of Environment: the engine is played only at a
\* boundary, each action is committed before anything else, a pause holds the
\* game still, and a failed worker can only be closed.
Promise == INSTANCE Environment WITH
  phase <- CASE lifecycle = "READY" -> "ready"
             [] lifecycle = "RESETTING" -> IF episode = 0 THEN "ready" ELSE "boundary"
             [] lifecycle \in {"AT_BOUNDARY", "EXECUTING", "ADVANCING"} -> "boundary"
             [] lifecycle = "PAUSED" -> "paused"
             [] lifecycle = "FAILED" -> "failed"
             [] OTHER -> "closed",
  played <- Played,
  committed <- ordinal

RunsEnvironment == Promise!Spec
=============================================================================
