-------------------------- MODULE SyncBridgeProofs --------------------------
(***************************************************************************)
(* The synchronized worker under any client, for all sets of sessions,      *)
(* actions and horizons and all bounds: the order of its steps, the mask    *)
(* tokens they present, the header a client can close it by, and that it    *)
(* keeps the promise of Environment.                                        *)
(***************************************************************************)
EXTENDS SyncBridge, TLAPS

AnyToken == [mask : SUBSET Actions, episode : Nat, ordinal : Nat]
Rows == [episode : Nat, ordinal : Nat, id : Nat, action : Actions, legal : SUBSET Actions, shown : AnyToken]

Underway ==
  \/ doing = None
  \/ /\ doing.kind = "RESET"
     /\ doing.request.session \in Named \ {0} /\ doing.horizon \in AskedHorizons
  \/ /\ doing.kind = "STEP"
     /\ doing.request.session \in Named /\ doing.request.ordinal \in Nat
     /\ doing.action \in Actions /\ doing.shown \in AnyToken

Types ==
  /\ lifecycle \in Stable \cup Transient
  /\ session \in Named /\ episode \in Nat
  /\ lastRequest \in Nat /\ ordinal \in Nat
  /\ horizon \in AskedHorizons
  /\ maskToken \in AnyToken
  /\ done \in BOOLEAN
  /\ legal \in SUBSET Actions
  /\ Underway
  /\ log \in Seq(Rows)
  /\ wanted \in Seq(AskedHorizons)
  /\ outgoing # None =>
       outgoing.kind \in {"ok", "refused", "fatal", "thrown"} /\ outgoing.session \in Named

(* What is under way is what the lifecycle says, there is an episode        *)
(* exactly if there is a session, and an episode that goes on has a step    *)
(* left of its horizon.                                                     *)
Shape ==
  /\ doing.kind = "RESET" <=> lifecycle = "RESETTING"
  /\ doing.kind = "STEP" <=> lifecycle \in {"EXECUTING", "ADVANCING"}
  /\ outgoing # None => doing = None
  /\ session = 0 <=> episode = 0
  /\ lifecycle = "READY" => session = 0
  /\ lifecycle \in {"AT_BOUNDARY", "PAUSED", "EXECUTING", "ADVANCING"} => session # 0
  /\ session = 0 => ordinal = 0
  /\ Len(wanted) = episode /\ (episode # 0 => horizon = wanted[episode])
  /\ (lifecycle \in {"AT_BOUNDARY", "PAUSED"} /\ ~done) => ordinal < horizon

(* A token in force is of the present boundary; a step under way presented  *)
(* the token of the boundary that it leaves.                                *)
Masked ==
  /\ maskToken # NoToken => maskToken.episode = episode /\ maskToken.ordinal = ordinal
  /\ doing.kind = "STEP" =>
       /\ doing.shown.episode = episode /\ doing.shown.ordinal = doing.request.ordinal - 1
       /\ doing.request.ordinal <= horizon
       /\ lifecycle = "EXECUTING" => doing.action \in legal /\ doing.request.ordinal = ordinal + 1
       /\ lifecycle = "ADVANCING" => doing.request.ordinal \in {ordinal, ordinal + 1}

(* The log ends where the ordinal is, but for a step under way and for a    *)
(* step that failed.                                                        *)
Logged ==
  /\ StepsInOrder
  /\ FreshlyMasked
  /\ \A i \in DOMAIN log : log[i].episode \in 1 .. episode /\ log[i].ordinal # 0
  /\ log # <<>> =>
       /\ log[Len(log)].id <= lastRequest
       /\ lifecycle = "EXECUTING" => log[Len(log)].id < lastRequest
  /\ lifecycle \notin {"ADVANCING", "FAILED", "CLOSED"} => Played = ordinal
  /\ lifecycle = "ADVANCING" => Played = doing.request.ordinal

(* While the worker waits for a frame its last answer names the present.    *)
Header ==
  (Reading /\ answer # None) =>
    /\ answer.episode = episode /\ answer.ordinal = ordinal
    /\ session # 0 => answer.session = session

IInv == Types /\ Shape /\ Masked /\ Logged /\ Header

-----------------------------------------------------------------------------
LEMMA HorizonsPositive == AskedHorizons \subseteq Nat \ {0}
  BY SyncBridgeAssumption DEF AskedHorizons

\* A log that is not empty ends with a row.
LEMMA LastRow ==
  ASSUME NEW s \in Seq(Rows), s # <<>>
  PROVE  Len(s) \in Nat \ {0} /\ Len(s) \in DOMAIN s /\ s[Len(s)] \in Rows
  <1> HIDE DEF Rows
  <1> QED OBVIOUS

LEMMA InitHolds == Init => IInv
  <1> SUFFICES ASSUME Init PROVE IInv
    OBVIOUS
  <1>0. NoToken \in AnyToken /\ DefaultHorizon \in AskedHorizons /\ 0 \in Named
    BY DEF NoToken, AnyToken, AskedHorizons, Named
  <1>a. lifecycle \in Stable \cup Transient /\ legal \in SUBSET Actions /\ done \in BOOLEAN
    BY DEF Init, Stable
  <1>b. log \in Seq(Rows) /\ wanted \in Seq(AskedHorizons)
    BY DEF Init
  <1>c. Underway
    BY DEF Init, Underway
  <1>1. Types
    BY <1>0, <1>a, <1>b, <1>c DEF Init, Types
  <1>2. Shape /\ Masked
    BY DEF Init, Shape, Masked, None
  <1>3. Logged
    BY DEF Init, Logged, StepsInOrder, FreshlyMasked, Played
  <1>4. Header
    BY DEF Init, Header
  <1> QED
    BY <1>1, <1>2, <1>3, <1>4 DEF IInv

(* The log stays true to a state that has moved around it.                  *)
LEMMA LogKept ==
  ASSUME IInv, UNCHANGED <<episode, wanted, log>>, lastRequest' \in Nat, lastRequest' >= lastRequest,
         lifecycle' = "EXECUTING" => lastRequest' > lastRequest,
         lifecycle' \notin {"ADVANCING", "FAILED", "CLOSED"} => Played = ordinal',
         lifecycle' = "ADVANCING" => Played = doing'.request.ordinal
  PROVE  Logged'
  <1>1. StepsInOrder' /\ FreshlyMasked'
    BY DEF IInv, Logged, StepsInOrder, FreshlyMasked
  <1>2. Played' = Played
    BY DEF Played
  <1>3. log # <<>> => log[Len(log)].id \in Nat /\ log[Len(log)].id <= lastRequest /\ lastRequest \in Nat
    BY LastRow DEF IInv, Types, Logged, Rows
  <1>4. \A i \in DOMAIN log : log[i].episode \in 1 .. episode /\ log[i].ordinal # 0
    BY DEF IInv, Logged
  <1>5. log' # <<>> =>
          /\ log'[Len(log')].id <= lastRequest'
          /\ lifecycle' = "EXECUTING" => log'[Len(log')].id < lastRequest'
    BY <1>3
  <1>6. /\ lifecycle' \notin {"ADVANCING", "FAILED", "CLOSED"} => Played' = ordinal'
        /\ lifecycle' = "ADVANCING" => Played' = doing'.request.ordinal
    BY <1>2
  <1>7. \A i \in DOMAIN log' : log'[i].episode \in 1 .. episode' /\ log'[i].ordinal # 0
    BY <1>4
  <1> QED
    BY <1>1, <1>5, <1>6, <1>7, Zenon DEF Logged

(* Requests that are answered without more.                                 *)
LEMMA Answered ==
  ASSUME IInv, Reading, UNCHANGED <<handle, episodeState, engine, doing, answer, process>>,
         lastRequest' \in Nat, lastRequest' >= lastRequest,
         outgoing'.kind \in {"ok", "refused", "fatal", "thrown"}, outgoing'.session \in Named,
         \/ lifecycle' = lifecycle \/ lifecycle' \in {"FAILED", "CLOSED"}
         \/ lifecycle = "AT_BOUNDARY" /\ lifecycle' = "PAUSED"
         \/ lifecycle = "PAUSED" /\ lifecycle' = "AT_BOUNDARY"
  PROVE  IInv'
  <1>1. doing = None /\ doing' = None /\ None.kind = "none" /\ lifecycle \notin Transient
    BY DEF Reading, IInv, Shape, Transient, None
  <1>2. Types'
    BY <1>1 DEF IInv, Types, handle, episodeState, engine, Stable, Transient, Underway
  <1>3. Shape'
    BY <1>1 DEF IInv, Shape, handle, episodeState, Types, Stable, Transient
  <1>4. Masked'
    BY <1>1 DEF IInv, Masked, handle, episodeState
  <1>5. Logged'
    <2>1. UNCHANGED <<episode, wanted, log, ordinal>>
      BY DEF handle, episodeState, engine
    <2>2. lifecycle' \notin {"EXECUTING", "ADVANCING"}
      BY <1>1 DEF Transient
    <2>3. lifecycle' \notin {"FAILED", "CLOSED"} => Played = ordinal
      BY <1>1, <2>2 DEF IInv, Logged, Transient
    <2> QED
      BY <2>1, <2>2, <2>3, LogKept
  <1>6. Header'
    <2>1. outgoing' # None
      BY DEF None
    <2> QED
      BY <2>1 DEF Header, Reading
  <1> QED
    BY <1>2, <1>3, <1>4, <1>5, <1>6 DEF IInv

\* The steps that only answer: refusals, queries that keep the token, pauses,
\* closes, and the failures that a frame causes.
Answering ==
  \/ NotCanonical \/ OutOfOrder \/ Refused
  \/ MistypedReset \/ DamagedFrame \/ EndingFrame
  \/ Snapshot \/ ObserveFails \/ IllegalInput \/ Pause \/ Resume \/ Close

\* An identity that is consumed is the next one.
LEMMA Consumes ==
  ASSUME IInv, Consume PROVE lastRequest' \in Nat /\ lastRequest' > lastRequest
  BY SyncBridgeAssumption DEF Consume, InOrder, IInv, Types

LEMMA AnsweringHolds ==
  ASSUME IInv, Answering PROVE IInv'
  <1>0. lastRequest \in Nat
    BY DEF IInv, Types
  <1>1. CASE NotCanonical \/ OutOfOrder
    <2>1. Refuse /\ Reading /\ lastRequest' = lastRequest
      BY <1>1 DEF NotCanonical, OutOfOrder
    <2> QED
      BY <1>0, <2>1, Answered DEF Refuse, Respond
  <1>2. CASE Refused
    BY <1>0, <1>2, Consumes, Answered DEF Refused, Consume, Refuse, Respond
  <1>3. CASE DamagedFrame \/ MistypedReset
    <2>1. Reading /\ doing = None /\ lastRequest' \in Nat /\ lastRequest' >= lastRequest
      BY <1>0, <1>3, Consumes DEF DamagedFrame, MistypedReset, Consume, Reading
    <2>2. PICK s \in Named : Fatal(s)
      BY <1>3 DEF DamagedFrame, MistypedReset
    <2> QED
      BY <2>1, <2>2, Answered DEF Fatal, Respond
  <1>4. CASE EndingFrame
    BY <1>0, <1>4, Answered DEF EndingFrame, Respond
  <1>5. CASE ObserveFails
    <2>1. Reading /\ doing = None /\ lastRequest' \in Nat /\ lastRequest' >= lastRequest
      BY <1>0, <1>5, Consumes DEF ObserveFails, Consume, Reading
    <2>2. PICK r \in Frames : Fatal(r.session)
      BY <1>5 DEF ObserveFails
    <2> QED
      BY <2>1, <2>2, Answered DEF Fatal, Respond, Frames
  <1>6. CASE Snapshot \/ IllegalInput \/ Pause \/ Resume \/ Close
    <2>1. Reading /\ lastRequest' \in Nat /\ lastRequest' >= lastRequest
      BY <1>0, <1>6, Consumes DEF Snapshot, IllegalInput, Pause, Resume, Close, Consume
    <2>2. PICK r \in Frames : Respond("ok", r.session)
      BY <1>6 DEF Snapshot, IllegalInput, Pause, Resume, Close
    <2>3. outgoing'.kind = "ok" /\ outgoing'.session \in Named
      BY <2>2 DEF Respond, Frames
    <2>4. UNCHANGED <<handle, episodeState, engine, doing, answer, process>>
      BY <1>6 DEF Snapshot, IllegalInput, Pause, Resume, Close
    <2>5. \/ lifecycle' = lifecycle \/ lifecycle' \in {"FAILED", "CLOSED"}
          \/ lifecycle = "AT_BOUNDARY" /\ lifecycle' = "PAUSED"
          \/ lifecycle = "PAUSED" /\ lifecycle' = "AT_BOUNDARY"
      BY <1>6 DEF Snapshot, IllegalInput, Pause, Resume, Close, PauseAccepted, ResumeAccepted
    <2> QED
      BY <2>1, <2>3, <2>4, <2>5, Answered
  <1> QED
    BY <1>1, <1>2, <1>3, <1>4, <1>5, <1>6 DEF Answering

\* A failure in the middle of a reset or a step.
LEMMA FailingHolds ==
  ASSUME IInv, ResetFails \/ StepFails PROVE IInv'
  <1>1. /\ lifecycle' = "FAILED" /\ doing' = None
        /\ outgoing'.kind = "fatal" /\ outgoing'.session \in Named
        /\ UNCHANGED <<handle, episodeState, engine, answer, process, lastRequest>>
    BY DEF ResetFails, StepFails, Fatal, Respond, IInv, Types, Underway, None
  <1>2. Types'
    BY <1>1 DEF IInv, Types, Underway, handle, episodeState, engine, Stable
  <1>3. Shape' /\ Masked'
    BY <1>1 DEF IInv, Types, Shape, Masked, handle, episodeState, None
  <1>4. Logged'
    BY <1>1, LogKept DEF handle, episodeState, engine, IInv, Types
  <1>5. Header'
    BY <1>1 DEF Header, Reading, None
  <1> QED
    BY <1>2, <1>3, <1>4, <1>5 DEF IInv

\* The process ends with the pipe, or writes what it has to say.
LEMMA EndingHolds ==
  ASSUME IInv, EndOfInput \/ WriteFails \/ Written PROVE IInv'
  <1>0. doing = None
    BY DEF EndOfInput, WriteFails, Written, Reading, IInv, Shape, None
  <1>1. /\ outgoing' = None
        /\ lifecycle' \in {lifecycle, "FAILED"}
        /\ UNCHANGED <<handle, lastRequest, episodeState, engine, doing>>
    BY DEF EndOfInput, WriteFails, Written, Reading
  <1>2. Types'
    BY <1>0, <1>1 DEF IInv, Types, Underway, handle, episodeState, engine, Stable
  <1>3. Shape' /\ Masked'
    BY <1>0, <1>1 DEF IInv, Types, Shape, Masked, handle, episodeState, None
  <1>4. Logged'
    <2>1. UNCHANGED <<episode, wanted, log, ordinal>> /\ lifecycle' \notin {"EXECUTING", "ADVANCING"}
      BY <1>0, <1>1 DEF handle, episodeState, engine, IInv, Shape, None
    <2> QED
      BY <1>1, <2>1, LogKept DEF IInv, Types, Logged
  <1>5. Header'
    BY <1>1 DEF Header, Reading, EndOfInput, WriteFails, Written, handle, episodeState
  <1> QED
    BY <1>2, <1>3, <1>4, <1>5 DEF IInv

\* LEGAL_ACTIONS issues the token of the boundary it was asked at.
LEMMA LegalActionsHolds ==
  ASSUME IInv, LegalActions PROVE IInv'
  <1>0. Reading /\ doing = None /\ lastRequest' \in Nat /\ lastRequest' > lastRequest
    BY Consumes DEF LegalActions, Consume, Reading
  <1>1. outgoing'.kind = "ok" /\ outgoing'.session \in Named /\ lifecycle \in {"AT_BOUNDARY", "PAUSED"}
    BY DEF LegalActions, Respond, Frames, QueryAccepted
  <1>2. maskToken' \in AnyToken /\ maskToken'.episode = episode /\ maskToken'.ordinal = ordinal
    BY DEF LegalActions, Token, OfferedMask, AnyToken, IInv, Types
  <1>3. UNCHANGED <<lifecycle, session, episode, ordinal, horizon, done, wanted, legal, log, doing, answer, process>>
    BY DEF LegalActions, handle, engine
  <1>4. Types'
    BY <1>0, <1>1, <1>2, <1>3 DEF IInv, Types, Underway
  <1>5. Shape' /\ Masked'
    BY <1>0, <1>1, <1>2, <1>3 DEF IInv, Types, Shape, Masked, None
  <1>6. Logged'
    BY <1>0, <1>1, <1>3, LogKept DEF IInv, Types, Logged
  <1>7. Header'
    BY <1>1 DEF Header, Reading, None
  <1> QED
    BY <1>4, <1>5, <1>6, <1>7 DEF IInv

\* A reset that begins holds nothing but its request.
LEMMA ResetBeginsHolds ==
  ASSUME IInv, ResetBegins PROVE IInv'
  <1>0. Reading /\ doing = None /\ lastRequest' \in Nat /\ lastRequest' > lastRequest
    BY Consumes DEF ResetBegins, Consume, Reading
  <1>1. /\ doing'.kind = "RESET" /\ doing'.request.session \in Named \ {0}
        /\ doing'.horizon \in AskedHorizons
        /\ lifecycle \in {"READY", "AT_BOUNDARY"}
    BY DEF ResetBegins, ResetAccepted, Frames
  <1>2. /\ lifecycle' = "RESETTING" /\ outgoing' = None
        /\ UNCHANGED <<session, episode, ordinal, horizon, maskToken, done, wanted, legal, log, outgoing, answer, process>>
    BY <1>0 DEF ResetBegins, handle, episodeState, engine, Reading
  <1>3. Types'
    BY <1>0, <1>1, <1>2 DEF IInv, Types, Underway, Transient
  <1>4. Shape' /\ Masked'
    BY <1>0, <1>1, <1>2 DEF IInv, Types, Shape, Masked, None
  <1>5. Logged'
    BY <1>0, <1>1, <1>2, LogKept DEF IInv, Types, Logged
  <1>6. Header'
    BY <1>1 DEF Header, Reading, None
  <1> QED
    BY <1>3, <1>4, <1>5, <1>6 DEF IInv

\* A reset that ends begins an episode, of which the log has nothing yet.
LEMMA ResetEndsHolds ==
  ASSUME IInv, ResetEnds PROVE IInv' /\ Played' = 0
  <1>a. doing.kind = "RESET" /\ Underway /\ lifecycle = "RESETTING"
    BY DEF ResetEnds, IInv, Types, Shape
  <1>b. doing.request.session \in Named \ {0} /\ doing.horizon \in AskedHorizons
    BY <1>a DEF Underway, None
  <1>0. /\ lifecycle = "RESETTING"
        /\ doing.request.session \in Named \ {0} /\ doing.horizon \in AskedHorizons
        /\ doing.horizon \in Nat \ {0}
    BY <1>a, <1>b, HorizonsPositive
  <1>1. /\ lifecycle' = "AT_BOUNDARY" /\ session' \in Named \ {0}
        /\ episode' = episode + 1 /\ ordinal' = 0 /\ horizon' = doing.horizon
        /\ maskToken' = NoToken /\ done' = FALSE /\ doing' = None
        /\ wanted' = Append(wanted, doing.horizon) /\ legal' \in SUBSET Actions
        /\ UNCHANGED <<log, lastRequest>>
        /\ outgoing'.kind = "ok" /\ outgoing'.session \in Named
    BY <1>0 DEF ResetEnds, Respond, IInv, Types
  <1>2. NoToken \in AnyToken
    BY DEF NoToken, AnyToken
  <1>3. Types'
    <2>1. wanted' \in Seq(AskedHorizons)
      BY <1>0, <1>1 DEF IInv, Types
    <2>2. lifecycle' \in Stable \cup Transient /\ Underway' /\ episode' \in Nat /\ ordinal' \in Nat
      BY <1>1 DEF IInv, Types, Underway, Stable
    <2> QED
      BY <1>0, <1>1, <1>2, <2>1, <2>2 DEF IInv, Types
  <1>4. /\ Len(wanted') = episode' /\ wanted'[episode'] = doing.horizon
        /\ \A e \in 1 .. episode : wanted'[e] = wanted[e]
        /\ episode \in Nat
    BY <1>0, <1>1 DEF IInv, Types, Shape
  <1>5. Shape' /\ Masked'
    BY <1>0, <1>1, <1>4 DEF IInv, Types, Shape, Masked, None
  <1>6. \A i \in DOMAIN log : log[i].episode \in 1 .. episode /\ log[i].ordinal # 0
    BY DEF IInv, Logged
  <1>7. StepsInOrder' /\ FreshlyMasked'
    BY <1>1, <1>4, <1>6 DEF IInv, Logged, StepsInOrder, FreshlyMasked
  <1>8. Played' = 0
    BY <1>1, <1>4, <1>6, LastRow DEF Played, IInv, Types
  <1>9. Logged'
    <2>1. \A i \in DOMAIN log' : log'[i].episode \in 1 .. episode' /\ log'[i].ordinal # 0
      BY <1>1, <1>4, <1>6
    <2>2. log' # <<>> => log'[Len(log')].id <= lastRequest' /\ lifecycle' # "EXECUTING"
      BY <1>1 DEF IInv, Logged
    <2>3. lifecycle' # "ADVANCING" /\ Played' = ordinal'
      BY <1>1, <1>8
    <2> QED
      BY <1>1, <1>7, <2>1, <2>2, <2>3 DEF Logged
  <1>10. Header'
    BY <1>1 DEF Header, Reading, None
  <1> QED
    BY <1>3, <1>5, <1>8, <1>9, <1>10 DEF IInv

\* A step that begins presents the token of the boundary it leaves, and there
\* is a step left of the horizon.
LEMMA StepBeginsHolds ==
  ASSUME IInv, StepBegins PROVE IInv'
  <1>0. Reading /\ doing = None /\ lastRequest' \in Nat /\ lastRequest' > lastRequest
    BY Consumes DEF StepBegins, Consume, Reading
  <1>1. PICK r \in Frames, token \in Tokens, action \in Actions :
           /\ StepAccepted(r, token) /\ action \in legal
           /\ doing' = [kind |-> "STEP", request |-> r, action |-> action, shown |-> token]
    BY DEF StepBegins
  <1>2. /\ lifecycle = "AT_BOUNDARY" /\ ~done /\ session # 0 /\ maskToken # NoToken
        /\ token = maskToken /\ r.ordinal = ordinal + 1 /\ r.session \in Named
        /\ token \in AnyToken
    BY <1>1 DEF StepAccepted, ValidHandle, Frames, IInv, Types
  <1>3. /\ doing'.kind = "STEP" /\ doing'.request.session \in Named
        /\ doing'.request.ordinal = ordinal + 1 /\ doing'.action \in Actions \cap legal
        /\ doing'.shown = maskToken
    BY <1>1, <1>2
  <1>4. /\ lifecycle' = "EXECUTING" /\ outgoing' = None
        /\ UNCHANGED <<session, episode, ordinal, horizon, maskToken, done, wanted, legal, log, answer, process>>
    BY <1>0 DEF StepBegins, handle, episodeState, engine, Reading
  <1>5. Types'
    BY <1>0, <1>2, <1>3, <1>4 DEF IInv, Types, Underway, Transient
  <1>6. ordinal < horizon /\ ordinal \in Nat /\ horizon \in Nat
    BY <1>2, HorizonsPositive DEF IInv, Types, Shape
  <1>7. Shape'
    BY <1>0, <1>2, <1>3, <1>4 DEF IInv, Shape, None
  <1>8. Masked'
    BY <1>2, <1>3, <1>4, <1>6 DEF IInv, Masked
  <1>9. Logged'
    <2>1. Played = ordinal
      BY <1>2 DEF IInv, Logged
    <2> QED
      BY <1>0, <1>4, <2>1, LogKept DEF IInv, Types
  <1>10. Header'
    BY <1>3 DEF Header, Reading, None
  <1> QED
    BY <1>5, <1>7, <1>8, <1>9, <1>10 DEF IInv

\* The action under way is the next of its episode, and it enters the log.
LEMMA ExecuteHolds ==
  ASSUME IInv, Execute PROVE IInv' /\ Played' = Played + 1
  <1> DEFINE row == Row(doing.request, doing.action, doing.shown)
  <1>0. /\ doing.kind = "STEP" /\ lifecycle = "EXECUTING" /\ lifecycle' = "ADVANCING"
        /\ log' = Append(log, row)
        /\ UNCHANGED <<session, episode, ordinal, horizon, maskToken, done, wanted, legal,
                      lastRequest, doing, outgoing, answer, process>>
    BY DEF Execute, handle, episodeState
  <1>1. /\ doing.request.ordinal = ordinal + 1 /\ doing.request.ordinal <= horizon
        /\ doing.action \in legal
        /\ doing.shown.episode = episode /\ doing.shown.ordinal = ordinal
    BY <1>0 DEF IInv, Masked, Types
  <1>2. /\ session # 0 /\ episode # 0 /\ episode \in Nat /\ ordinal \in Nat /\ lastRequest \in Nat
        /\ horizon = wanted[episode] /\ Len(wanted) = episode
    BY <1>0 DEF IInv, Shape, Types
  <1>3. /\ row \in Rows /\ row.episode = episode /\ row.ordinal = ordinal + 1 /\ row.id = lastRequest
        /\ row.action \in row.legal /\ row.shown.episode = episode /\ row.shown.ordinal = row.ordinal - 1
    <2>1. doing.action \in Actions /\ doing.shown \in AnyToken /\ legal \in SUBSET Actions
      BY <1>0 DEF IInv, Types, Underway, None
    <2> QED
      BY <1>1, <1>2, <2>1 DEF Row, Rows
  <1> HIDE DEF row
  <1>4. /\ log \in Seq(Rows) /\ log' \in Seq(Rows) /\ Len(log) \in Nat /\ Len(log') = Len(log) + 1
        /\ log' # <<>> /\ log'[Len(log) + 1] = row
        /\ \A i \in 1 .. Len(log) : log'[i] = log[i]
        /\ DOMAIN log = 1 .. Len(log) /\ DOMAIN log' = 1 .. Len(log) + 1
    <2> HIDE DEF Rows
    <2> QED
      BY <1>0, <1>3 DEF IInv, Types
  <1>5. Played = ordinal
    BY <1>0 DEF IInv, Logged
  <1>6. \A i \in 1 .. Len(log) : log[i].episode \in 1 .. episode /\ log[i].ordinal # 0
    BY <1>4 DEF IInv, Logged
  <1>7. log # <<>> =>
          /\ log[Len(log)].id < lastRequest
          /\ \/ log[Len(log)].episode = episode /\ log[Len(log)].ordinal = ordinal
             \/ log[Len(log)].episode < episode /\ ordinal = 0
    BY <1>0, <1>2, <1>4, <1>5, <1>6, LastRow DEF IInv, Logged, Played
  <1>8. log = <<>> => ordinal = 0
    BY <1>5 DEF Played
  <1>9. Played' = ordinal + 1
    BY <1>0, <1>3, <1>4 DEF Played
  <1>10. FreshlyMasked'
    <2>1. \A i \in 1 .. Len(log) :
            /\ log[i].action \in log[i].legal
            /\ log[i].shown.episode = log[i].episode
            /\ log[i].shown.ordinal = log[i].ordinal - 1
      BY <1>4 DEF IInv, Logged, FreshlyMasked
    <2>2. ASSUME NEW i \in 1 .. Len(log) + 1
          PROVE  /\ log'[i].action \in log'[i].legal
                 /\ log'[i].shown.episode = log'[i].episode
                 /\ log'[i].shown.ordinal = log'[i].ordinal - 1
      BY <1>3, <1>4, <2>1, i = Len(log) + 1 \/ i \in 1 .. Len(log)
    <2> QED
      BY <1>4, <2>2 DEF FreshlyMasked
  <1>11. StepsInOrder'
    <2>1. log'[1].ordinal = 1
      <3>1. CASE log = <<>>
        BY <1>2, <1>3, <1>4, <1>8, <3>1
      <3>2. CASE log # <<>>
        BY <1>4, <3>2, LastRow DEF IInv, Logged, StepsInOrder
      <3> QED
        BY <3>1, <3>2
    <2>2. ASSUME NEW i \in 1 .. Len(log') - 1
          PROVE  /\ log'[i].id < log'[i + 1].id
                 /\ \/ log'[i + 1].episode = log'[i].episode /\ log'[i + 1].ordinal = log'[i].ordinal + 1
                    \/ log'[i + 1].episode > log'[i].episode /\ log'[i + 1].ordinal = 1
      <3>1. CASE i = Len(log)
        BY <1>2, <1>3, <1>4, <1>7, <3>1
      <3>2. CASE i # Len(log)
        <4>0. i \in 1 .. Len(log) - 1 /\ i \in 1 .. Len(log) /\ i + 1 \in 1 .. Len(log)
          <5>1. Len(log') - 1 = Len(log) /\ Len(log) \in Nat
            BY <1>4
          <5>2. i \in 1 .. Len(log)
            BY <5>1
          <5> QED
            BY <3>2, <5>1, <5>2
        <4>1. i \in 1 .. Len(log) - 1 /\ log'[i] = log[i] /\ log'[i + 1] = log[i + 1]
          BY <1>4, <4>0
        <4> QED
          BY <4>1 DEF IInv, Logged, StepsInOrder
      <3> QED
        BY <3>1, <3>2
    <2>3. ASSUME NEW i \in DOMAIN log'
          PROVE  log'[i].ordinal <= wanted'[log'[i].episode]
      <3>1. CASE i = Len(log) + 1
        BY <1>0, <1>1, <1>2, <1>3, <1>4, <3>1
      <3>2. CASE i # Len(log) + 1
        <4>1. i \in DOMAIN log /\ log'[i] = log[i]
          BY <1>4, <3>2
        <4> QED
          BY <1>0, <4>1 DEF IInv, Logged, StepsInOrder
      <3> QED
        BY <3>1, <3>2
    <2> QED
      BY <2>1, <2>2, <2>3 DEF StepsInOrder
  <1>12. Logged'
    <2>1. \A i \in DOMAIN log' : log'[i].episode \in 1 .. episode' /\ log'[i].ordinal # 0
      <3> SUFFICES ASSUME NEW i \in 1 .. Len(log) + 1
                   PROVE  log'[i].episode \in 1 .. episode /\ log'[i].ordinal # 0
        BY <1>0, <1>4
      <3> QED
        BY <1>2, <1>3, <1>4, <1>6, i = Len(log) + 1 \/ i \in 1 .. Len(log)
    <2>2. log'[Len(log')].id <= lastRequest' /\ lifecycle' # "EXECUTING"
      BY <1>0, <1>2, <1>3, <1>4
    <2>3. lifecycle' = "ADVANCING" /\ Played' = doing'.request.ordinal
      BY <1>0, <1>1, <1>9
    <2> QED
      BY <1>10, <1>11, <2>1, <2>2, <2>3 DEF Logged
  <1>13. Types'
    BY <1>0, <1>4 DEF IInv, Types, Underway, Transient
  <1>14. Shape' /\ Masked'
    BY <1>0, <1>1 DEF IInv, Shape, Masked
  <1>15. Header'
    BY <1>0 DEF Header, Reading, None
  <1> QED
    BY <1>5, <1>9, <1>12, <1>13, <1>14, <1>15 DEF IInv

\* The ticks: the ordinal reaches the step's own.
LEMMA AdvanceHolds ==
  ASSUME IInv, Advance PROVE IInv' /\ Played' = Played
  <1>0. /\ doing.kind = "STEP" /\ lifecycle = "ADVANCING"
        /\ ordinal' = doing.request.ordinal /\ maskToken' = NoToken
        /\ legal' \in SUBSET Actions
        /\ UNCHANGED <<lifecycle, session, episode, lastRequest, horizon, done, wanted, log,
                      doing, outgoing, answer, process>>
    BY DEF Advance, handle
  <1>1. doing.request.ordinal \in Nat /\ Played = doing.request.ordinal
    BY <1>0 DEF IInv, Types, Underway, Logged, None
  <1>2. NoToken \in AnyToken
    BY DEF NoToken, AnyToken
  <1>3. Types'
    BY <1>0, <1>1, <1>2 DEF IInv, Types, Underway
  <1>4. Shape' /\ Masked'
    BY <1>0, <1>1 DEF IInv, Types, Shape, Masked
  <1>5. Logged'
    BY <1>0, <1>1, LogKept DEF IInv, Types
  <1>6. Header'
    BY <1>0 DEF Header, Reading, None
  <1> QED
    BY <1>0, <1>3, <1>4, <1>5, <1>6 DEF IInv, Played

\* A transition that is committed ends the episode no later than its horizon.
LEMMA CommitHolds ==
  ASSUME IInv, Commit PROVE IInv' /\ Played' = Played /\ Played = ordinal
  <1>0. /\ doing.kind = "STEP" /\ lifecycle = "ADVANCING" /\ ordinal = doing.request.ordinal
        /\ lifecycle' = "AT_BOUNDARY" /\ doing' = None
        /\ outgoing'.kind = "ok"
        /\ UNCHANGED <<session, episode, lastRequest, ordinal, horizon, wanted, legal, log, answer, process>>
    BY DEF Commit, handle, engine, Respond
  <1>1. /\ doing.request.session \in Named /\ outgoing'.session = doing.request.session
        /\ Played = ordinal /\ ordinal <= horizon
    BY <1>0 DEF IInv, Types, Underway, Logged, Masked, None, Commit, Respond
  <1>2. /\ ordinal \in Nat /\ episode \in Nat /\ horizon \in Nat /\ lastRequest \in Nat
        /\ legal \in SUBSET Actions /\ session # 0
    BY <1>0, HorizonsPositive DEF IInv, Types, Shape
  <1>3. PICK bankrupt \in BOOLEAN, tensors \in BOOLEAN :
           /\ done' = (bankrupt \/ ordinal >= horizon)
           /\ maskToken' = IF tensors /\ ~done' THEN Token(legal) ELSE maskToken
    BY DEF Commit
  <1>4. done' \in BOOLEAN
    BY <1>3
  <1>5. ~done' => ordinal < horizon
    <2>1. ordinal >= horizon => done'
      BY <1>3, Zenon
    <2> QED
      BY <1>2, <2>1
  <1>6. maskToken' = Token(legal) \/ maskToken' = maskToken
    BY <1>3, Zenon
  <1>7. maskToken' \in AnyToken /\ (maskToken' # NoToken => maskToken'.episode = episode /\ maskToken'.ordinal = ordinal)
    BY <1>2, <1>6 DEF Token, AnyToken, IInv, Types, Masked
  <1>8. Types'
    BY <1>0, <1>1, <1>4, <1>7 DEF IInv, Types, Underway, Stable
  <1>9. Shape' /\ Masked'
    BY <1>0, <1>2, <1>5, <1>7 DEF IInv, Shape, Masked, None
  <1>10. Logged'
    BY <1>0, <1>1, <1>2, LogKept
  <1>11. Header'
    BY <1>0 DEF Header, Reading, None
  <1> QED
    BY <1>0, <1>1, <1>8, <1>9, <1>10, <1>11 DEF IInv, Played

LEMMA NextHolds ==
  ASSUME IInv, [Next]_vars PROVE IInv'
  <1>1. CASE UNCHANGED vars
    BY <1>1 DEF vars, handle, episodeState, engine, IInv, Types, Underway, Shape, Masked, Logged,
                StepsInOrder, FreshlyMasked, Played, Header, Reading
  <1>2. CASE Next
    BY <1>2, AnsweringHolds, FailingHolds, EndingHolds, LegalActionsHolds, ResetBeginsHolds, ResetEndsHolds,
       StepBeginsHolds, ExecuteHolds, AdvanceHolds, CommitHolds
       DEF Next, Handle, Proceed, Answering
  <1> QED
    BY <1>1, <1>2

THEOREM Inductive == Spec => []IInv
  BY InitHolds, NextHolds, PTL DEF Spec

-----------------------------------------------------------------------------
(* The theorems.                                                            *)

\* However often, in whatever order and after whatever failure a game step is
\* sent, the engine executes it once, in its turn and within the horizon.
THEOREM OrderedSteps == Spec => []StepsInOrder
<1>1. IInv => StepsInOrder
  BY DEF IInv, Logged
<1> QED BY <1>1, Inductive, PTL

\* No action is executed on a mask of another boundary.
THEOREM FreshMasks == Spec => []FreshlyMasked
<1>1. IInv => FreshlyMasked
  BY DEF IInv, Logged
<1> QED BY <1>1, Inductive, PTL

\* A client that keeps the last header can close the worker whatever happened
\* to it, a failed first reset included.
THEOREM Closable == Spec => []ClosableFromHeader
<1>1. IInv => ClosableFromHeader
  <2> SUFFICES ASSUME IInv, Reading, answer # None, lifecycle # "CLOSED"
               PROVE  CloseAccepted([session |-> answer.session, episode |-> answer.episode,
                                     ordinal |-> answer.ordinal, payload |-> "good"])
    BY DEF ClosableFromHeader
  <2>1. /\ answer.episode = episode /\ answer.ordinal = ordinal
        /\ session # 0 => answer.session = session
    BY DEF IInv, Header
  <2>2. /\ lifecycle \in {"READY", "AT_BOUNDARY", "PAUSED", "FAILED"}
        /\ session = 0 => episode = 0 /\ ordinal = 0
        /\ lifecycle = "READY" => session = 0
        /\ lifecycle \in {"AT_BOUNDARY", "PAUSED"} => session # 0
    BY DEF IInv, Types, Shape, Stable, Transient, Reading, None
  <2> QED
    BY <2>1, <2>2 DEF CloseAccepted, AtCurrent, ValidHandle
<1> QED BY <1>1, Inductive, PTL

\* The steps of the worker that the promise does not see.
Hidden ==
  \/ NotCanonical \/ OutOfOrder \/ Refused \/ Snapshot \/ IllegalInput
  \/ LegalActions \/ ResetBegins \/ StepBegins \/ Written

Breaking ==
  \/ MistypedReset \/ DamagedFrame \/ EndingFrame \/ EndOfInput \/ ObserveFails
  \/ ResetFails \/ StepFails \/ WriteFails

\* The worker keeps the promise of Environment.
THEOREM KeepsPromise == Spec => RunsEnvironment
<1> DEFINE phase == CASE lifecycle = "READY" -> "ready"
             [] lifecycle = "RESETTING" -> IF episode = 0 THEN "ready" ELSE "boundary"
             [] lifecycle \in {"AT_BOUNDARY", "EXECUTING", "ADVANCING"} -> "boundary"
             [] lifecycle = "PAUSED" -> "paused"
             [] lifecycle = "FAILED" -> "failed"
             [] OTHER -> "closed"
<1>1. Init => Promise!Init
  BY DEF Init, Promise!Init, Played
<1>2. ASSUME IInv, [Next]_vars
      PROVE  [Promise!Next]_(Promise!vars)
  <2>1. CASE UNCHANGED vars
    BY <2>1 DEF vars, handle, episodeState, engine, Promise!vars, Played
  <2>2. CASE Hidden
    <3>1. UNCHANGED <<episode, ordinal, log>>
      BY <2>2 DEF Hidden, NotCanonical, OutOfOrder, Refused, Refuse, Snapshot, IllegalInput,
                  LegalActions, ResetBegins, StepBegins, Written, handle, episodeState, engine
    <3>2. \/ lifecycle' = lifecycle
          \/ lifecycle = "READY" /\ lifecycle' = "RESETTING" /\ episode = 0
          \/ lifecycle = "AT_BOUNDARY" /\ lifecycle' = "RESETTING" /\ episode # 0
          \/ lifecycle = "AT_BOUNDARY" /\ lifecycle' = "EXECUTING"
      BY <1>2, <2>2 DEF Hidden, NotCanonical, OutOfOrder, Refused, Refuse, Snapshot, IllegalInput,
                  LegalActions, ResetBegins, ResetAccepted, StepBegins, StepAccepted, Written, IInv, Shape
    <3>3. phase' = phase
      BY <3>1, <3>2
    <3> QED
      BY <3>1, <3>3 DEF Promise!vars, Played
  <2>3. CASE Breaking
    <3>1. UNCHANGED <<episode, ordinal, log>> /\ lifecycle' \in {"FAILED", lifecycle}
      BY <2>3 DEF Breaking, MistypedReset, DamagedFrame, EndingFrame, EndOfInput, ObserveFails,
                  ResetFails, StepFails, WriteFails, Fatal, handle, episodeState, engine
    <3>2. phase \in {"ready", "boundary", "paused", "failed", "closed"} /\ phase' \in {"failed", phase}
      BY <3>1
    <3> QED
      BY <3>1, <3>2 DEF Promise!Next, Promise!Fail, Promise!Move, Promise!vars, Played
  <2>4. CASE ResetEnds
    <3>1. /\ lifecycle = "RESETTING" /\ episode' = episode + 1 /\ ordinal' = 0
          /\ lifecycle' = "AT_BOUNDARY" /\ Played = ordinal
      BY <1>2, <2>4 DEF ResetEnds, IInv, Shape, Logged
    <3>2. Played' = 0
      BY <1>2, <2>4, ResetEndsHolds
    <3> QED
      BY <3>1, <3>2 DEF Promise!Next, Promise!Reset, Promise!Settled
  <2>5. CASE Execute
    <3>1. /\ lifecycle = "EXECUTING" /\ lifecycle' = "ADVANCING" /\ Played = ordinal
          /\ UNCHANGED <<episode, ordinal>>
      BY <1>2, <2>5 DEF Execute, IInv, Logged, handle, episodeState
    <3>2. Played' = Played + 1
      BY <1>2, <2>5, ExecuteHolds
    <3> QED
      BY <3>1, <3>2 DEF Promise!Next, Promise!Play, Promise!Settled
  <2>6. CASE Advance
    <3>1. /\ lifecycle = "ADVANCING" /\ lifecycle' = "ADVANCING" /\ episode' = episode
          /\ ordinal < doing.request.ordinal
          /\ ordinal' = doing.request.ordinal /\ Played = doing.request.ordinal
      BY <1>2, <2>6 DEF Advance, IInv, Logged, handle
    <3>2. Played' = Played /\ ordinal \in Nat
      BY <1>2, <2>6, AdvanceHolds DEF IInv, Types
    <3> QED
      BY <3>1, <3>2 DEF Promise!Next, Promise!Commit, Promise!Settled
  <2>7. CASE Commit
    <3>1. /\ lifecycle = "ADVANCING" /\ lifecycle' = "AT_BOUNDARY" /\ UNCHANGED <<episode, ordinal>>
      BY <2>7 DEF Commit, handle
    <3>2. Played' = Played
      BY <1>2, <2>7, CommitHolds
    <3> QED
      BY <3>1, <3>2 DEF Promise!vars
  <2>8. CASE Pause \/ Resume \/ Close
    <3>1. UNCHANGED <<episode, ordinal, log>> /\ Played' = Played
      BY <2>8 DEF Pause, Resume, Close, handle, episodeState, engine, Played
    <3>2. \/ Pause /\ lifecycle = "AT_BOUNDARY" /\ lifecycle' = "PAUSED"
          \/ Resume /\ lifecycle = "PAUSED" /\ lifecycle' = "AT_BOUNDARY"
          \/ Close /\ lifecycle \in {"READY", "AT_BOUNDARY", "PAUSED", "FAILED"} /\ lifecycle' = "CLOSED"
      BY <2>8 DEF Pause, PauseAccepted, Resume, ResumeAccepted, Close, CloseAccepted
    <3>3. lifecycle = "AT_BOUNDARY" => Played = ordinal
      BY <1>2 DEF IInv, Logged
    <3> QED
      BY <3>1, <3>2, <3>3 DEF Promise!Next, Promise!Pause, Promise!Resume, Promise!Close, Promise!Move, Promise!Settled
  <2> QED
    BY <1>2, <2>1, <2>2, <2>3, <2>4, <2>5, <2>6, <2>7, <2>8 DEF Next, Handle, Proceed, Hidden, Breaking
<1> QED BY <1>1, <1>2, Inductive, PTL DEF Spec, RunsEnvironment, Promise!Spec
=============================================================================
