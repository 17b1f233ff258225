-------------------------- MODULE SharedMatchProofs --------------------------
(***************************************************************************)
(* The match server, for either player, either company first, every budget *)
(* and every set of failures: what its record, its bookkeeping and its     *)
(* neural log say of the native game, and that no call raises while        *)
(* nothing has failed.                                                     *)
(***************************************************************************)
EXTENDS SharedMatch, FiniteSetTheorems, TLAPS

Statuses == {"ready", "running", "failed", "completed", "aborted-before-native-boundary"}
Deciding == {"n_observe", "n_tensors", "n_predict", "n_act"}
Ending == {"f_observe", "f_close", "f_record", "f_persist"}
Closing == {"n_log", "n_archive"}
Places == Asking \cup Deciding \cup Ending \cup Closing \cup {"idle", "closed", "killed"}

Types ==
  /\ trouble \in BOOLEAN
  /\ turn \in Nat /\ acted \in BOOLEAN /\ over \in BOOLEAN /\ absent \in BOOLEAN
  /\ process \in {"none", "serving", "aborted", "closed"}
  /\ outcome \in {"NONE", "COMPLETE", "CLOSED", "FAILED"}
  /\ wire \in {"up", "unlogged", "late", "aborted"} /\ policy \in {"up", "late"}
  /\ status \in Statuses /\ run_json \in Statuses
  /\ decisions \in Nat /\ current \in {0, 1}
  /\ pending \in BOOLEAN /\ started \in BOOLEAN /\ finished \in BOOLEAN /\ game \in BOOLEAN
  /\ final \in [map : BOOLEAN, known : BOOLEAN]
  /\ summary \in BOOLEAN /\ neural_rows \in Nat /\ archive \in {"ok", "broken"}
  /\ pc \in Places
  /\ tool \in {"none", "start", "observe", "act", "step", "wait"}
  /\ left \in Nat
  /\ reply \in {"none", "value", "refusal", "error"}

(* The native game on its own.                                             *)
Game ==
  /\ turn <= Maximum
  /\ acted => ~Over
  /\ absent => over
  /\ ~started => turn = 0 /\ ~over /\ ~acted

Live == game /\ process = "serving" /\ InOrder

(* As long as no answer was missed the server has the native decision      *)
(* count and company; a match that says it runs has its game.              *)
Bookkeeping ==
  /\ wire = "up" => decisions = turn /\ current = Mover
  /\ status = "running" => wire = "up" /\ started
  /\ status = "ready" => ~started
  /\ ~started =>
       /\ pc \in {"idle", "closed", "killed"} /\ wire = "up" /\ policy = "up"
       /\ ~pending /\ ~game /\ ~finished /\ status \in {"ready", "failed"}
  /\ status = "running" /\ pc \notin Ending \cup {"closed", "killed"} => game /\ ~finished
  /\ finished => ~game /\ status \in {"completed", "failed"}

(* Whose turn it is at each place of a call, and what has been done in it. *)
Turning ==
  /\ pc \in Deciding \cup {"n_step"} =>
       /\ Mover = Neural /\ ~Over /\ ~pending /\ ~finished /\ game
       /\ acted <=> pc = "n_step"
  /\ pc \in Closing /\ ~finished => ~acted /\ ~pending /\ ~Over /\ Mover = Player
  /\ Live /\ wire = "up" /\ pc \notin Ending => (pending <=> acted /\ Mover = Player)
  /\ Live /\ acted /\ Mover = Neural => pc = "n_step" \/ status # "running"
  /\ pc = "s_step" => pending
  /\ pc = "p_act" \/ (~finished /\ (pc = "w_observe" \/ (pc = "answer" /\ tool = "wait"))) => ~pending

(* A match that is being concluded is over, and one that was is whole.     *)
Concluding ==
  /\ pc \in {"f_observe", "f_close"} => game /\ Over
  /\ pc \in Ending => ~finished /\ ~acted /\ InOrder /\ decisions = turn /\ started
  /\ pc \in {"f_record", "f_persist"} => ~game /\ Over /\ process = "closed" /\ outcome = "COMPLETE"
  /\ pc = "f_persist" => status = "completed"
  /\ status = "completed" \/ run_json = "completed" =>
       /\ process = "closed" /\ outcome = "COMPLETE" /\ summary /\ Over
       /\ decisions = turn /\ ~acted /\ ~game
  /\ pc = "closed" /\ archive = "ok" => run_json = status /\ (started => status # "running")

(* Once the policy has failed, the turn stays the neural company's.        *)
PolicyLost ==
  policy = "late" =>
    /\ pc \in {"idle", "answer", "w_observe", "p_act", "closed", "killed"} /\ ~pending
    /\ Live => Mover = Neural /\ ~Over /\ ~acted

(* Without a failure the player is always asked in its turn.               *)
Calm ==
  ~trouble =>
    /\ wire = "up" /\ policy = "up" /\ archive = "ok" /\ pc # "killed"
    /\ started /\ pc \notin {"closed", "f_record", "f_persist"} /\ ~finished => Live
    /\ started /\ pc \in {"idle", "answer", "w_observe", "p_act", "s_step"} /\ ~finished =>
         ~Over /\ Mover = Player
    /\ (pc = "w_observe" \/ (pc = "answer" /\ tool = "wait")) /\ ~finished => ~acted
    /\ finished => pc \in {"idle", "answer", "w_observe", "n_log", "n_archive", "closed"}
    /\ finished \/ pc \in {"f_close", "f_record", "f_persist"} => final.map = ~absent
    /\ reply = "error" => absent

(* The neural decisions among the first n, and the one whose row is due.   *)
NeuralAmong(n) == {k \in 1 .. n : Turns!Mover(k - 1) = Neural}
Due == pc = "n_log" \/ (pc \in {"f_observe", "f_close", "f_record"} /\ LastMover = Neural)

Logged ==
  /\ ~started => neural_rows = 0
  /\ pc \in Ending => turn # 0
  /\ status = "running" /\ pc # "killed" =>
       neural_rows + (IF Due THEN 1 ELSE 0) = Cardinality(NeuralAmong(turn))

IInv == Types /\ Game /\ Bookkeeping /\ Turning /\ Concluding /\ PolicyLost /\ Calm /\ Logged

-----------------------------------------------------------------------------
LEMMA Movers ==
  /\ Turns!Mover(0) = FirstCompany
  /\ \A n \in Nat : Turns!Mover(n) \in {0, 1} /\ Turns!Mover(n + 1) = 1 - Turns!Mover(n)
  BY MatchAssumption DEF Turns!Mover

LEMMA Params ==
  /\ Player \in {0, 1} /\ Neural = 1 - Player /\ FirstCompany \in {0, 1}
  /\ Maximum \in Nat /\ Maximum >= 2
  BY MatchAssumption DEF Neural

\* Each decision is the neural company's or is not.
LEMMA NeuralCount ==
  ASSUME NEW n \in Nat
  PROVE  /\ Cardinality(NeuralAmong(0)) = 0
         /\ Cardinality(NeuralAmong(n)) \in Nat
         /\ Cardinality(NeuralAmong(n + 1)) =
              Cardinality(NeuralAmong(n)) + (IF Turns!Mover(n) = Neural THEN 1 ELSE 0)
  <1>0. NeuralAmong(0) = {}
    BY DEF NeuralAmong
  <1>a. n + 1 \notin NeuralAmong(n) /\ NeuralAmong(n) \subseteq 1 .. n
    BY DEF NeuralAmong
  <1>b. IsFiniteSet(1 .. n)
    BY FS_Interval
  <1>1. IsFiniteSet(NeuralAmong(n)) /\ n + 1 \notin NeuralAmong(n)
    BY <1>a, <1>b, FS_Subset
  <1>2. CASE Turns!Mover(n) = Neural
    <2>1. NeuralAmong(n + 1) = NeuralAmong(n) \cup {n + 1}
      BY <1>2 DEF NeuralAmong
    <2> QED
      BY <1>0, <1>1, <1>2, <2>1, FS_EmptySet, FS_AddElement, FS_CardinalityType
  <1>3. CASE Turns!Mover(n) # Neural
    <2>1. NeuralAmong(n + 1) = NeuralAmong(n)
      BY <1>3 DEF NeuralAmong
    <2> QED
      BY <1>0, <1>1, <1>3, <2>1, FS_EmptySet, FS_CardinalityType
  <1> QED
    BY <1>2, <1>3

\* The tools only enter their place, if the server thinks it is time.
LEMMA ToolsHold ==
  ASSUME IInv, UNCHANGED trouble,
         Observe \/ Act \/ Step \/ Wait
  PROVE  IInv'
  <1> USE Movers, Params, NeuralCount
      DEF IInv, Types, Game, Bookkeeping, Turning, Concluding, PolicyLost, Calm, Logged, Live, InOrder, Removal,
          Due, Places, Statuses, Deciding, Ending, Closing, Asking, Over, Mover, LastMover,
          native, engine, memory, files, control
  <1>1. CASE Observe
    BY <1>1 DEF Observe, Enter
  <1>2. CASE Act
    BY <1>2 DEF Act, Enter
  <1>3. CASE Step
    BY <1>3 DEF Step, StepReady, Enter
  <1>4. CASE Wait
    BY <1>4 DEF Wait, Enter
  <1> QED
    BY <1>1, <1>2, <1>3, <1>4

\* What the player is told, and the turns of a wait.
LEMMA AnswersHold ==
  ASSUME IInv, UNCHANGED trouble,
         Answer \/ AnswerFails \/ WaitObserve
  PROVE  IInv'
  <1> USE Movers, Params, NeuralCount
      DEF IInv, Types, Game, Bookkeeping, Turning, Concluding, PolicyLost, Calm, Logged, Live, InOrder, Removal,
          Due, Places, Statuses, Deciding, Ending, Closing, Asking, Over, Mover, LastMover,
          native, engine, memory, files, control
  <1>1. CASE Answer
    BY <1>1 DEF Answer, Heard, OutOfTurn, Finished
  <1>2. CASE AnswerFails
    BY <1>2 DEF AnswerFails, Heard, OutOfTurn, Raise, Finished
  <1>3. CASE WaitObserve
    BY <1>3 DEF WaitObserve, Finished, Heard, OutOfTurn, Raise
  <1> QED
    BY <1>1, <1>2, <1>3

\* A command or a step of the player that is refused.
LEMMA RefusalHolds ==
  ASSUME IInv, UNCHANGED trouble,
         PlayerActRejected \/ PlayerStepRefused
  PROVE  IInv'
  <1> USE Movers, Params, NeuralCount
      DEF IInv, Types, Game, Bookkeeping, Turning, Concluding, PolicyLost, Calm, Logged, Live, InOrder, Removal,
          Due, Places, Statuses, Deciding, Ending, Closing, Asking, Over, Mover, LastMover,
          native, engine, memory, files, control
  <1>1. CASE PlayerActRejected
    BY <1>1 DEF PlayerActRejected, Heard, Finished
  <1>2. CASE PlayerStepRefused
    BY <1>2 DEF PlayerStepRefused, Heard, OutOfTurn, Raise, Finished
  <1> QED
    BY <1>1, <1>2

\* The end of the match, up to its record.
LEMMA FinishingHold ==
  ASSUME IInv, UNCHANGED trouble,
         FinalObserve \/ FinalRecord \/ FinalFails
  PROVE  IInv'
  <1> USE Movers, Params, NeuralCount
      DEF IInv, Types, Game, Bookkeeping, Turning, Concluding, PolicyLost, Calm, Logged, Live, InOrder, Removal,
          Due, Places, Statuses, Deciding, Ending, Closing, Asking, Over, Mover, LastMover,
          native, engine, memory, files, control
  <1>1. CASE FinalObserve
    BY <1>1 DEF FinalObserve, Heard, OutOfTurn
  <1>2. CASE FinalRecord
    BY <1>2 DEF FinalRecord, ReportAccepts
  <1>3. CASE FinalFails
    BY <1>3 DEF FinalFails, May, Raise, Finished
  <1> QED
    BY <1>1, <1>2, <1>3

\* The neural company's turn, up to its step.
LEMMA DeliberationsHold ==
  ASSUME IInv, UNCHANGED trouble,
         NeuralObserve \/ NeuralTensors \/ Predict \/ PredictFails \/ NeuralAct \/ NeuralActFails
  PROVE  IInv'
  <1> USE Movers, Params, NeuralCount
      DEF IInv, Types, Game, Bookkeeping, Turning, Concluding, PolicyLost, Calm, Logged, Live, InOrder, Removal,
          Due, Places, Statuses, Deciding, Ending, Closing, Asking, Over, Mover, LastMover,
          native, engine, memory, files, control
  <1>1. CASE NeuralObserve
    BY <1>1 DEF NeuralObserve, Advance, Heard, OutOfTurn
  <1>2. CASE NeuralTensors
    BY <1>2 DEF NeuralTensors, Advance, Heard, OutOfTurn
  <1>3. CASE Predict
    BY <1>3 DEF Predict
  <1>4. CASE PredictFails
    BY <1>4 DEF PredictFails, May, Raise, Finished, Refuse
  <1>5. CASE NeuralAct
    BY <1>5 DEF NeuralAct, Heard, OutOfTurn, Turns!Act
  <1>6. CASE NeuralActFails
    BY <1>6 DEF NeuralActFails, May, Heard, OutOfTurn, Turns!Act, Raise, Finished
  <1> QED
    BY <1>1, <1>2, <1>3, <1>4, <1>5, <1>6

\* Its row and its archive.
LEMMA LogsHold ==
  ASSUME IInv, UNCHANGED trouble,
         NeuralLog \/ Archive \/ ArchiveFails
  PROVE  IInv'
  <1> USE Movers, Params, NeuralCount
      DEF IInv, Types, Game, Bookkeeping, Turning, Concluding, PolicyLost, Calm, Logged, Live, InOrder, Removal,
          Due, Places, Statuses, Deciding, Ending, Closing, Asking, Over, Mover, LastMover,
          native, engine, memory, files, control
  <1>1. CASE NeuralLog
    <2>1. CASE pc' = "n_archive"
      BY <1>1, <2>1 DEF NeuralLog, Raise, Finished
    <2>2. CASE May("disk") /\ Raise /\ UNCHANGED neural_rows
      BY <1>1, <2>2 DEF NeuralLog, May, Raise, Finished
    <2> QED
      BY <1>1, <2>1, <2>2 DEF NeuralLog
  <1>2. CASE Archive
    BY <1>2 DEF Archive
  <1>3. CASE ArchiveFails
    BY <1>3 DEF ArchiveFails, May, Raise, Finished
  <1> QED
    BY <1>1, <1>2, <1>3

\* No game, or a process that is gone.
LEMMA LossesHold ==
  ASSUME IInv, UNCHANGED trouble,
         NoGame \/ Killed \/ NativeEnds
  PROVE  IInv'
  <1> USE Movers, Params, NeuralCount
      DEF IInv, Types, Game, Bookkeeping, Turning, Concluding, PolicyLost, Calm, Logged, Live, InOrder, Removal,
          Due, Places, Statuses, Deciding, Ending, Closing, Asking, Over, Mover, LastMover,
          native, engine, memory, files, control
  <1>1. CASE NoGame
    BY <1>1 DEF NoGame, Raise, Finished, Refuse
  <1>2. CASE Killed
    BY <1>2 DEF Killed, May
  <1>3. CASE NativeEnds
    BY <1>3 DEF NativeEnds, May
  <1> QED
    BY <1>1, <1>2, <1>3

\* PlayerAct gives the player's command, in its turn.
LEMMA PlayerActHolds ==
  ASSUME IInv, PlayerAct, UNCHANGED trouble PROVE IInv'
  <1>1. /\ Live /\ pc = "p_act" /\ ~acted /\ ~Over /\ Mover = Player
        /\ acted' = TRUE /\ pending' = TRUE
        /\ IF tool = "wait" THEN pc' = "s_step" /\ reply' = reply ELSE pc' = "idle" /\ reply' = "value"
        /\ UNCHANGED <<turn, over, absent, process, outcome, wire, policy, status, decisions, current, started,
                      finished, final, game, run_json, summary, neural_rows, archive, tool, left>>
    BY Params DEF PlayerAct, Heard, OutOfTurn, Turns!Act, Over, Finished, Live, engine, files, IInv, Types, Mover
  <1> USE Movers, Params, NeuralCount DEF Live, InOrder, Over, Mover, Ending, Deciding, Closing, Asking
  <1>2. Types'
    BY <1>1 DEF IInv, Types, Places
  <1>3. Game' /\ Bookkeeping'
    BY <1>1 DEF IInv, Types, Game, Bookkeeping
  <1>4. Turning' /\ PolicyLost'
    BY <1>1 DEF IInv, Types, Turning, PolicyLost
  <1>5. Concluding' /\ Calm'
    BY <1>1 DEF IInv, Types, Concluding, Calm, PolicyLost, Bookkeeping
  <1>6. Logged'
    BY <1>1 DEF IInv, Types, Logged, Due
  <1> QED
    BY <1>2, <1>3, <1>4, <1>5, <1>6 DEF IInv

\* A step of either company: the decision is counted, and the other is in turn.
SteppedBy(at, c) ==
  /\ Live /\ pc = at /\ acted /\ ~Over /\ Mover = c
  /\ turn \in Nat /\ turn' = turn + 1 /\ turn' <= Maximum
  /\ acted' = FALSE /\ over' \in BOOLEAN /\ absent' \in BOOLEAN /\ (absent' => over')
  /\ decisions' = turn' /\ Turns!Mover(turn') = 1 - c /\ current' = 1 - c
  /\ Turns!Mover(turn' - 1) = c
  /\ UNCHANGED <<process, outcome, wire, policy, status, started, finished, final, game, run_json,
                summary, neural_rows, archive, tool, left, reply>>

LEMMA Stepped ==
  ASSUME IInv, NEW at \in {"s_step", "n_step"}, NEW c \in {0, 1}, NativeStep(at, c)
  PROVE  SteppedBy(at, c)
  <1>1. /\ Live /\ pc = at /\ acted /\ turn' = turn + 1 /\ acted' = FALSE
        /\ over' \in BOOLEAN /\ decisions' = turn' /\ current' = Turns!Mover(turn')
        /\ UNCHANGED <<process, outcome, wire, policy, status, started, finished, final, game, run_json,
                      summary, neural_rows, archive, tool, left, reply>>
    BY DEF NativeStep, Heard, Live, Removal, Turns!Advance, NextCompany, engine, files
  <1>2. ~Over /\ turn \in Nat /\ Maximum \in Nat
    BY <1>1, Params DEF IInv, Types, Game
  <1>3. Mover = c
    BY <1>2 DEF NativeStep, OutOfTurn
  <1>4. Turns!Mover(turn') = 1 - c
    BY <1>1, <1>2, <1>3, Movers DEF Mover
  <1>5. absent' \in BOOLEAN /\ (absent' => over')
    BY DEF NativeStep, Removal
  <1>6. Turns!Mover(turn' - 1) = c
    <2>1. turn' - 1 = turn
      BY <1>1, <1>2
    <2> QED
      BY <1>3, <2>1 DEF Mover
  <1> QED
    BY <1>1, <1>2, <1>3, <1>4, <1>5, <1>6 DEF Over, SteppedBy

\* The player's step ends the match or hands the turn to the policy.
LEMMA PlayerStepHolds ==
  ASSUME IInv, PlayerStep, UNCHANGED trouble PROVE IInv'
  <1>1. SteppedBy("s_step", Player)
    BY Params, Stepped DEF PlayerStep
  <1>2. IF over' \/ turn' >= Maximum THEN pc' = "f_observe" /\ pending' = pending
        ELSE pc' = "n_observe" /\ pending' = FALSE
    BY DEF PlayerStep, AtEnd
  <1> USE <1>2, Params DEF SteppedBy, Live, InOrder, Over, Mover, Ending, Deciding, Closing, Asking
  <1>3. Cardinality(NeuralAmong(turn')) = Cardinality(NeuralAmong(turn)) + 0 /\ turn \in Nat
    BY <1>1, NeuralCount DEF SteppedBy, Mover
  <1>4. Types'
    <2>1. pc' \in Places /\ pending' \in BOOLEAN
      BY DEF Places, IInv, Types
    <2>2. turn' \in Nat /\ decisions' \in Nat /\ current' \in {0, 1}
      BY <1>1
    <2>3. acted' \in BOOLEAN /\ over' \in BOOLEAN /\ absent' \in BOOLEAN
      BY <1>1
    <2>4. UNCHANGED <<process, outcome, wire, policy, status, started, finished, final, game, run_json,
                     summary, neural_rows, archive, tool, left, reply>>
      BY <1>1
    <2> HIDE <1>2
    <2> QED
      BY <2>1, <2>2, <2>3, <2>4 DEF IInv, Types
  <1>5. Game' /\ Bookkeeping'
    BY <1>1 DEF IInv, Types, Game, Bookkeeping
  <1>6. Turning' /\ PolicyLost'
    BY <1>1 DEF IInv, Types, Turning, PolicyLost, Game, Bookkeeping
  <1>7. Concluding' /\ Calm'
    BY <1>1 DEF IInv, Types, Concluding, Calm, PolicyLost, Bookkeeping, Game
  <1>8. Logged'
    BY <1>1, <1>3 DEF IInv, Types, Logged, Due, LastMover
  <1> QED
    BY <1>4, <1>5, <1>6, <1>7, <1>8 DEF IInv

\* The policy's step ends the match or leaves its row to be logged.
LEMMA NeuralStepHolds ==
  ASSUME IInv, NeuralStep, UNCHANGED trouble PROVE IInv'
  <1>1. SteppedBy("n_step", Neural)
    BY Params, Stepped DEF NeuralStep
  <1>2. /\ pc' = (IF over' \/ turn' >= Maximum THEN "f_observe" ELSE "n_log")
        /\ pending' = pending
    BY DEF NeuralStep, AtEnd
  <1> USE <1>2, Params DEF SteppedBy, Live, InOrder, Over, Mover, Ending, Deciding, Closing, Asking
  <1>3. Cardinality(NeuralAmong(turn')) = Cardinality(NeuralAmong(turn)) + 1 /\ turn \in Nat
    BY <1>1, NeuralCount DEF SteppedBy, Mover
  <1>4. Types'
    <2>1. pc' \in Places /\ pending' \in BOOLEAN
      BY DEF Places, IInv, Types
    <2>2. turn' \in Nat /\ decisions' \in Nat /\ current' \in {0, 1}
      BY <1>1
    <2>3. acted' \in BOOLEAN /\ over' \in BOOLEAN /\ absent' \in BOOLEAN
      BY <1>1
    <2>4. UNCHANGED <<process, outcome, wire, policy, status, started, finished, final, game, run_json,
                     summary, neural_rows, archive, tool, left, reply>>
      BY <1>1
    <2> HIDE <1>2
    <2> QED
      BY <2>1, <2>2, <2>3, <2>4 DEF IInv, Types
  <1>5. Game' /\ Bookkeeping'
    BY <1>1 DEF IInv, Types, Game, Bookkeeping
  <1>6. Turning' /\ PolicyLost'
    BY <1>1 DEF IInv, Types, Turning, PolicyLost, Game, Bookkeeping
  <1>7. Concluding' /\ Calm'
    BY <1>1 DEF IInv, Types, Concluding, Calm, PolicyLost, Bookkeeping, Game
  <1>8. Logged'
    BY <1>1, <1>3 DEF IInv, Types, Logged, Due, LastMover
  <1> QED
    BY <1>4, <1>5, <1>6, <1>7, <1>8 DEF IInv

\* start launches the policy and the native process, or fails at once.
LEMMA StartHolds ==
  ASSUME IInv, Start, UNCHANGED trouble PROVE IInv'
  <1>1. /\ pc = "idle" /\ ~started /\ ~game /\ ~finished /\ ~pending /\ ~acted /\ ~over /\ turn = 0
        /\ wire = "up" /\ policy = "up" /\ status # "running" /\ decisions = 0 /\ current = Mover
        /\ started' = TRUE /\ tool' = "start" /\ left' = 0
        /\ UNCHANGED <<turn, acted, over, absent, outcome, wire, policy, decisions, pending, current,
                      finished, final, summary, neural_rows, archive>>
    BY DEF Start, Enter, native, IInv, Types, Game, Bookkeeping
  <1>2. \/ /\ pc' = (IF current = Player THEN "answer" ELSE "n_observe") /\ reply' = "none"
           /\ process' = "serving" /\ game' = TRUE /\ status' = "running"
           /\ run_json' = (IF current = Player THEN "running" ELSE run_json)
        \/ /\ trouble /\ pc' = "idle" /\ reply' = "error" /\ status' = "failed" /\ run_json' = "failed"
           /\ UNCHANGED <<process, game>>
    BY DEF Start, Enter, May, Raise, Finished
  <1> USE <1>1, <1>2, Params, Movers, NeuralCount DEF Live, InOrder, Over, Mover, Ending, Deciding, Closing, Asking
  <1>3. Types'
    <2>1. pc' \in Places /\ reply' \in {"none", "error"}
      BY DEF Places
    <2>2. status' \in Statuses /\ run_json' \in Statuses /\ game' \in BOOLEAN
      BY DEF IInv, Types, Statuses
    <2> QED
      BY <2>1, <2>2 DEF IInv, Types
  <1>4. Game' /\ Bookkeeping'
    BY DEF IInv, Types, Game, Bookkeeping
  <1>5. Turning' /\ PolicyLost'
    BY DEF IInv, Types, Turning, PolicyLost
  <1>6. Concluding' /\ Calm'
    BY DEF IInv, Types, Concluding, Calm, Game
  <1>7. Logged'
    <2>1. Cardinality(NeuralAmong(turn')) = 0 /\ Cardinality(NeuralAmong(turn)) = 0
      OBVIOUS
    <2>2. status' = "running" => neural_rows' = 0 /\ ~Due'
      BY DEF IInv, Types, Logged, Due
    <2> QED
      BY <2>1, <2>2 DEF Logged
  <1> QED
    BY <1>3, <1>4, <1>5, <1>6, <1>7 DEF IInv

\* CLOSE is answered: native's result is that of a whole match.
LEMMA FinalCloseHolds ==
  ASSUME IInv, FinalClose, UNCHANGED trouble PROVE IInv'
  <1>1. /\ pc = "f_close" /\ Over /\ Live /\ ~finished /\ ~acted /\ started
        /\ process' = "closed" /\ outcome' = "COMPLETE" /\ game' = FALSE /\ pc' = "f_record"
        /\ UNCHANGED <<turn, acted, over, absent, wire, policy, status, decisions, pending, current, started,
                      finished, final, run_json, summary, neural_rows, archive, tool, left, reply>>
    BY DEF FinalClose, Heard, Live, InOrder, native, files, IInv, Concluding, Ending
  <1>2. Types'
    <2>1. pc' \in Places /\ game' \in BOOLEAN
      BY <1>1 DEF Places, Ending
    <2>2. /\ process' \in {"none", "serving", "aborted", "closed"}
          /\ outcome' \in {"NONE", "COMPLETE", "CLOSED", "FAILED"}
      BY <1>1
    <2> QED
      BY <1>1, <2>1, <2>2 DEF IInv, Types
  <1>3. Game' /\ Bookkeeping'
    BY <1>1 DEF IInv, Game, Bookkeeping, Over, Mover, Ending
  <1>4. Turning' /\ PolicyLost'
    BY <1>1 DEF IInv, Turning, PolicyLost, Over, Mover, Live, Deciding, Closing
  <1>5. Concluding' /\ Calm'
    BY <1>1 DEF IInv, Concluding, Calm, Over, Mover, Live, InOrder, Ending
  <1>6. Logged'
    BY <1>1 DEF IInv, Logged, Due, LastMover, Ending
  <1> QED
    BY <1>2, <1>3, <1>4, <1>5, <1>6 DEF IInv

\* The record is saved, and the step that ended the match goes on.
LEMMA FinalPersistHolds ==
  ASSUME IInv, FinalPersist, UNCHANGED trouble PROVE IInv'
  <1>1. /\ pc = "f_persist" /\ status = "completed" /\ run_json' = "completed" /\ finished' = TRUE
        /\ \/ pc' = "answer" /\ pending' = FALSE
           \/ pc' = "n_log" /\ pending' = pending
        /\ process = "closed" /\ started /\ ~game /\ InOrder /\ decisions = turn
        /\ UNCHANGED <<turn, acted, over, absent, process, outcome, wire, policy, status, decisions, current,
                      started, final, game, summary, neural_rows, archive, tool, left, reply>>
    BY DEF FinalPersist, native, engine, IInv, Concluding, Ending
  <1>2. Types'
    <2>1. run_json' \in Statuses /\ finished' \in BOOLEAN /\ pc' \in Places /\ pending' \in BOOLEAN
      BY <1>1 DEF Statuses, Places, Asking, Closing, IInv, Types
    <2> QED
      BY <1>1, <2>1 DEF IInv, Types
  <1>3. Game' /\ Bookkeeping'
    BY <1>1 DEF IInv, Game, Bookkeeping, Over, Mover, Ending
  <1>4. Turning' /\ PolicyLost'
    BY <1>1 DEF IInv, Turning, PolicyLost, Over, Mover, Live, Deciding, Closing
  <1>5. Concluding' /\ Calm'
    BY <1>1 DEF IInv, Concluding, Calm, Over, Mover, Live, Ending
  <1>6. Logged'
    BY <1>1 DEF IInv, Logged, Ending
  <1> QED
    BY <1>2, <1>3, <1>4, <1>5, <1>6 DEF IInv

\* No answer: the call raises, and nothing is heard again.
LEMMA UnheardHolds ==
  ASSUME IInv, Unheard, UNCHANGED trouble PROVE IInv'
  <1>1. /\ pc' = "idle" /\ reply' = "error" /\ status' = "failed" /\ run_json' = "failed"
        /\ pc \in Asking /\ game /\ wire # "aborted"
        /\ UNCHANGED <<absent, policy, decisions, pending, current, started, finished, final, game, summary,
                      neural_rows, archive, tool, left>>
    BY DEF Unheard, Raise, Finished, native, CarriedOut
  <1>2. \/ process # "serving" /\ wire' = wire /\ process' = process
        \/ process = "serving" /\ wire' = "late" /\ process' = process
        \/ pc = "f_close" /\ wire' = "aborted" /\ process' = "aborted"
    BY <1>1 DEF Unheard
  <1>3. outcome' \in {outcome, "COMPLETE"}
    BY DEF Unheard
  <1>4. \/ UNCHANGED <<turn, acted, over>>
        \/ ~acted /\ ~Over /\ acted' = TRUE /\ UNCHANGED <<turn, over>> /\ process = "serving"
        \/ acted /\ turn' = turn + 1 /\ acted' = FALSE /\ over' \in BOOLEAN /\ process = "serving"
    <2>1. \/ UNCHANGED native
          \/ process = "serving" /\ \E c : CarriedOut(c)
      BY DEF Unheard
    <2>2. CASE UNCHANGED native
      BY <2>2 DEF native
    <2>3. ASSUME process = "serving", NEW c, CarriedOut(c)
          PROVE  \/ ~acted /\ ~Over /\ acted' = TRUE /\ UNCHANGED <<turn, over>>
                 \/ acted /\ turn' = turn + 1 /\ acted' = FALSE /\ over' \in BOOLEAN
      <3>1. Turns!Act \/ Turns!Advance
        BY <2>3 DEF CarriedOut
      <3>2. CASE Turns!Act
        BY <3>2, Params DEF Turns!Act, Over, IInv, Types
      <3>3. CASE Turns!Advance
        BY <3>3 DEF Turns!Advance
      <3> QED
        BY <3>1, <3>2, <3>3
    <2> QED
      BY <2>1, <2>2, <2>3
  <1>5. started /\ ~finished /\ (process = "serving" => ~InOrder')
    BY <1>1, <1>2 DEF IInv, Bookkeeping, Types, InOrder
  <1>6. trouble
    BY <1>1 DEF Unheard, May, IInv, Calm, Live, Bookkeeping, Types, Asking
  <1>7. Types'
    <2>1. turn' \in Nat /\ acted' \in BOOLEAN /\ over' \in BOOLEAN
      <3>1. turn \in Nat /\ acted \in BOOLEAN /\ over \in BOOLEAN
        BY DEF IInv, Types
      <3>2. turn' \in Nat
        BY <1>4, <3>1
      <3>3. acted' \in BOOLEAN /\ over' \in BOOLEAN
        BY <1>4, <3>1, Zenon
      <3> QED
        BY <3>2, <3>3
    <2>2. wire' \in {"up", "unlogged", "late", "aborted"} /\ process' \in {"none", "serving", "aborted", "closed"}
      BY <1>2 DEF IInv, Types
    <2> QED
      BY <1>1, <1>3, <2>1, <2>2 DEF IInv, Types, Places, Statuses
  <1>8. Game' /\ Bookkeeping'
    <2>1. turn \in Nat /\ Maximum \in Nat /\ turn <= Maximum /\ (acted => ~Over) /\ (absent => over)
      BY Params DEF IInv, Types, Game
    <2>2. Game'
      <3>1. CASE UNCHANGED <<turn, acted, over>>
        BY <1>1, <1>5, <3>1 DEF IInv, Game, Over
      <3>2. CASE ~acted /\ ~Over /\ acted' = TRUE /\ UNCHANGED <<turn, over>>
        BY <1>1, <1>5, <2>1, <3>2 DEF Game, Over
      <3>3. CASE acted /\ turn' = turn + 1 /\ acted' = FALSE /\ over' \in BOOLEAN
        BY <1>1, <1>5, <2>1, <3>3 DEF Game, Over
      <3> QED
        BY <1>4, <3>1, <3>2, <3>3
    <2>3. Bookkeeping'
      BY <1>1, <1>2, <1>4, <1>5 DEF IInv, Types, Bookkeeping, Mover
    <2> QED
      BY <2>2, <2>3
  <1>9. Turning' /\ PolicyLost'
    BY <1>1, <1>2, <1>4, <1>5
    DEF IInv, Types, Turning, PolicyLost, Over, Mover, Live, Deciding, Closing, Ending, Asking
  <1>10. Concluding' /\ Calm'
    BY <1>1, <1>2, <1>4, <1>5, <1>6 DEF IInv, Types, Concluding, Calm, Bookkeeping, Ending
  <1>11. Logged'
    BY <1>1, <1>5 DEF IInv, Logged, Ending
  <1> QED
    BY <1>7, <1>8, <1>9, <1>10, <1>11 DEF IInv

\* The answer is lost: the call raises, and what follows is still in order.
LEMMA UnloggedHolds ==
  ASSUME IInv, Unlogged, UNCHANGED trouble PROVE IInv'
  <1>1. /\ pc' = "idle" /\ reply' = "error" /\ status' = "failed" /\ run_json' = "failed"
        /\ wire' = "unlogged" /\ trouble
        /\ pc \in Asking /\ pc # "f_close" /\ Live
        /\ UNCHANGED <<process, outcome, policy, decisions, pending, current, started, finished, final, game,
                      summary, neural_rows, archive, tool, left>>
    BY DEF Unlogged, May, Heard, Live, Raise, Finished
  <1>2. started /\ ~finished
    BY <1>1 DEF IInv, Bookkeeping, Live
  <1>3. turn \in Nat /\ Maximum \in Nat /\ turn <= Maximum /\ (acted => ~Over) /\ (absent => over)
    BY Params DEF IInv, Types, Game
  <1>4. \/ UNCHANGED <<turn, acted, over, absent>>
        \/ /\ ~acted /\ ~Over /\ acted' = TRUE /\ UNCHANGED <<turn, over, absent>>
           /\ pc \in {"p_act", "n_act"} /\ Mover = Asker
        \/ /\ acted /\ turn' = turn + 1 /\ acted' = FALSE /\ over' \in BOOLEAN
           /\ absent' \in BOOLEAN /\ (absent' => over') /\ pc \in {"s_step", "n_step"}
    <2>1. CASE Stepping /\ Turns!Advance /\ Removal
      BY <2>1 DEF Stepping, Turns!Advance, Removal
    <2>2. CASE pc \in {"p_act", "n_act"} /\ CarriedOut(Asker)
      <3>1. Turns!Act /\ UNCHANGED absent /\ ~OutOfTurn(Asker)
        BY <2>2 DEF CarriedOut
      <3>2. ~acted /\ ~Over /\ acted' = TRUE /\ UNCHANGED <<turn, over>>
        BY <1>3, <3>1 DEF Turns!Act, Over
      <3>3. Mover = Asker
        BY <3>1, <3>2 DEF OutOfTurn
      <3> QED
        BY <2>2, <3>1, <3>2, <3>3
    <2>3. CASE UNCHANGED native
      BY <2>3 DEF native
    <2> QED
      BY <2>1, <2>2, <2>3 DEF Unlogged
  <1>5. Types'
    <2>1. turn' \in Nat /\ acted' \in BOOLEAN /\ over' \in BOOLEAN /\ absent' \in BOOLEAN
      <3>1. turn \in Nat /\ acted \in BOOLEAN /\ over \in BOOLEAN /\ absent \in BOOLEAN
        BY DEF IInv, Types
      <3>2. turn' \in Nat
        BY <1>4, <3>1
      <3>3. acted' \in BOOLEAN /\ over' \in BOOLEAN /\ absent' \in BOOLEAN
        BY <1>4, <3>1, Zenon
      <3> QED
        BY <3>2, <3>3
    <2> QED
      BY <1>1, <2>1 DEF IInv, Types, Places, Statuses
  <1>6. Game' /\ Bookkeeping'
    <2>1. Game'
      <3>1. CASE UNCHANGED <<turn, acted, over, absent>>
        BY <1>1, <1>2, <3>1 DEF IInv, Game, Over
      <3>2. CASE ~acted /\ ~Over /\ acted' = TRUE /\ UNCHANGED <<turn, over, absent>>
        BY <1>1, <1>2, <1>3, <3>2 DEF Game, Over
      <3>3. CASE acted /\ turn' = turn + 1 /\ acted' = FALSE /\ (absent' => over')
        BY <1>1, <1>2, <1>3, <3>3 DEF Game, Over
      <3> QED
        BY <1>4, <3>1, <3>2, <3>3
    <2>2. Bookkeeping'
      BY <1>1, <1>2 DEF IInv, Types, Bookkeeping
    <2> QED
      BY <2>1, <2>2
  <1>7. Turning'
    BY <1>1 DEF IInv, Types, Turning, Deciding, Closing, Ending
  <1>8. PolicyLost'
    <2>1. ASSUME policy = "late"
          PROVE  UNCHANGED <<turn, acted, over>> /\ Mover = Neural /\ ~Over /\ ~acted /\ ~pending
      <3>1. pc \in {"answer", "w_observe", "p_act"} /\ Mover = Neural /\ ~Over /\ ~acted /\ ~pending
        BY <1>1, <2>1 DEF IInv, PolicyLost, Asking
      <3>2. pc = "p_act" => Mover # Asker
        BY <3>1, Params DEF Asker
      <3> QED
        BY <1>4, <3>1, <3>2
    <2> QED
      BY <1>1, <2>1 DEF PolicyLost, Over, Mover
  <1>9. Concluding' /\ Calm'
    BY <1>1, <1>2 DEF IInv, Types, Concluding, Calm, Live, Bookkeeping, Ending
  <1>10. Logged'
    BY <1>1, <1>2 DEF IInv, Logged, Ending
  <1> QED
    BY <1>5, <1>6, <1>7, <1>8, <1>9, <1>10 DEF IInv

\* close ends what is left and settles the record.
LEMMA CloseHolds ==
  ASSUME IInv, Close, UNCHANGED trouble PROVE IInv'
  <1>1. /\ pc = "idle" /\ pc' = "closed" /\ game' = FALSE
        /\ process' = (IF game /\ process = "serving" THEN "aborted" ELSE process)
        /\ status' = (IF started /\ ~finished /\ status # "failed"
                      THEN "aborted-before-native-boundary" ELSE status)
        /\ run_json' = (IF archive = "ok" THEN status' ELSE run_json)
        /\ UNCHANGED <<turn, acted, over, absent, outcome, wire, policy, decisions, pending, current, started,
                      finished, final, summary, neural_rows, archive, tool, left, reply>>
    BY DEF Close, StatusAtClose, native
  <1>2. Types'
    <2>1. status' \in Statuses /\ run_json' \in Statuses
      BY <1>1 DEF IInv, Types, Statuses
    <2>2. process' \in {"none", "serving", "aborted", "closed"} /\ pc' \in Places /\ game' \in BOOLEAN
      BY <1>1 DEF IInv, Types, Places
    <2> QED
      BY <1>1, <2>1, <2>2 DEF IInv, Types
  <1>3. Game' /\ Bookkeeping'
    BY <1>1 DEF IInv, Game, Bookkeeping, Over, Mover, Ending
  <1>4. Turning' /\ PolicyLost'
    BY <1>1 DEF IInv, Turning, PolicyLost, Over, Mover, Live, Deciding, Closing
  <1>5. Concluding' /\ Calm'
    BY <1>1 DEF IInv, Types, Concluding, Calm, Bookkeeping, Over, Mover, Live, Ending
  <1>6. Logged'
    BY <1>1 DEF IInv, Types, Logged, Bookkeeping, Ending, Due
  <1> QED
    BY <1>2, <1>3, <1>4, <1>5, <1>6 DEF IInv

-----------------------------------------------------------------------------
LEMMA InitHolds == Init => IInv
  <1> SUFFICES ASSUME Init PROVE IInv
    OBVIOUS
  <1>1. /\ turn = 0 /\ ~acted /\ ~over /\ ~absent /\ ~started /\ ~finished /\ ~game /\ ~pending
        /\ final = [map |-> FALSE, known |-> FALSE] /\ trouble \in BOOLEAN
    BY DEF Init, Turns!Init, NoState
  <1>2. Types
    <2>1. current \in {0, 1}
      BY Params DEF Init
    <2>2. pc \in Places /\ status \in Statuses /\ run_json \in Statuses
      BY DEF Init, Places, Statuses
    <2>3. final \in [map : BOOLEAN, known : BOOLEAN]
      BY <1>1
    <2>4. acted \in BOOLEAN /\ over \in BOOLEAN
      BY DEF Init, Turns!Init
    <2>5. /\ absent \in BOOLEAN /\ pending \in BOOLEAN /\ started \in BOOLEAN
          /\ finished \in BOOLEAN /\ game \in BOOLEAN /\ summary \in BOOLEAN
      BY DEF Init
    <2> QED
      BY <1>1, <2>1, <2>2, <2>3, <2>4, <2>5 DEF Init, Types
  <1>3. Game
    BY <1>1, Params DEF Game
  <1>4. Bookkeeping
    BY <1>1, Movers DEF Init, Bookkeeping, Mover
  <1>5. Turning /\ PolicyLost
    BY <1>1 DEF Init, Turning, PolicyLost, Live, Deciding, Closing
  <1>6. Concluding /\ Calm
    BY <1>1 DEF Init, Concluding, Calm, Ending
  <1>7. Logged
    BY <1>1 DEF Init, Logged, Ending
  <1> QED
    BY <1>2, <1>3, <1>4, <1>5, <1>6, <1>7 DEF IInv

LEMMA NextHolds == IInv /\ [Next]_vars => IInv'
  <1> SUFFICES ASSUME IInv, [Next]_vars PROVE IInv'
    OBVIOUS
  <1>1. CASE Tool /\ UNCHANGED trouble
    BY <1>1, StartHolds, ToolsHold DEF Tool
  <1>2. CASE Progress /\ UNCHANGED trouble
    BY <1>2, AnswersHold, PlayerActHolds, RefusalHolds, PlayerStepHolds, FinishingHold, FinalCloseHolds,
       FinalPersistHolds, DeliberationsHold, NeuralStepHolds, LogsHold, UnheardHolds, UnloggedHolds,
       LossesHold DEF Progress
  <1>3. CASE Close /\ UNCHANGED trouble
    BY <1>3, CloseHolds
  <1>4. CASE (Killed \/ NativeEnds) /\ UNCHANGED trouble
    BY <1>4, LossesHold
  <1>5. CASE UNCHANGED vars
    BY <1>5 DEF vars, native, engine, memory, files, control, IInv, Types, Game, Bookkeeping, Turning,
       Concluding, PolicyLost, Calm, Logged, Live, InOrder, Over, Mover, Due, LastMover
  <1> QED
    BY <1>1, <1>2, <1>3, <1>4, <1>5 DEF Next

\* Whatever happens to a match, the invariant holds: the account that Match keeps of its
\* game, the place a call has reached, the record and the log agree.
THEOREM Inductive == Spec => []IInv
  BY InitHolds, NextHolds, PTL DEF Spec

\* A record that says completed stands for a whole match: finish (mcp_v2.py) saves it only
\* after native's COMPLETE result and the report, and nothing overwrites either.  And close
\* leaves no record that says running, if it can save one.
THEOREM RecordsAreTrue == Spec => []RecordIsTrue
  <1>1. IInv => RecordIsTrue
    BY Params DEF IInv, Types, Statuses, Game, Bookkeeping, Concluding, RecordIsTrue, Over
  <1> QED
    BY <1>1, Inductive, PTL

\* The decisions, the pending action and the company that Match keeps are native's while its
\* match runs, and its requests are ones native accepts, whatever failed between two of them
\* (but for the step of an action that was stepped already, its answer lost to the log).
THEOREM KeepsInStep == Spec => []InStep
  <1>1. IInv => InStep
    <2> SUFFICES ASSUME IInv PROVE InStep
      OBVIOUS
    <2>1. ASSUME pc = "idle", status = "running", process = "serving"
          PROVE  decisions = turn /\ pending = acted /\ current = Mover
      BY <2>1, Params, Movers DEF IInv, Types, Bookkeeping, Turning, Live, InOrder, Mover, Ending
    <2>2. ASSUME game, process = "serving", InOrder
          PROVE  /\ pc = "s_step" /\ wire = "up" => acted /\ ~OutOfTurn(Player)
                 /\ pc = "n_step" => acted
                 /\ pc \in {"n_tensors", "n_act"} => ~acted /\ ~Over
                 /\ pc \in {"n_observe", "n_tensors", "n_act", "n_step"} => ~OutOfTurn(Neural)
                 /\ pc = "f_observe" => Over
      BY <2>2 DEF IInv, Turning, Concluding, Live, OutOfTurn, Ending, Deciding
    <2> QED
      BY <2>1, <2>2 DEF InStep
  <1> QED
    BY <1>1, Inductive, PTL

\* neural_turn logs each of its decisions once; a match that runs has a row for every one.
THEOREM LogsEveryNeuralTurn == Spec => []NeuralTurnsLogged
  <1>1. IInv => NeuralTurnsLogged
    <2> SUFFICES ASSUME IInv, pc = "idle", status = "running"
                 PROVE  neural_rows = Cardinality({n \in 1 .. decisions : Turns!Mover(n - 1) = Neural})
      BY DEF NeuralTurnsLogged
    <2>1. decisions = turn /\ ~Due /\ neural_rows \in Nat
      BY DEF IInv, Types, Bookkeeping, Due
    <2>2. neural_rows = Cardinality(NeuralAmong(turn))
      BY <2>1 DEF IInv, Logged
    <2> QED
      BY <2>1, <2>2 DEF NeuralAmong
  <1> QED
    BY <1>1, Inductive, PTL

\* A PolicyClient that timed out is not asked again: native stays at the neural company's
\* turn, which the player's tools cannot leave.
THEOREM NoLateAnswer == Spec => []LatePolicyUnused
  <1>1. IInv => LatePolicyUnused
    BY DEF IInv, PolicyLost, LatePolicyUnused
  <1> QED
    BY <1>1, Inductive, PTL

\* While nothing fails and the player's company exists, no tool call raises.
THEOREM CallsSucceed == Spec => []NoErrorInTheGame
  <1>1. IInv => NoErrorInTheGame
    BY DEF IInv, Calm, NoErrorInTheGame
  <1> QED
    BY <1>1, Inductive, PTL
=============================================================================
