---------------------------- MODULE Environment ----------------------------
(***************************************************************************)
(* What the synchronized environment promises to a trainer, without frames, *)
(* requests or tokens: episodes follow one another, a game step is played   *)
(* and then committed before anything else happens, a pause holds the game  *)
(* still, and a failed environment can only be closed.                      *)
(***************************************************************************)
EXTENDS Naturals

VARIABLES
  phase,      \* ready, boundary, paused, failed, closed
  episode,    \* episodes begun
  played,     \* actions the engine has executed in this episode
  committed   \* transitions committed in this episode

vars == <<phase, episode, played, committed>>

Init == phase = "ready" /\ episode = 0 /\ played = 0 /\ committed = 0

Settled == played = committed

Reset ==
  /\ phase \in {"ready", "boundary"}
  /\ Settled
  /\ phase' = "boundary"
  /\ episode' = episode + 1
  /\ played' = 0
  /\ committed' = 0

Play ==
  /\ phase = "boundary"
  /\ Settled
  /\ played' = played + 1
  /\ UNCHANGED <<phase, episode, committed>>

Commit ==
  /\ phase = "boundary"
  /\ ~Settled
  /\ committed' = played
  /\ UNCHANGED <<phase, episode, played>>

Move(from, to) ==
  /\ phase = from
  /\ phase' = to
  /\ UNCHANGED <<episode, played, committed>>

Pause == Settled /\ Move("boundary", "paused")
Resume == Move("paused", "boundary")

Close ==
  \/ Move("ready", "closed")
  \/ Settled /\ Move("boundary", "closed")
  \/ Move("paused", "closed")
  \/ Move("failed", "closed")

Fail ==
  \E from \in {"ready", "boundary", "paused", "closed"} : Move(from, "failed")

Next == Reset \/ Play \/ Commit \/ Pause \/ Resume \/ Close \/ Fail

Spec == Init /\ [][Next]_vars
=============================================================================
