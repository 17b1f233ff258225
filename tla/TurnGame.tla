------------------------------ MODULE TurnGame ------------------------------
(***************************************************************************)
(* What the development live match promises, without requests, pipes or    *)
(* processes: the companies take turns, a turn is exactly one command      *)
(* followed by exactly one advance of the simulation, no turn is played    *)
(* after the match is over or its budget is spent, and nothing that was    *)
(* played is ever taken back.                                              *)
(***************************************************************************)
EXTENDS Integers, Sequences

CONSTANTS Companies,      \* number of companies that share the map
          FirstCompany,   \* the company that plays decision 0
          Maximum         \* the global budget of decisions

VARIABLES turn,     \* decisions completed
          acted,    \* the company in turn has executed its command
          over,     \* some company went bankrupt
          played    \* the company of each executed command, in order

vars == <<turn, acted, over, played>>

Mover(n) == (FirstCompany + n) % Companies

Init ==
  /\ turn = 0
  /\ acted = FALSE
  /\ over = FALSE
  /\ played = <<>>

\* The company in turn executes its one command.
Act ==
  /\ ~acted /\ ~over /\ turn < Maximum
  /\ acted' = TRUE
  /\ played' = Append(played, Mover(turn))
  /\ UNCHANGED <<turn, over>>

\* The simulation advances by the fixed step; a company may go bankrupt.
Advance ==
  /\ acted
  /\ turn' = turn + 1
  /\ acted' = FALSE
  /\ over' \in BOOLEAN
  /\ UNCHANGED played

Next == Act \/ Advance

Spec == Init /\ [][Next]_vars
=============================================================================
