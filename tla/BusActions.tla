----------------------------- MODULE BusActions -----------------------------
(***************************************************************************)
(* The V1 policy's actions inside the engine: what NativeLegal lets through *)
(* and what ExecuteRlAction does with it, down to the single commands of    *)
(* ASSIGN_ROUTE, the one action made of several.                            *)
(*                                                                         *)
(* An engine command (external) either does all of its work or, rejected,   *)
(* none.  A command that passed the test mode of the mask can still be      *)
(* rejected when it is executed.                                            *)
(***************************************************************************)
EXTENDS Integers, Sequences, SequencesExt

CONSTANT Slots   \* vehicle slots, MAX_VEHICLE_SLOTS of them

ASSUME SlotsAssumption == Slots \subseteq Nat /\ 0 \in Slots

Towns == {0, 1}

VARIABLES
  selection,   \* origin_town_slot and destination_town_slot
  connector, stops, depot,
  here, running, orders,  \* of each slot: is there a bus, does it run, where to
  at,          \* the next command of the route transaction under way, or "idle"
  bus, prior, restored,   \* its bus, the orders it had, how many have been put back
  outcome,     \* of the last action
  before       \* history: the world when the last action began

buses == <<here, running, orders>>
world == <<selection, connector, stops, depot, buses>>
transaction == <<at, bus, prior, restored>>
vars == <<world, transaction, outcome, before>>

Unselected == [origin |-> 255, destination |-> 255]

Init ==
  /\ selection = Unselected
  /\ connector = FALSE /\ stops = {} /\ depot = FALSE
  /\ here = [slot \in Slots |-> FALSE]
  /\ running = [slot \in Slots |-> FALSE]
  /\ orders = [slot \in Slots |-> <<>>]
  /\ at = "idle" /\ bus = 0 /\ prior = <<>> /\ restored = 0
  /\ outcome = "NO_OP"
  /\ before = world

-----------------------------------------------------------------------------
AtBoundary == at = "idle" /\ outcome # "INTEGRATION_FAILURE"

Route == <<selection.origin, selection.destination>>

\* Only two towns exist, and a route needs a stop of the company in each.
CanAssign(slot) ==
  /\ here[slot]
  /\ selection # Unselected
  /\ {selection.origin, selection.destination} \subseteq stops
  /\ orders[slot] # Route

CanRun(slot) == here[slot] /\ ~running[slot] /\ Len(orders[slot]) = 2
CanStop(slot) == here[slot] /\ running[slot]

\* The action ends with this outcome; its world is set by the caller.
Ends(result) == outcome' = result /\ before' = world /\ UNCHANGED transaction

Rejected == AtBoundary /\ Ends("NATIVE_REJECTED") /\ UNCHANGED world

-----------------------------------------------------------------------------
(* Actions of a single command, or of none                                  *)

WaitAction == AtBoundary /\ Ends("NO_OP") /\ UNCHANGED world

SelectTowns ==
  /\ AtBoundary
  /\ \E origin, destination \in Towns :
       /\ origin # destination
       /\ selection # [origin |-> origin, destination |-> destination]
       /\ selection' = [origin |-> origin, destination |-> destination]
  /\ Ends("SUCCESS")
  /\ UNCHANGED <<connector, stops, depot, buses>>

BuildRoadConnector ==
  /\ AtBoundary
  /\ ~connector /\ ~depot
  /\ connector' = TRUE
  /\ Ends("SUCCESS")
  /\ UNCHANGED <<selection, stops, depot, buses>>

BuildBusStop ==
  /\ AtBoundary
  /\ \E site \in Towns \ stops : stops' = stops \cup {site}
  /\ Ends("SUCCESS")
  /\ UNCHANGED <<selection, connector, depot, buses>>

BuildRoadDepot ==
  /\ AtBoundary
  /\ connector /\ ~depot
  /\ depot' = TRUE
  /\ Ends("SUCCESS")
  /\ UNCHANGED <<selection, connector, stops, buses>>

\* The engine hands out the lowest free vehicle index.
FirstFree == CHOOSE slot \in Slots :
  ~here[slot] /\ \A other \in Slots : ~here[other] => slot <= other

\* A slot as it is without a bus, and with a new one.
Cleared(slot, taken) ==
  /\ here' = [here EXCEPT ![slot] = taken]
  /\ running' = [running EXCEPT ![slot] = FALSE]
  /\ orders' = [orders EXCEPT ![slot] = <<>>]

BuyBus ==
  /\ AtBoundary
  /\ depot
  /\ \E slot \in Slots : ~here[slot]
  /\ Cleared(FirstFree, TRUE)
  /\ Ends("SUCCESS")
  /\ UNCHANGED <<selection, connector, stops, depot>>

StartStop(slot) ==
  /\ AtBoundary
  /\ running' = [running EXCEPT ![slot] = ~@]
  /\ Ends("SUCCESS")
  /\ UNCHANGED <<selection, connector, stops, depot, here, orders>>

SetRunning == \E slot \in Slots : CanRun(slot) /\ StartStop(slot)
SetStopped == \E slot \in Slots : CanStop(slot) /\ StartStop(slot)

\* The vehicle-loss outcome of M06: the bus in slot zero is sold.
LoseBus ==
  /\ AtBoundary
  /\ here[0]
  /\ Cleared(0, FALSE)
  /\ UNCHANGED <<selection, connector, stops, depot, transaction, outcome>>
  /\ before' = world'

-----------------------------------------------------------------------------
(* ASSIGN_ROUTE: clear, insert the origin, insert the destination; a failed *)
(* insertion clears again and puts the orders back that were there before.  *)

Command(slot, its) ==
  /\ orders' = [orders EXCEPT ![slot] = its]
  /\ UNCHANGED <<selection, connector, stops, depot, here, running, before>>

Continue(next) == at' = next /\ UNCHANGED <<bus, prior, restored, outcome>>
Over(result) == at' = "idle" /\ outcome' = result /\ UNCHANGED <<bus, prior, restored>>

AssignRoute ==
  /\ AtBoundary
  /\ \E slot \in Slots :
       /\ CanAssign(slot)
       /\ orders' = [orders EXCEPT ![slot] = <<>>]
       /\ at' = "first" /\ bus' = slot /\ prior' = orders[slot] /\ restored' = 0
  /\ before' = world
  /\ UNCHANGED <<selection, connector, stops, depot, here, running, outcome>>

InsertFirst ==
  /\ at = "first"
  /\ \/ Command(bus, InsertAt(orders[bus], 1, selection.origin)) /\ Continue("second")
     \/ Command(bus, orders[bus]) /\ Continue("clear")

\* The hook route-after-first-order of the tests.
InjectedFailure ==
  /\ at = "second"
  /\ Command(bus, orders[bus])
  /\ Continue("clear")

\* Mutation: the second insertion fails without the rollback.
InsertSecondUnguarded ==
  /\ at = "second"
  /\ \/ /\ Command(bus, InsertAt(orders[bus], 2, selection.destination))
        /\ Over("SUCCESS")
     \/ Command(bus, orders[bus]) /\ Over("NATIVE_REJECTED")

InsertSecond ==
  /\ at = "second"
  /\ \/ /\ Command(bus, InsertAt(orders[bus], 2, selection.destination))
        /\ Over("SUCCESS")
     \/ Command(bus, orders[bus]) /\ Continue("clear")

RollbackClears ==
  /\ at = "clear"
  /\ Command(bus, <<>>)
  /\ Continue("restore")

\* Mutation: every order is restored at the front.
RestoreAtFront ==
  /\ at = "restore" /\ restored < Len(prior)
  /\ Command(bus, InsertAt(orders[bus], 1, prior[restored + 1]))
  /\ restored' = restored + 1
  /\ UNCHANGED <<at, bus, prior, outcome>>

RollbackRestores ==
  /\ at = "restore" /\ restored < Len(prior)
  /\ Command(bus, InsertAt(orders[bus], restored + 1, prior[restored + 1]))
  /\ restored' = restored + 1
  /\ UNCHANGED <<at, bus, prior, outcome>>

RollbackEnds ==
  /\ at = "restore" /\ restored = Len(prior)
  /\ Over("NATIVE_REJECTED")
  /\ UNCHANGED <<world, before>>

\* A rollback command is rejected: RequireRollback throws, the worker fails.
RollbackFails ==
  /\ at \in {"clear", "restore"}
  /\ Over("INTEGRATION_FAILURE")
  /\ UNCHANGED <<world, before>>

Transaction ==
  \/ InsertFirst \/ InjectedFailure \/ InsertSecond
  \/ RollbackClears \/ RollbackRestores \/ RollbackEnds \/ RollbackFails

Next ==
  \/ WaitAction \/ Rejected \/ SelectTowns
  \/ BuildRoadConnector \/ BuildBusStop \/ BuildRoadDepot \/ BuyBus
  \/ SetRunning \/ SetStopped \/ LoseBus
  \/ AssignRoute \/ Transaction

Spec == Init /\ [][Next]_vars

-----------------------------------------------------------------------------
(* Properties                                                               *)

Selections == {Unselected} \cup {[origin |-> 0, destination |-> 1], [origin |-> 1, destination |-> 0]}

TypeOK ==
  /\ selection \in Selections
  /\ connector \in BOOLEAN /\ depot \in BOOLEAN
  /\ stops \subseteq Towns
  /\ here \in [Slots -> BOOLEAN] /\ running \in [Slots -> BOOLEAN]
  /\ orders \in [Slots -> Seq(Towns)]
  /\ at \in {"idle", "first", "second", "clear", "restore"}
  /\ bus \in Slots /\ prior \in Seq(Towns) /\ restored \in Nat
  /\ outcome \in {"SUCCESS", "NO_OP", "NATIVE_REJECTED", "INTEGRATION_FAILURE"}

\* The orders are the two stops of a route, or none while the bus is stopped.
Whole(its, runs) ==
  \/ its = <<>> /\ ~runs
  \/ Len(its) = 2 /\ ToSet(its) = Towns /\ Towns \subseteq stops

\* At a boundary no bus is left with half a route (ASSIGN_ROUTE is one action,
\* whatever its commands do, and neither it nor a failed attempt leaves a bus on
\* the road without orders).
RoutesAreWhole == AtBoundary => \A slot \in Slots : Whole(orders[slot], running[slot])

\* An action that reports NATIVE_REJECTED has changed nothing, rolled back or
\* not: the orders come back in their order.
RejectedChangesNothing == (AtBoundary /\ outcome = "NATIVE_REJECTED") => world = before
=============================================================================
