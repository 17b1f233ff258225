--------------------------- MODULE EpisodeProofs ---------------------------
(***************************************************************************)
(* What a V1 episode leaves behind.  In the game: the route transaction     *)
(* leaves no bus with half a route, and a rejected action leaves the world  *)
(* as it was, for any number of vehicle slots.  On disk: what a published   *)
(* trajectory bundle is, for all bounds, builders, directories and          *)
(* observations, and whatever exceptions its caller ignores.  The two       *)
(* components share nothing but this module.                               *)
(***************************************************************************)
EXTENDS BusActions, TrajectoryBundle, FiniteSetTheorems, TLAPS

-----------------------------------------------------------------------------
(* The routes                                                               *)

Progress ==
  /\ at = "first" => orders[bus] = <<>>
  /\ at = "second" => orders[bus] = <<selection.origin>>
  /\ at # "restore" => restored = 0
  /\ at = "restore" =>
       /\ restored <= Len(prior) /\ Len(orders[bus]) = restored
       /\ \A i \in 1 .. restored : orders[bus][i] = prior[i]

(* The invariant while a transaction is under way: how far it has got, and  *)
(* that it can still go back, to the world as it was, which was whole.      *)
Reversible ==
  /\ selection # Unselected /\ Towns \subseteq stops
  /\ Whole(prior, running[bus])
  /\ \A slot \in Slots \ {bus} : Whole(orders[slot], running[slot])
  /\ before = <<selection, connector, stops, depot,
                <<here, running, [orders EXCEPT ![bus] = prior]>>>>
  /\ Progress

IInv ==
  /\ TypeOK
  /\ RoutesAreWhole
  /\ RejectedChangesNothing
  /\ at # "idle" => Reversible

-----------------------------------------------------------------------------
LEMMA InsertAtEnd ==
  ASSUME NEW s \in Seq(Towns), NEW e \in Towns
  PROVE  InsertAt(s, Len(s) + 1, e) = Append(s, e)
  <1>1. SubSeq(s, 1, Len(s)) = s /\ SubSeq(s, Len(s) + 1, Len(s)) = <<>>
    OBVIOUS
  <1>2. (s \o <<e>>) \o <<>> = Append(s, e)
    OBVIOUS
  <1>3. (Len(s) + 1) - 1 = Len(s)
    OBVIOUS
  <1>4. InsertAt(s, Len(s) + 1, e) =
          SubSeq(s, 1, (Len(s) + 1) - 1) \o <<e>> \o SubSeq(s, Len(s) + 1, Len(s))
    BY DEF InsertAt
  <1>5. InsertAt(s, Len(s) + 1, e) = (s \o <<e>>) \o <<>>
    BY <1>1, <1>3, <1>4
  <1> QED
    BY <1>2, <1>5

LEMMA Endpoints ==
  ASSUME selection \in Selections, selection # Unselected
  PROVE  /\ selection.origin \in Towns /\ selection.destination \in Towns
         /\ Towns = {selection.origin, selection.destination}
  BY DEF Selections, Unselected, Towns

LEMMA RouteIsWhole ==
  ASSUME selection \in Selections, selection # Unselected, Towns \subseteq stops, NEW runs
  PROVE  Whole(Append(<<selection.origin>>, selection.destination), runs)
  <1> DEFINE its == Append(<<selection.origin>>, selection.destination)
  <1>1. <<selection.origin>> \in Seq(Towns) /\ selection.destination \in Towns
    BY Endpoints
  <1>2. Len(its) = 2 /\ DOMAIN its = {1, 2} /\ its[1] = selection.origin /\ its[2] = selection.destination
    BY <1>1
  <1>3. ToSet(its) = Towns
    BY <1>2, Endpoints DEF ToSet
  <1> QED
    BY <1>2, <1>3 DEF Whole

LEMMA InitHolds == Init => IInv
  <1> SUFFICES ASSUME Init PROVE IInv
    OBVIOUS
  <1>1. TypeOK
    BY SlotsAssumption DEF Init, TypeOK, Selections, Unselected
  <1>2. RoutesAreWhole
    BY DEF Init, RoutesAreWhole, Whole
  <1> QED
    BY <1>1, <1>2 DEF Init, IInv, RejectedChangesNothing

-----------------------------------------------------------------------------
(* Whatever is done between transactions, the slots must stay whole, and a  *)
(* rejection leave the world to the history.                                *)
LEMMA BetweenTransactions ==
  ASSUME TypeOK', at' = "idle",
         \A slot \in Slots : Whole(orders[slot], running[slot])',
         outcome' = "NATIVE_REJECTED" => before' = world'
  PROVE  IInv'
  <1>1. RoutesAreWhole'
    BY DEF RoutesAreWhole
  <1>2. RejectedChangesNothing'
    BY DEF RejectedChangesNothing
  <1> QED
    BY <1>1, <1>2 DEF IInv

LEMMA SingleCommands ==
  ASSUME IInv,
         \/ WaitAction \/ Rejected \/ SelectTowns \/ BuildRoadConnector \/ BuildBusStop
         \/ BuildRoadDepot \/ BuyBus \/ SetRunning \/ SetStopped \/ LoseBus
  PROVE  IInv'
  <1>0. TypeOK /\ (AtBoundary => \A slot \in Slots : Whole(orders[slot], running[slot]))
    BY DEF IInv, RoutesAreWhole
  <1>1. CASE WaitAction \/ Rejected
    <2>1. UNCHANGED <<world, transaction>> /\ AtBoundary /\ before' = world
          /\ outcome' \in {"NO_OP", "NATIVE_REJECTED"}
      BY <1>1 DEF WaitAction, Rejected, Ends
    <2>2. TypeOK'
      BY <1>0, <2>1 DEF TypeOK, world, transaction, buses
    <2>3. \A slot \in Slots : Whole(orders[slot], running[slot])'
      BY <1>0, <2>1 DEF Whole, world, buses
    <2>4. at' = "idle" /\ world' = world
      BY <2>1 DEF AtBoundary, transaction
    <2> QED
      BY <2>1, <2>2, <2>3, <2>4, BetweenTransactions
  <1>2. CASE SelectTowns \/ BuildRoadConnector \/ BuildBusStop \/ BuildRoadDepot
    <2>1. /\ AtBoundary /\ UNCHANGED <<transaction, here, running, orders>>
          /\ outcome' = "SUCCESS" /\ stops \subseteq stops'
      BY <1>2 DEF SelectTowns, BuildRoadConnector, BuildBusStop, BuildRoadDepot, Ends, buses
    <2>2. TypeOK'
      <3>1. CASE SelectTowns
        BY <1>0, <2>1, <3>1 DEF TypeOK, SelectTowns, transaction, Selections, Towns
      <3>2. CASE BuildRoadConnector \/ BuildBusStop \/ BuildRoadDepot
        BY <1>0, <2>1, <3>2 DEF TypeOK, BuildRoadConnector, BuildBusStop, BuildRoadDepot, transaction, Towns
      <3> QED
        BY <1>2, <3>1, <3>2
    <2>3. \A slot \in Slots : Whole(orders[slot], running[slot])'
      BY <1>0, <2>1 DEF Whole
    <2>4. at' = "idle"
      BY <2>1 DEF AtBoundary, transaction
    <2> QED
      BY <2>1, <2>2, <2>3, <2>4, BetweenTransactions
  <1>3. ASSUME NEW slot, NEW taken \in BOOLEAN, Cleared(slot, taken), AtBoundary,
               UNCHANGED <<selection, connector, stops, depot, transaction>>,
               outcome' \in {"SUCCESS", "NO_OP", "NATIVE_REJECTED"},
               outcome' = "NATIVE_REJECTED" => before' = world'
        PROVE  IInv'
    <2>0. /\ here' \in [Slots -> BOOLEAN] /\ running' \in [Slots -> BOOLEAN]
          /\ orders' \in [Slots -> Seq(Towns)]
      <3>1. here' \in [Slots -> BOOLEAN]
        BY <1>0, <1>3 DEF TypeOK, Cleared
      <3>2. running' \in [Slots -> BOOLEAN]
        BY <1>0, <1>3 DEF TypeOK, Cleared
      <3>3. <<>> \in Seq(Towns)
        OBVIOUS
      <3>4. orders' \in [Slots -> Seq(Towns)]
        BY <1>0, <1>3, <3>3 DEF TypeOK, Cleared
      <3> QED
        BY <3>1, <3>2, <3>4
    <2>1. TypeOK'
      BY <1>0, <1>3, <2>0 DEF TypeOK, transaction
    <2>2. ASSUME NEW other \in Slots PROVE Whole(orders[other], running[other])'
      <3>1. CASE other = slot
        BY <1>0, <1>3, <3>1 DEF Cleared, Whole, TypeOK
      <3>2. CASE other # slot
        <4>1. orders'[other] = orders[other] /\ running'[other] = running[other] /\ stops' = stops
          BY <1>0, <1>3, <3>2 DEF Cleared, TypeOK
        <4> QED
          BY <1>0, <1>3, <4>1 DEF Whole
      <3> QED
        BY <3>1, <3>2
    <2>3. at' = "idle"
      BY <1>3 DEF AtBoundary, transaction
    <2> QED
      BY <1>3, <2>1, <2>2, <2>3, BetweenTransactions
  <1>4. CASE BuyBus
    <2>1. /\ Cleared(FirstFree, TRUE) /\ AtBoundary /\ outcome' = "SUCCESS"
          /\ UNCHANGED <<selection, connector, stops, depot, transaction>>
      BY <1>4 DEF BuyBus, Ends
    <2> QED
      BY <1>3, <2>1
  <1>5. CASE LoseBus
    <2>1. /\ Cleared(0, FALSE) /\ AtBoundary /\ UNCHANGED outcome /\ before' = world'
          /\ UNCHANGED <<selection, connector, stops, depot, transaction>>
      BY <1>5 DEF LoseBus
    <2>2. outcome' \in {"SUCCESS", "NO_OP", "NATIVE_REJECTED"}
      BY <1>0, <2>1 DEF AtBoundary, TypeOK
    <2> QED
      BY <1>3, <2>1, <2>2
  <1>6. CASE SetRunning \/ SetStopped
    <2>1. PICK slot \in Slots : (CanRun(slot) \/ CanStop(slot)) /\ StartStop(slot)
      BY <1>6 DEF SetRunning, SetStopped
    <2>2. /\ AtBoundary /\ outcome' = "SUCCESS" /\ running' = [running EXCEPT ![slot] = ~running[slot]]
          /\ UNCHANGED <<selection, connector, stops, depot, here, orders, transaction>>
      BY <2>1 DEF StartStop, Ends
    <2>3. TypeOK'
      BY <1>0, <2>2 DEF TypeOK, transaction
    <2>4. ASSUME NEW other \in Slots PROVE Whole(orders[other], running[other])'
      <3>1. CASE other # slot
        <4>1. running'[other] = running[other]
          BY <1>0, <2>2, <3>1 DEF TypeOK
        <4> QED
          BY <1>0, <2>2, <4>1 DEF Whole
      <3>2. CASE other = slot
        <4>1. running'[slot] = ~running[slot] /\ running[slot] \in BOOLEAN
          BY <1>0, <2>2 DEF TypeOK
        <4>2. CASE CanRun(slot)
          <5>1. Len(orders[slot]) = 2 /\ Len(<<>>) = 0
            BY <4>2 DEF CanRun
          <5>2. ToSet(orders[slot]) = Towns /\ Towns \subseteq stops
            BY <1>0, <2>2, <5>1 DEF Whole
          <5> QED
            BY <2>2, <3>2, <5>1, <5>2 DEF Whole
        <4>3. CASE CanStop(slot)
          <5>1. Whole(orders[slot], running[slot]) /\ running[slot]
            BY <1>0, <2>2, <4>3 DEF CanStop
          <5>2. Len(orders[slot]) = 2 /\ ToSet(orders[slot]) = Towns /\ Towns \subseteq stops
            BY <5>1 DEF Whole
          <5> QED
            BY <2>2, <3>2, <5>2 DEF Whole
        <4> QED
          BY <2>1, <4>2, <4>3
      <3> QED
        BY <3>1, <3>2
    <2>5. at' = "idle"
      BY <2>2 DEF AtBoundary, transaction
    <2> QED
      BY <2>2, <2>3, <2>4, <2>5, BetweenTransactions
  <1> QED
    BY <1>1, <1>2, <1>4, <1>5, <1>6

-----------------------------------------------------------------------------
(* The world before is this one with the prior orders, and a command of the *)
(* transaction touches nothing but them.                                    *)
LEMMA AssignHolds == IInv /\ AssignRoute => IInv'
  <1> SUFFICES ASSUME IInv, AssignRoute PROVE IInv'
    OBVIOUS
  <1>1. PICK slot \in Slots :
          /\ CanAssign(slot)
          /\ orders' = [orders EXCEPT ![slot] = <<>>]
          /\ at' = "first" /\ bus' = slot /\ prior' = orders[slot] /\ restored' = 0
    BY DEF AssignRoute
  <1>2. /\ AtBoundary /\ before' = world
        /\ UNCHANGED <<selection, connector, stops, depot, here, running, outcome>>
    BY DEF AssignRoute
  <1>3. TypeOK /\ \A other \in Slots : Whole(orders[other], running[other])
    BY <1>2 DEF IInv, RoutesAreWhole
  <1>4. orders \in [Slots -> Seq(Towns)] /\ orders[slot] \in Seq(Towns)
    BY <1>3 DEF TypeOK
  <1>5. orders' \in [Slots -> Seq(Towns)]
    BY <1>1, <1>4
  <1>6. TypeOK'
    BY <1>1, <1>2, <1>3, <1>4, <1>5 DEF TypeOK
  <1>7. selection' # Unselected /\ (Towns \subseteq stops)'
    BY <1>1, <1>2, <1>3, Endpoints DEF CanAssign, TypeOK
  <1>8. Whole(prior, running[bus])'
    BY <1>1, <1>2, <1>3 DEF Whole
  <1>9. ASSUME NEW other \in Slots \ {bus'} PROVE Whole(orders[other], running[other])'
    <2>1. orders'[other] = orders[other]
      BY <1>1, <1>4
    <2> QED
      BY <1>2, <1>3, <2>1 DEF Whole
  <1>10. [orders' EXCEPT ![bus'] = prior'] = orders
    BY <1>1, <1>4
  <1>11. before' = <<selection, connector, stops, depot, <<here, running, orders>>>>
    BY <1>2 DEF world, buses
  <1>12. Progress'
    BY <1>1, <1>4 DEF Progress
  <1>13. Reversible'
    BY <1>2, <1>7, <1>8, <1>9, <1>10, <1>11, <1>12 DEF Reversible
  <1> QED
    BY <1>1, <1>6, <1>13 DEF IInv, RoutesAreWhole, RejectedChangesNothing, AtBoundary

LEMMA NextCommand ==
  ASSUME IInv, at # "idle", NEW its \in Seq(Towns), Command(bus, its), UNCHANGED <<bus, prior, outcome>>,
         at' \in {"second", "clear", "restore"}, restored' \in Nat, orders'[bus] = its => Progress'
  PROVE  IInv'
  <1>1. TypeOK /\ Reversible
    BY DEF IInv
  <1>2. /\ orders' = [orders EXCEPT ![bus] = its]
        /\ UNCHANGED <<selection, connector, stops, depot, here, running, before>>
    BY DEF Command
  <1>3. orders \in [Slots -> Seq(Towns)] /\ bus \in Slots
    BY <1>1 DEF TypeOK
  <1>4. orders' \in [Slots -> Seq(Towns)] /\ orders'[bus] = its
    BY <1>2, <1>3
  <1>5. TypeOK'
    BY <1>1, <1>2, <1>4 DEF TypeOK
  <1>6. ASSUME NEW other \in Slots \ {bus'} PROVE Whole(orders[other], running[other])'
    <2>1. orders'[other] = orders[other] /\ Whole(orders[other], running[other])
      BY <1>1, <1>2, <1>3 DEF Reversible
    <2> QED
      BY <1>2, <2>1 DEF Whole
  <1>7. [orders' EXCEPT ![bus'] = prior'] = [orders EXCEPT ![bus] = prior]
    BY <1>2, <1>3
  <1>8. Whole(prior, running[bus])'
    BY <1>1, <1>2 DEF Whole, Reversible
  <1>9. Reversible'
    BY <1>1, <1>2, <1>4, <1>6, <1>7, <1>8 DEF Reversible
  <1> QED
    BY <1>5, <1>9 DEF IInv, RoutesAreWhole, RejectedChangesNothing, AtBoundary

LEMMA TransactionHolds == IInv /\ Transaction => IInv'
  <1> SUFFICES ASSUME IInv, Transaction PROVE IInv'
    OBVIOUS
  <1>1. TypeOK /\ at # "idle" /\ Reversible
    BY DEF IInv, Transaction, InsertFirst, InjectedFailure, InsertSecond, RollbackClears,
           RollbackRestores, RollbackEnds, RollbackFails
  <1>2. /\ orders \in [Slots -> Seq(Towns)] /\ bus \in Slots /\ orders[bus] \in Seq(Towns)
        /\ restored \in Nat /\ prior \in Seq(Towns)
    BY <1>1 DEF TypeOK
  <1>3. /\ selection.origin \in Towns /\ selection.destination \in Towns
        /\ selection \in Selections /\ selection # Unselected
    BY <1>1, Endpoints DEF TypeOK, Reversible
  <1>4. CASE InsertFirst
    <2>1. at = "first" /\ orders[bus] = <<>> /\ restored = 0
      BY <1>1, <1>4 DEF InsertFirst, Reversible, Progress
    <2>2. CASE Command(bus, InsertAt(orders[bus], 1, selection.origin)) /\ Continue("second")
      <3>1. Len(<<>>) + 1 = 1 /\ <<>> \in Seq(Towns) /\ Append(<<>>, selection.origin) = <<selection.origin>>
        OBVIOUS
      <3>2. InsertAt(orders[bus], 1, selection.origin) = <<selection.origin>>
        BY <1>3, <2>1, <3>1, InsertAtEnd
      <3>3. <<selection.origin>> \in Seq(Towns)
        BY <1>3
      <3>4. selection' = selection /\ bus' = bus
        BY <2>2 DEF Command, Continue
      <3>5. orders'[bus] = <<selection.origin>> => Progress'
        BY <2>1, <2>2, <3>4 DEF Continue, Progress
      <3> QED
        BY <1>1, <1>2, <2>2, <3>2, <3>3, <3>5, NextCommand DEF Continue
    <2>3. CASE Command(bus, orders[bus]) /\ Continue("clear")
      <3>1. Progress'
        BY <2>1, <2>3 DEF Continue, Progress
      <3> QED
        BY <1>1, <1>2, <2>3, <3>1, NextCommand DEF Continue
    <2> QED
      BY <1>4, <2>2, <2>3 DEF InsertFirst
  <1>5. CASE InjectedFailure
    <2>1. Command(bus, orders[bus]) /\ Continue("clear")
      BY <1>5 DEF InjectedFailure
    <2>2. Progress'
      BY <1>1, <1>5, <2>1 DEF Continue, Progress, Reversible, InjectedFailure
    <2> QED
      BY <1>1, <1>2, <2>1, <2>2, NextCommand DEF Continue
  <1>6. CASE InsertSecond
    <2>1. at = "second" /\ orders[bus] = <<selection.origin>> /\ restored = 0
      BY <1>1, <1>6 DEF InsertSecond, Reversible, Progress
    <2>2. CASE Command(bus, orders[bus]) /\ Continue("clear")
      <3>1. Progress'
        BY <2>1, <2>2 DEF Continue, Progress
      <3> QED
        BY <1>1, <1>2, <2>2, <3>1, NextCommand DEF Continue
    <2>3. CASE /\ Command(bus, InsertAt(orders[bus], 2, selection.destination))
               /\ Over("SUCCESS")
      <3> DEFINE its == Append(<<selection.origin>>, selection.destination)
      <3>1. <<selection.origin>> \in Seq(Towns) /\ Len(<<selection.origin>>) + 1 = 2 /\ its \in Seq(Towns)
        BY <1>3
      <3>2. InsertAt(orders[bus], 2, selection.destination) = its
        BY <1>3, <2>1, <3>1, InsertAtEnd
      <3> HIDE DEF its
      <3>3. /\ orders' = [orders EXCEPT ![bus] = its] /\ at' = "idle" /\ outcome' = "SUCCESS"
            /\ UNCHANGED <<selection, connector, stops, depot, here, running, bus, prior, restored>>
        BY <2>3, <3>2 DEF Command, Over
      <3>4. orders' \in [Slots -> Seq(Towns)]
        BY <1>2, <3>1, <3>3
      <3>5. TypeOK'
        BY <1>1, <3>3, <3>4 DEF TypeOK
      <3>6. ASSUME NEW slot \in Slots PROVE Whole(orders[slot], running[slot])'
        <4>1. CASE slot = bus
          <5>1. orders'[slot] = its
            BY <1>2, <3>3, <4>1
          <5>2. Whole(its, running[bus])
            BY <1>1, <1>3, RouteIsWhole DEF its, Reversible
          <5> QED
            BY <3>3, <4>1, <5>1, <5>2 DEF Whole
        <4>2. CASE slot # bus
          <5>1. orders'[slot] = orders[slot] /\ Whole(orders[slot], running[slot])
            BY <1>1, <1>2, <3>3, <4>2 DEF Reversible
          <5> QED
            BY <3>3, <5>1 DEF Whole
        <4> QED
          BY <4>1, <4>2
      <3> QED
        BY <3>3, <3>5, <3>6, BetweenTransactions
    <2> QED
      BY <1>6, <2>2, <2>3 DEF InsertSecond
  <1>7. CASE RollbackClears
    <2>1. Command(bus, <<>>) /\ Continue("restore") /\ <<>> \in Seq(Towns) /\ at = "clear"
      BY <1>7 DEF RollbackClears
    <2>2. restored = 0
      BY <1>1, <2>1 DEF Reversible, Progress
    <2>3. orders'[bus] = <<>> => Progress'
      <3>1. /\ at' = "restore" /\ restored' = 0 /\ bus' = bus /\ prior' = prior
            /\ Len(prior) \in Nat /\ Len(<<>>) = 0
        BY <1>2, <2>1, <2>2 DEF Continue
      <3> QED
        BY <3>1 DEF Progress
    <2> QED
      BY <1>1, <1>2, <2>1, <2>3, NextCommand DEF Continue
  <1>8. CASE RollbackRestores
    <2>1. /\ at = "restore" /\ restored < Len(prior)
          /\ Command(bus, InsertAt(orders[bus], restored + 1, prior[restored + 1]))
          /\ restored' = restored + 1
          /\ UNCHANGED <<at, bus, prior, outcome>>
      BY <1>8 DEF RollbackRestores
    <2>2. Len(orders[bus]) = restored /\ \A i \in 1 .. restored : orders[bus][i] = prior[i]
      BY <1>1, <2>1 DEF Reversible, Progress
    <2> DEFINE its == Append(orders[bus], prior[restored + 1])
    <2>3. prior[restored + 1] \in Towns
      BY <1>2, <2>1
    <2>4. InsertAt(orders[bus], restored + 1, prior[restored + 1]) = its
      BY <1>2, <2>2, <2>3, InsertAtEnd
    <2>5. its \in Seq(Towns) /\ Len(its) = restored + 1
      BY <1>2, <2>2, <2>3
    <2>6. ASSUME NEW i \in 1 .. restored + 1 PROVE its[i] = prior[i]
      BY <1>2, <2>2, <2>3
    <2> HIDE DEF its
    <2>7. restored' <= Len(prior')
      BY <1>2, <2>1
    <2>8. orders'[bus] = its => Progress'
      BY <1>2, <2>1, <2>5, <2>6, <2>7 DEF Progress
    <2> QED
      BY <1>1, <1>2, <2>1, <2>4, <2>5, <2>8, NextCommand
  <1>9. CASE RollbackEnds
    <2>1. /\ at = "restore" /\ restored = Len(prior) /\ at' = "idle" /\ outcome' = "NATIVE_REJECTED"
          /\ UNCHANGED <<world, before, bus, prior, restored>>
      BY <1>9 DEF RollbackEnds, Over
    <2>2. orders[bus] = prior
      BY <1>1, <1>2, <2>1 DEF Reversible, Progress
    <2>3. TypeOK'
      BY <1>1, <2>1 DEF TypeOK, world, buses
    <2>4. ASSUME NEW slot \in Slots PROVE Whole(orders[slot], running[slot])'
      BY <1>1, <2>1, <2>2 DEF Reversible, Whole, world, buses
    <2>5. [orders EXCEPT ![bus] = prior] = orders
      BY <1>2, <2>2
    <2>6. before = world
      BY <1>1, <2>5 DEF Reversible, world, buses
    <2> QED
      BY <2>1, <2>3, <2>4, <2>6, BetweenTransactions
  <1>10. CASE RollbackFails
    <2>1. /\ at' = "idle" /\ outcome' = "INTEGRATION_FAILURE"
          /\ UNCHANGED <<world, before, bus, prior, restored>>
      BY <1>10 DEF RollbackFails, Over
    <2>2. TypeOK'
      BY <1>1, <2>1 DEF TypeOK, world, buses
    <2> QED
      BY <2>1, <2>2 DEF IInv, RoutesAreWhole, RejectedChangesNothing, AtBoundary
  <1> QED
    BY <1>4, <1>5, <1>6, <1>7, <1>8, <1>9, <1>10 DEF Transaction

LEMMA StepHolds == IInv /\ [Next]_vars => IInv'
  <1> SUFFICES ASSUME IInv, [Next]_vars PROVE IInv'
    OBVIOUS
  <1>1. CASE UNCHANGED vars
    <2>1. TypeOK'
      BY <1>1 DEF IInv, TypeOK, vars, world, buses, transaction
    <2>2. RoutesAreWhole' /\ RejectedChangesNothing'
      BY <1>1 DEF IInv, RoutesAreWhole, RejectedChangesNothing, AtBoundary, Whole, vars, world, buses, transaction
    <2>3. Reversible <=> Reversible'
      BY <1>1 DEF Reversible, Progress, Whole, vars, world, buses, transaction
    <2> QED
      BY <1>1, <2>1, <2>2, <2>3 DEF IInv, vars, transaction
  <1>2. CASE Next
    BY <1>2, SingleCommands, AssignHolds, TransactionHolds DEF Next
  <1> QED
    BY <1>1, <1>2

(* The transaction can always go back, and boundaries are whole.            *)
THEOREM Inductive == Spec => []IInv
  BY InitHolds, StepHolds, PTL DEF Spec

(* At every boundary each bus has both orders of a route or, stopped, none. *)
THEOREM WholeRoutes == Spec => []RoutesAreWhole
  <1>1. IInv => RoutesAreWhole
    BY DEF IInv
  <1> QED
    BY <1>1, Inductive, PTL

(* A rejected action, rolled back or not, has left the world as it was.     *)
THEOREM RejectionIsNeutral == Spec => []RejectedChangesNothing
  <1>1. IInv => RejectedChangesNothing
    BY DEF IInv
  <1> QED
    BY <1>1, Inductive, PTL

-----------------------------------------------------------------------------
(* The bundles                                                              *)

Constants ==
  /\ {MaxTransitions, MaxBlobs, Spare} \subseteq Nat
  /\ Episodes \subseteq Nat /\ Ordinals \subseteq Nat

BundleTypes ==
  /\ phase \in [Builders -> {"none", "open", "writing"}]
  /\ target \in [Builders -> Directories]
  /\ records \in [Builders -> Seq(Records)]
  /\ blobs \in [Builders -> SUBSET Observations]
  /\ refused \in [Builders -> BOOLEAN]
  /\ there \subseteq Directories
  /\ kept \in [Directories -> Seq(Records)]
  /\ stored \in [Directories -> SUBSET Observations]
  /\ whole \in [Directories -> BOOLEAN]

(* Records and blobs that may be published; clean if none was refused.      *)
Sound(its, files, clean) ==
  /\ Len(its) <= MaxTransitions
  /\ Chained(its)
  /\ files = Referenced(its)
  /\ IsFiniteSet(files)
  /\ clean => Cardinality(files) <= MaxBlobs
  /\ OneEpisode(its) => Cardinality(files) <= Len(its) + 1

(* The inductive invariant: a builder is at any time fit to be published,   *)
(* which is why a caller that ignores an exception does no harm but one.    *)
BundlesSound ==
  /\ BundleTypes
  /\ \A b \in Builders : Sound(records[b], blobs[b], ~refused[b])
  /\ \A d \in there : Sound(kept[d], stored[d], whole[d])

-----------------------------------------------------------------------------
LEMMA EmptySound == ASSUME Constants PROVE \A clean \in BOOLEAN : Sound(<<>>, {}, clean)
  <1>1. IsFiniteSet({}) /\ Cardinality({}) = 0
    BY FS_EmptySet
  <1>2. Referenced(<<>>) = {}
    BY DEF Referenced
  <1> QED
    BY <1>1, <1>2 DEF Constants, Sound, Chained, OneEpisode

LEMMA ReferencedGrows ==
  ASSUME NEW its \in Seq(Records), NEW r \in Records
  PROVE  Referenced(Append(its, r)) = Referenced(its) \cup {r.before, r.after}
  <1> DEFINE more == Append(its, r)
  <1>1. /\ DOMAIN more = DOMAIN its \cup {Len(its) + 1}
        /\ more[Len(its) + 1] = r
        /\ \A i \in DOMAIN its : more[i] = its[i]
    OBVIOUS
  <1> HIDE DEF more
  <1>2. Referenced(more) = Referenced(its) \cup {r.before, r.after}
    BY <1>1 DEF Referenced
  <1> QED
    BY <1>2 DEF more

(* A record of the same episode brings one observation that is new.         *)
LEMMA OneMoreBlob ==
  ASSUME NEW its \in Seq(Records), its # <<>>, NEW r \in Records,
         OneEpisode(Append(its, r)), Follows(its[Len(its)], r)
  PROVE  /\ OneEpisode(its)
         /\ Referenced(its) \cup {r.before, r.after} = Referenced(its) \cup {r.after}
  <1> DEFINE more == Append(its, r)
  <1>1. /\ Len(its) \in DOMAIN its /\ Len(its) + 1 \in DOMAIN more
        /\ more[Len(its) + 1] = r
        /\ \A i \in DOMAIN its : i \in DOMAIN more /\ more[i] = its[i]
    OBVIOUS
  <1>2. \A i, j \in DOMAIN more : more[i].episode = more[j].episode
    BY DEF OneEpisode
  <1> HIDE DEF more
  <1>3. r.episode = its[Len(its)].episode
    BY <1>1, <1>2
  <1>4. r.before = its[Len(its)].after
    BY <1>3 DEF Follows
  <1>5. r.before \in Referenced(its)
    BY <1>1, <1>4 DEF Referenced
  <1>6. OneEpisode(its)
    BY <1>1, <1>2 DEF OneEpisode
  <1> QED
    BY <1>5, <1>6

LEMMA OneMore ==
  ASSUME NEW S, IsFiniteSet(S), NEW x
  PROVE  /\ IsFiniteSet(S \cup {x})
         /\ Cardinality(S) \in Nat /\ Cardinality(S \cup {x}) \in Nat
         /\ Cardinality(S \cup {x}) <= Cardinality(S) + 1
  <1>1. IsFiniteSet(S \cup {x}) /\ Cardinality(S \cup {x}) = IF x \in S THEN Cardinality(S) ELSE Cardinality(S) + 1
    BY FS_AddElement
  <1>2. Cardinality(S) \in Nat /\ Cardinality(S \cup {x}) \in Nat
    BY <1>1, FS_CardinalityType
  <1> QED
    BY <1>1, <1>2

LEMMA AppendSound ==
  ASSUME Constants, NEW its \in Seq(Records), NEW files, NEW clean \in BOOLEAN, NEW late \in BOOLEAN,
         Sound(its, files, clean), NEW r \in Records, Len(its) < MaxTransitions,
         its # <<>> => Follows(its[Len(its)], r),
         late => Cardinality(files \cup {r.before, r.after}) <= MaxBlobs
  PROVE  Sound(Append(its, r), files \cup {r.before, r.after}, late)
  <1> DEFINE more == Append(its, r)
             all == files \cup {r.before, r.after}
  <1>1. Len(more) <= MaxTransitions
    BY DEF Constants
  <1>2. Chained(more)
    <2> SUFFICES ASSUME NEW i \in 1 .. Len(more) - 1
                 PROVE  Follows(more[i], more[i + 1])
      BY DEF Chained
    <2>1. CASE i = Len(its)
      <3>1. its # <<>> /\ more[i] = its[Len(its)] /\ more[i + 1] = r
        BY <2>1
      <3> QED
        BY <3>1
    <2>2. CASE i # Len(its)
      <3>1. i \in 1 .. Len(its) - 1 /\ more[i] = its[i] /\ more[i + 1] = its[i + 1]
        BY <2>2
      <3> QED
        BY <3>1 DEF Sound, Chained
    <2> QED
      BY <2>1, <2>2
  <1>3. all = Referenced(more)
    BY ReferencedGrows DEF Sound
  <1>4. IsFiniteSet(files) /\ IsFiniteSet(files \cup {r.before}) /\ IsFiniteSet(all)
    <2>1. IsFiniteSet(files)
      BY DEF Sound
    <2>2. IsFiniteSet(files \cup {r.before})
      BY <2>1, FS_AddElement
    <2>3. IsFiniteSet((files \cup {r.before}) \cup {r.after})
      BY <2>2, FS_AddElement
    <2>4. all = (files \cup {r.before}) \cup {r.after}
      OBVIOUS
    <2> QED
      BY <2>1, <2>2, <2>3, <2>4
  <1>5. ASSUME OneEpisode(more) PROVE Cardinality(all) <= Len(more) + 1
    <2>0. Len(more) = Len(its) + 1 /\ Len(its) \in Nat
      OBVIOUS
    <2>1. CASE its = <<>>
      <3>1. files = {} /\ Len(its) = 0
        BY <2>1 DEF Sound, Referenced
      <3>2. all = {r.before} \cup {r.after}
        BY <3>1
      <3>3. IsFiniteSet({r.before}) /\ Cardinality({r.before}) = 1
        BY FS_Singleton
      <3>4. /\ Cardinality({r.before} \cup {r.after}) \in Nat
            /\ Cardinality({r.before} \cup {r.after}) <= Cardinality({r.before}) + 1
        BY ONLY <3>3, OneMore
      <3> HIDE DEF more, all
      <3> QED
        BY <2>0, <3>1, <3>2, <3>3, <3>4
    <2>2. CASE its # <<>>
      <3>1. OneEpisode(its) /\ Referenced(its) \cup {r.before, r.after} = Referenced(its) \cup {r.after}
        BY <1>5, <2>2, OneMoreBlob
      <3>2. all = files \cup {r.after} /\ Cardinality(files) <= Len(its) + 1
        BY <3>1 DEF Sound
      <3>3. /\ Cardinality(files) \in Nat /\ Cardinality(files \cup {r.after}) \in Nat
            /\ Cardinality(files \cup {r.after}) <= Cardinality(files) + 1
        BY <1>4, OneMore
      <3> HIDE DEF more, all
      <3> QED
        BY <2>0, <3>2, <3>3
    <2> QED
      BY <2>1, <2>2
  <1> QED
    BY <1>1, <1>2, <1>3, <1>4, <1>5 DEF Sound

-----------------------------------------------------------------------------
LEMMA Initially == Constants /\ BundleInit => BundlesSound
  <1> SUFFICES ASSUME Constants, BundleInit PROVE BundlesSound
    OBVIOUS
  <1>1. BundleTypes
    BY DEF BundleInit, BundleTypes
  <1>2. \A b \in Builders : Sound(records[b], blobs[b], ~refused[b])
    BY EmptySound DEF BundleInit
  <1>3. there = {}
    BY DEF BundleInit
  <1> QED
    BY <1>1, <1>2, <1>3 DEF BundlesSound

(* A step that changes one builder and no directory.                        *)
LEMMA OneBuilder ==
  ASSUME BundlesSound, BundleTypes', UNCHANGED published, NEW b \in Builders,
         \A c \in Builders \ {b} : /\ records'[c] = records[c] /\ blobs'[c] = blobs[c]
                                  /\ refused'[c] = refused[c],
         Sound(records'[b], blobs'[b], ~refused'[b])
  PROVE  BundlesSound'
  <1>1. ASSUME NEW c \in Builders PROVE Sound(records'[c], blobs'[c], ~refused'[c])
    <2>1. CASE c = b
      BY <2>1
    <2>2. CASE c # b
      BY <2>2 DEF BundlesSound
    <2> QED
      BY <2>1, <2>2
  <1>2. ASSUME NEW d \in there' PROVE Sound(kept'[d], stored'[d], whole'[d])
    BY DEF BundlesSound, published
  <1> QED
    BY <1>1, <1>2 DEF BundlesSound

LEMMA Preserved == Constants /\ BundlesSound /\ [BundleNext]_bundles => BundlesSound'
  <1> SUFFICES ASSUME Constants, BundlesSound, [BundleNext]_bundles PROVE BundlesSound'
    OBVIOUS
  <1>1. ASSUME NEW b \in Builders, Open(b) PROVE BundlesSound'
    <2>1. BundleTypes'
      BY <1>1 DEF BundlesSound, BundleTypes, Open, published
    <2>2. records'[b] = <<>> /\ blobs'[b] = {} /\ refused'[b] = FALSE
      BY <1>1 DEF BundlesSound, BundleTypes, Open
    <2>3. Sound(records'[b], blobs'[b], ~refused'[b])
      BY <2>2, EmptySound
    <2> QED
      BY <1>1, <2>1, <2>3, OneBuilder DEF BundlesSound, BundleTypes, Open
  <1>2. ASSUME NEW b \in Builders, NEW d \in Directories, Resume(b, d) PROVE BundlesSound'
    <2>1. BundleTypes'
      BY <1>2 DEF BundlesSound, BundleTypes, Resume, published
    <2>2. records'[b] = kept[d] /\ blobs'[b] = stored[d] /\ refused'[b] = FALSE
      BY <1>2 DEF BundlesSound, BundleTypes, Resume
    <2>3. Sound(kept[d], stored[d], whole[d]) /\ Cardinality(stored[d]) <= MaxBlobs
      BY <1>2 DEF BundlesSound, Resume, Loads
    <2>4. Sound(records'[b], blobs'[b], ~refused'[b])
      BY <2>2, <2>3 DEF Sound
    <2> QED
      BY <1>2, <2>1, <2>4, OneBuilder DEF BundlesSound, BundleTypes, Resume
  <1>3. ASSUME NEW b \in Builders, NEW r \in Records, Add(b, r) PROVE BundlesSound'
    <2> DEFINE all == blobs[b] \cup {r.before, r.after}
    <2>0. records[b] \in Seq(Records) /\ r.before \in Observations /\ r.after \in Observations
      BY DEF BundlesSound, BundleTypes, Records
    <2>1. /\ records' = [records EXCEPT ![b] = Append(records[b], r)]
          /\ blobs' = [blobs EXCEPT ![b] = all]
          /\ refused' = [refused EXCEPT ![b] = refused[b] \/ Cardinality(all) > MaxBlobs]
      BY <1>3 DEF Add, BundlesSound, BundleTypes
    <2>2. Append(records[b], r) \in Seq(Records)
      BY <2>0
    <2>3. BundleTypes'
      BY <1>3, <2>0, <2>1, <2>2 DEF BundlesSound, BundleTypes, Add, published
    <2>4. /\ records'[b] = Append(records[b], r) /\ blobs'[b] = all
          /\ refused'[b] = (refused[b] \/ Cardinality(all) > MaxBlobs)
      BY <2>1 DEF BundlesSound, BundleTypes
    <2>5. Sound(records[b], blobs[b], ~refused[b])
      BY DEF BundlesSound
    <2>6. IsFiniteSet(all)
      <3>1. IsFiniteSet(blobs[b])
        BY <2>5 DEF Sound
      <3>2. IsFiniteSet(blobs[b] \cup {r.before})
        BY <3>1, OneMore
      <3>3. IsFiniteSet((blobs[b] \cup {r.before}) \cup {r.after})
        BY <3>2, OneMore
      <3>4. (blobs[b] \cup {r.before}) \cup {r.after} = all
        OBVIOUS
      <3> QED
        BY <3>3, <3>4
    <2>7. Cardinality(all) \in Nat /\ MaxBlobs \in Nat
      BY <2>6, FS_CardinalityType DEF Constants
    <2>8. ~refused'[b] => Cardinality(all) <= MaxBlobs
      <3>1. ~refused'[b] => ~(Cardinality(all) > MaxBlobs)
        BY ONLY <2>4, Zenon
      <3> HIDE DEF all
      <3> QED
        BY <2>7, <3>1
    <2>9. Len(records[b]) < MaxTransitions /\ (records[b] # <<>> => Follows(records[b][Len(records[b])], r))
      BY <1>3 DEF Add
    <2>10. (~refused[b]) \in BOOLEAN /\ (~refused'[b]) \in BOOLEAN
      OBVIOUS
    <2>11. Sound(Append(records[b], r), all, ~refused'[b])
      BY <2>0, <2>5, <2>8, <2>9, <2>10, AppendSound
    <2>12. UNCHANGED published
      BY <1>3 DEF Add
    <2>13. \A c \in Builders \ {b} : /\ records'[c] = records[c] /\ blobs'[c] = blobs[c]
                                    /\ refused'[c] = refused[c]
      BY <2>1 DEF BundlesSound, BundleTypes
    <2>14. Sound(records'[b], blobs'[b], ~refused'[b])
      BY <2>4, <2>11
    <2> QED
      BY <2>3, <2>12, <2>13, <2>14, OneBuilder
  <1>4. ASSUME NEW b \in Builders, Rename(b) PROVE BundlesSound'
    <2> DEFINE d == target[b]
    <2>0. d \in Directories
      BY DEF BundlesSound, BundleTypes
    <2>1. BundleTypes'
      BY <1>4, <2>0 DEF BundlesSound, BundleTypes, Rename
    <2>2. kept'[d] = records[b] /\ stored'[d] = blobs[b] /\ whole'[d] = ~refused[b]
      BY <1>4, <2>0 DEF BundlesSound, BundleTypes, Rename
    <2>3. \A e \in there : e \in Directories /\ e # d /\ kept'[e] = kept[e] /\ stored'[e] = stored[e] /\ whole'[e] = whole[e]
      BY <1>4 DEF BundlesSound, BundleTypes, Rename
    <2>4. Sound(kept'[d], stored'[d], whole'[d])
      BY <2>2 DEF BundlesSound
    <2>5. ASSUME NEW e \in there' PROVE Sound(kept'[e], stored'[e], whole'[e])
      <3>1. e \in there \/ e = d
        BY <1>4 DEF Rename
      <3> QED
        BY <2>3, <2>4, <3>1 DEF BundlesSound
    <2>6. UNCHANGED <<records, blobs, refused>>
      BY <1>4 DEF Rename
    <2> QED
      BY <2>1, <2>5, <2>6 DEF BundlesSound
  <1>5. ASSUME NEW b \in Builders, NEW d \in Directories, WriteBegins(b, d) \/ WriteFails(b) \/ Killed(b)
        PROVE BundlesSound'
    <2>1. BundleTypes'
      BY <1>5 DEF BundlesSound, BundleTypes, WriteBegins, WriteFails, Killed, published
    <2>2. UNCHANGED <<records, blobs, refused, published>>
      BY <1>5 DEF WriteBegins, WriteFails, Killed
    <2> QED
      BY <2>1, <2>2 DEF BundlesSound, published
  <1>6. ASSUME NEW b \in Builders, Directories # {}, Step(b) PROVE BundlesSound'
    BY <1>1, <1>2, <1>3, <1>4, <1>5, <1>6 DEF Step
  <1>7. ASSUME UNCHANGED bundles PROVE BundlesSound'
    BY <1>7 DEF BundlesSound, BundleTypes, bundles, building, published
  <1>8. Builders # {} => Directories # {}
    BY DEF BundlesSound, BundleTypes
  <1> QED
    BY <1>6, <1>7, <1>8 DEF BundleNext

(* Every builder and every directory is sound in every reachable state.     *)
THEOREM BundlesInductive == ASSUME Constants PROVE BundleSpec => []BundlesSound
  <1>1. BundleInit => BundlesSound
    BY Initially
  <1>2. BundlesSound /\ [BundleNext]_bundles => BundlesSound'
    BY Preserved
  <1> QED
    BY <1>1, <1>2, PTL DEF BundleSpec

(* A published bundle has its records in order and in one piece, each with  *)
(* its observations and no others, and is bounded unless add was refused.   *)
THEOREM BundlesWhole == ASSUME Constants PROVE BundleSpec => []PublishedWhole
  <1>1. BundlesSound => PublishedWhole
    BY DEF BundlesSound, Sound, PublishedWhole
  <1>2. BundleSpec => []BundlesSound
    BY BundlesInductive
  <1> QED
    BY <1>1, <1>2, PTL

(* The bundle of a single episode is bounded by its transitions, also if    *)
(* every exception is ignored: the case of the repository's own controller. *)
THEOREM SingleEpisode == ASSUME Constants PROVE BundleSpec => []EpisodesAreBounded
  <1>1. ASSUME BundlesSound PROVE EpisodesAreBounded
    <2> SUFFICES ASSUME NEW d \in there, OneEpisode(kept[d])
                 PROVE  Cardinality(stored[d]) <= MaxTransitions + 1
      BY DEF EpisodesAreBounded
    <2>1. Sound(kept[d], stored[d], whole[d]) /\ kept[d] \in Seq(Records)
      BY <1>1 DEF BundlesSound, BundleTypes
    <2>2. Len(kept[d]) \in Nat /\ Cardinality(stored[d]) \in Nat /\ MaxTransitions \in Nat
      BY <1>1, <2>1, FS_CardinalityType DEF Sound, Constants
    <2>3. Cardinality(stored[d]) <= Len(kept[d]) + 1 /\ Len(kept[d]) <= MaxTransitions
      BY <2>1 DEF Sound
    <2> QED
      BY <2>2, <2>3
  <1>2. BundleSpec => []BundlesSound
    BY BundlesInductive
  <1> QED
    BY <1>1, <1>2, PTL

(* No step of any builder changes a directory that exists.                  *)
THEOREM Immutable == ASSUME Constants PROVE BundleSpec => NeverOverwritten
  <1>1. ASSUME BundlesSound, [BundleNext]_bundles
        PROVE  [\A d \in there : d \in there' /\ kept'[d] = kept[d] /\ stored'[d] = stored[d]]_bundles
    <2>1. ASSUME NEW b \in Builders, Rename(b), NEW d \in there
          PROVE  d \in there' /\ kept'[d] = kept[d] /\ stored'[d] = stored[d]
      BY <1>1, <2>1 DEF Rename, BundlesSound, BundleTypes
    <2>2. ASSUME NEW b \in Builders, Step(b), ~Rename(b) PROVE UNCHANGED published
      BY <2>2 DEF Step, Open, Resume, Add, WriteBegins, WriteFails, Killed
    <2> QED
      BY <1>1, <2>1, <2>2 DEF BundleNext, published
  <1>2. BundleSpec => []BundlesSound
    BY BundlesInductive
  <1> QED
    BY <1>1, <1>2, PTL DEF BundleSpec, NeverOverwritten
=============================================================================
