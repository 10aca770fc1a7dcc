------------------------- MODULE ComponentSchedule --------------------------
(***************************************************************************)
(* What a SchedulingGraph promises to AudioSignalFlow::initialiseSchedule: *)
(* given the dependencies of the components it either delivers an order in *)
(* which they can be executed, or refuses because there is none.           *)
(***************************************************************************)
EXTENDS ProcessingOrders

CONSTANT Element       \* the components to be scheduled

VARIABLES
  dependencies,        \* <<sender, receiver>>
  outcome,
  order                \* the schedule delivered

scheduleVars == <<dependencies, outcome, order>>

Init ==
  /\ dependencies \in SUBSET (Element \X Element)
  /\ outcome = "open"
  /\ order = <<>>

Deliver ==
  /\ outcome = "open"
  /\ outcome' = "delivered"
  /\ order' \in Orders(Element, dependencies)
  /\ UNCHANGED dependencies

Refuse ==
  /\ outcome = "open"
  /\ Orders(Element, dependencies) = {}
  /\ outcome' = "refused"
  /\ UNCHANGED <<dependencies, order>>

Next == Deliver \/ Refuse

Spec == Init /\ [][Next]_scheduleVars
=============================================================================
