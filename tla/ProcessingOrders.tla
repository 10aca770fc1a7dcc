-------------------------- MODULE ProcessingOrders --------------------------
(***************************************************************************)
(* The orders in which the components of a flow may be executed in a       *)
(* period: each component once, and none before one that it depends on.    *)
(***************************************************************************)
EXTENDS Integers, SequencesExt

Orders(components, dependencies) ==
  {s \in SetToSeqs(components) : \A d \in dependencies :
     \E i, j \in DOMAIN s : i < j /\ s[i] = d[1] /\ s[j] = d[2]}
=============================================================================
