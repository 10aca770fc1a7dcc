------------------------- MODULE MCSceneReception --------------------------
(***************************************************************************)
(* Two objects; a message about both of them, one about the first only, a  *)
(* message that breaks off after the second object, and the empty one.     *)
(***************************************************************************)
EXTENDS SceneReception, TLC

CONSTANTS o1, o2, s1, s2

MCUnreadable == [set |-> <<>>, ok |-> FALSE]

MCWellFormed ==
  { [set |-> (o1 :> s1) @@ (o2 :> s1), ok |-> TRUE],
    [set |-> (o1 :> s2), ok |-> TRUE] }

MCMessage == MCWellFormed \cup { [set |-> (o2 :> s2), ok |-> FALSE], MCUnreadable }

\* Well-formed messages only, apart from the value a failed operation leaves.
MCWellFormedMessage == MCWellFormed \cup {MCUnreadable}
=============================================================================
