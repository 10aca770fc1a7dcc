------------------------- MODULE MCSchedulingGraph --------------------------
(***************************************************************************)
(* Three components and the connections between them that make chains,     *)
(* forks, joins, loops of one, two and three components, components that   *)
(* are connected to nothing and the same dependency by audio and by        *)
(* parameter connections; external inputs and outputs of both kinds.       *)
(***************************************************************************)
EXTENDS SchedulingGraph

CONSTANTS a, b, c

MCAudioPairs ==
  {<<TopLevel, a>>, <<a, b>>, <<b, c>>, <<a, c>>, <<c, a>>, <<c, TopLevel>>}

MCParameterPairs ==
  {<<b, TopLevel>>, <<b, a>>, <<a, b>>, <<b, b>>, <<b, c>>, <<TopLevel, b>>}
=============================================================================
