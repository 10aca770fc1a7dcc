------------------------- MODULE MCReverbRendering --------------------------
(***************************************************************************)
(* Four objects on three channels.  Between them they are in each of the   *)
(* states in which an object is refused, use two signals and two late      *)
(* reverberations, and take over each other's channels.                    *)
(***************************************************************************)
EXTENDS ReverbRendering

CONSTANTS silence, hall

State(late, input, channels, tooMany) ==
  [late |-> late, input |-> input, channels |-> channels, tooManyReflections |-> tooMany]

MCSources ==
  1 :> {State(hall, 0, 1, FALSE), State(silence, 1, 1, FALSE)} @@
  2 :> {State(hall, 0, 1, FALSE), State(hall, 1, 1, TRUE)} @@
  3 :> {State(hall, 2, 1, FALSE)} @@
  4 :> {State(hall, 1, 1, FALSE), State(hall, 1, 2, FALSE)}
=============================================================================
