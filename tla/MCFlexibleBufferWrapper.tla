---------------------- MODULE MCFlexibleBufferWrapper -----------------------
(***************************************************************************)
(* A period of three frames and calls of up to five, so that the calls     *)
(* complete no period, one, or two of them, at all positions of the ring;  *)
(* enough frames to go around the ring of six more than twice.             *)
(***************************************************************************)
EXTENDS FlexibleBufferWrapper

MCFrameCounts == 0 .. 5
=============================================================================
