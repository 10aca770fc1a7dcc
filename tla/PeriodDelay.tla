---------------------------- MODULE PeriodDelay -----------------------------
(***************************************************************************)
(* What a FlexibleBufferWrapper promises its host: whatever numbers of     *)
(* frames the host asks for, it gets the stream the flow produces, without *)
(* a gap and without a repetition, after exactly one period of silence.    *)
(***************************************************************************)
EXTENDS Integers, Sequences

CONSTANTS
  Period,       \* the latency
  Channel,      \* the channels of a frame
  FrameCounts   \* the numbers of frames the host may ask for

VARIABLE played   \* the frames the host has got

\* A sample of the stream is the channel and the number of its frame, counted
\* from 1; number 0 is silence.
Frame(n) == [c \in Channel |-> <<c, n>>]

Delayed(n) == Frame(IF n <= Period THEN 0 ELSE n - Period)

Init == played = <<>>

Play(n) == played' = played \o [i \in 1 .. n |-> Delayed(Len(played) + i)]

Next == \E n \in FrameCounts : Play(n)

Spec == Init /\ [][Next]_played
=============================================================================
