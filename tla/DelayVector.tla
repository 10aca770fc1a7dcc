----------------------------- MODULE DelayVector ------------------------------
(***************************************************************************)
(* The transitions of rcl::DelayVector, for one of its channels.  A new    *)
(* gain or delay is reached over a number of blocks, in each of which the  *)
(* delay line interpolates between the values at its start and its end.    *)
(* Gains and delays make their transitions independently of each other.    *)
(* Values are in units small enough for all interpolated ones to be whole. *)
(***************************************************************************)
EXTENDS Integers, FiniteSetsExt

CONSTANTS
  Values,               \* the gains and delays that are set
  InterpolationBlocks,  \* mInterpolationBlocks
  MaxChanges            \* bound: the number of new gains and of new delays

VARIABLES
  gain, delay,            \* the transition of each: mCurrent..., mNext... and its counter
  gainBlock, delayBlock,  \* the values at the start and the end of the last block
  changes                 \* history: the number of new gains and of new delays

vars == <<gain, delay, gainBlock, delayBlock, changes>>

\* A ratio of n blocks between two values.
Between(n, v, w) == v + (n * (w - v)) \div InterpolationBlocks

Init ==
  /\ \E g, d \in Values :
       /\ gain = [current |-> g, next |-> g, counter |-> 0]
       /\ delay = [current |-> d, next |-> d, counter |-> 0]
       /\ gainBlock = [first |-> g, last |-> g] /\ delayBlock = [first |-> d, last |-> d]
  /\ changes = [gain |-> 0, delay |-> 0]

\* setGain() and setDelay(): vectorCombinationInplace() is called with the next values
\* as its first operand and the current ones as its second.
NewTransition(t, value) ==
  [ current |-> IF t.counter < InterpolationBlocks
                THEN Between(t.counter, t.next, t.current) ELSE t.next,
    next    |-> value,
    counter |-> 0 ]

\* The start and the end of the block that is processed next.
Block(t) ==
  [ first |-> Between(t.counter, t.current, t.next),
    last  |-> Between(Min({t.counter + 1, InterpolationBlocks}), t.current, t.next) ]

Advanced(t) == [t EXCEPT !.counter = Min({InterpolationBlocks, t.counter + 1})]

\* What process() starts from: the parameter has changed or not.
Updated(t, count) ==
  {t} \cup (IF count < MaxChanges THEN {NewTransition(t, value) : value \in Values} ELSE {})

Process ==
  \E g \in Updated(gain, changes.gain), d \in Updated(delay, changes.delay) :
    /\ gainBlock' = Block(g) /\ delayBlock' = Block(d)
    /\ gain' = Advanced(g) /\ delay' = Advanced(d)
    /\ changes' = [ gain  |-> changes.gain + (IF g = gain THEN 0 ELSE 1),
                    delay |-> changes.delay + (IF d = delay THEN 0 ELSE 1) ]

Spec == Init /\ [][Process]_vars

-----------------------------------------------------------------------------
(* delay_vector.hpp says that a transition which is interrupted by a new    *)
(* one ends where the new one starts: each block starts with the values at  *)
(* which the one before it ended.                                           *)
TransitionsContinuous ==
  [][gainBlock'.first = gainBlock.last /\ delayBlock'.first = delayBlock.last]_vars
=============================================================================
