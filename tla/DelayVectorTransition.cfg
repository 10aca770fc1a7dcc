\* Transitions of three blocks; 27 is divided by 3 as often as a transition can be
\* interrupted.
SPECIFICATION Spec
CONSTANTS
  Values = {0, 27}
  InterpolationBlocks = 3
  MaxChanges = 3
PROPERTY
  TransitionsContinuous
