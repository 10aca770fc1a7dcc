---------------------------- MODULE MessageLink -----------------------------
(***************************************************************************)
(* What a UdpSender promises to the components that feed it: messages go   *)
(* out whole, each once and in the order in which they were submitted; the *)
(* ones still waiting when the link is closed are dropped.                 *)
(***************************************************************************)
EXTENDS Sequences

CONSTANT Message

VARIABLES
  waiting,  \* messages submitted that have not been transmitted
  sent,     \* messages transmitted
  open

linkVars == <<waiting, sent, open>>

Init == waiting = <<>> /\ sent = <<>> /\ open = TRUE

Submit ==
  /\ open
  /\ \E m \in Message : waiting' = Append(waiting, m)
  /\ UNCHANGED <<sent, open>>

Transmit ==
  /\ open /\ waiting # <<>>
  /\ sent' = Append(sent, Head(waiting))
  /\ waiting' = Tail(waiting)
  /\ UNCHANGED open

Close ==
  /\ open' = FALSE
  /\ waiting' = <<>>
  /\ UNCHANGED sent

Next == Submit \/ Transmit \/ Close

Spec == Init /\ [][Next]_linkVars
=============================================================================
