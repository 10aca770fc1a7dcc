----------------------- MODULE MessageQueueProtocol ------------------------
(***************************************************************************)
(* The queued 1:1 parameter connection of libpml                           *)
(* (message_queue_protocol.cpp): a deque whose front end the sender pushes *)
(* to and whose back end the receiver reads and pops.  The first element   *)
(* of the sequence is the front end of the deque.                          *)
(***************************************************************************)
EXTENDS Sequences, SequencesExt

EmptyQueue == <<>>

Enqueue(queue, message) == <<message>> \o queue

\* Both are called on non-empty queues only; on an empty one they throw.
NextElement(queue)    == Last(queue)
PopNextElement(queue) == Front(queue)

\* The messages in the order in which the receiver will see them.
Pending(queue) == Reverse(queue)
=============================================================================
