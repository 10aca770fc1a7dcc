-------------------------- MODULE SceneReception ---------------------------
(***************************************************************************)
(* How scene metadata enters a renderer: datagrams from the network reach  *)
(* a UdpReceiver, leave it over a message queue to a SceneDecoder, which   *)
(* updates an object vector and publishes it over a double-buffered        *)
(* connection to the component that renders it (PanningCalculator).  The   *)
(* three components run in this order in every cycle of the audio thread;  *)
(* in asynchronous mode the receiver owns a service thread that runs the   *)
(* completion handler of the socket at any time.                           *)
(*                                                                         *)
(* An object vector maps object ids to object states.  A message sets some *)
(* of the objects; one that is not "ok" makes the parser throw, after it   *)
(* has stored the objects that precede the offending text.                 *)
(***************************************************************************)
EXTENDS Naturals, MessageQueueProtocol, DoubleBufferingProtocol

CONSTANTS
  ObjectId,      \* the ids of audio objects
  State,         \* what can be said of an object
  Absent,        \* the vector has no object with this id
  Message,       \* the datagrams that may arrive
  Unreadable,    \* what a failed receive operation leaves: an empty message
  Modes,         \* the modes of operation to consider
  MaxDatagrams   \* bound: the number of completed receive operations

Renderer == "PanningCalculator"

ObjectVector == [ObjectId -> State \cup {Absent}]

ASSUME MessageAssumption ==
  /\ Unreadable \in Message
  /\ \A m \in Message :
       DOMAIN m.set \subseteq ObjectId /\ m.set \in [DOMAIN m.set -> State] /\ m.ok \in BOOLEAN
  /\ Modes \subseteq {"Synchronous", "Asynchronous"}
  /\ MaxDatagrams \in Nat

VARIABLES
  mode,           \* mMode of the receiver
  socket,         \* datagrams the operating system holds for the socket
  receive,        \* the asynchronous receive operation
  receiveBuffer,  \* mReceiveBuffer
  internal,       \* mInternalMessageBuffer
  locked,         \* whether process() of the receiver holds mMutex
  queue,          \* the message queue from the receiver to the decoder
  audio,          \* audio thread: the component it is in
  objects,        \* decoder: the object its reference "objects" denotes
  scene,          \* the connection from the decoder to the renderer
  view,           \* renderer: the object vector it works with
  arrived,        \* history: all datagrams, in the order of their arrival
  decoded,        \* history: all messages the decoder has popped
  cycleStart      \* history: number of messages decoded before this cycle

receiverVars == <<socket, receive, receiveBuffer, internal>>
historyVars  == <<arrived, decoded, cycleStart>>
vars == <<mode, receiverVars, locked, queue, audio, objects, scene, view, historyVars>>

TypeOK ==
  /\ mode \in Modes
  /\ socket \in Seq(Message)
  /\ receive \in {"armed", "completed", "stored"}
  /\ receiveBuffer \in Message
  /\ internal \in Seq(Message)
  /\ locked \in BOOLEAN
  /\ queue \in Seq(Message)
  /\ audio \in {"idle", "poll", "drain", "decode", "render"}
  /\ objects \in BufferId
  /\ scene \in Protocol(ObjectVector, {Renderer})
  /\ view \in ObjectVector
  /\ arrived \in Seq(Message) /\ Len(arrived) <= MaxDatagrams
  /\ decoded \in Seq(Message)
  /\ cycleStart \in 0 .. Len(decoded)

EmptyVector == [o \in ObjectId |-> Absent]

Init ==
  /\ mode \in Modes
  /\ socket = <<>>
  /\ receive = "armed"
  /\ receiveBuffer = Unreadable
  /\ internal = <<>>
  /\ locked = FALSE
  /\ queue = EmptyQueue
  /\ audio = "idle"
  /\ objects = 0
  /\ scene = NewProtocol(EmptyVector, {Renderer})
  /\ view = EmptyVector
  /\ arrived = <<>>
  /\ decoded = <<>>
  /\ cycleStart = 0

-----------------------------------------------------------------------------
(* The network and the socket.  Datagrams may be lost, duplicated and      *)
(* reordered on their way: any sequence of messages may arrive.            *)

Arrive(m) ==
  /\ Len(arrived) < MaxDatagrams
  /\ arrived' = Append(arrived, m)
  /\ socket' = Append(socket, m)
  /\ UNCHANGED <<mode, receive, receiveBuffer, internal, locked, queue, audio, objects,
                 scene, view, decoded, cycleStart>>

\* mutant: the next receive operation is started before the buffer is copied
CompleteReceiveEarly ==
  /\ receive \in {"armed", "completed"}
  /\ socket # <<>>
  /\ receiveBuffer' = Head(socket)
  /\ socket' = Tail(socket)
  /\ receive' = "completed"
  /\ UNCHANGED <<mode, internal, locked, queue, audio, objects, scene, view, historyVars>>

\* The pending operation takes a datagram into the receive buffer.
CompleteReceive ==
  /\ receive = "armed"
  /\ socket # <<>>
  /\ receiveBuffer' = Head(socket)
  /\ socket' = Tail(socket)
  /\ receive' = "completed"
  /\ UNCHANGED <<mode, internal, locked, queue, audio, objects, scene, view, historyVars>>

\* The pending operation fails: nothing is transferred, the datagrams the socket
\* holds stay there, and the history counts an unreadable one before them.
FailReceive ==
  LET taken == Len(arrived) - Len(socket)
  IN /\ receive = "armed"
     /\ Len(arrived) < MaxDatagrams
     /\ receiveBuffer' = Unreadable
     /\ arrived' = InsertAt(arrived, taken + 1, Unreadable)
     /\ receive' = "completed"
     /\ UNCHANGED <<mode, socket, internal, locked, queue, audio, objects, scene, view,
                    decoded, cycleStart>>

\* Where handlers run: in the service thread, or in poll() on the audio thread.
HandlersRun == mode = "Asynchronous" \/ audio = "poll"

\* handleReceiveData(): the message is stored whatever the error code says ...
StoreMessage ==
  /\ HandlersRun
  /\ receive = "completed"
  /\ ~ locked
  /\ internal' = Append(internal, receiveBuffer)
  /\ receive' = "stored"
  /\ UNCHANGED <<mode, socket, receiveBuffer, locked, queue, audio, objects, scene, view,
                 historyVars>>

\* mutant: the handler gives up after a failed receive operation
RearmUnlessFailed ==
  /\ HandlersRun
  /\ receive = "stored"
  /\ receiveBuffer # Unreadable
  /\ receive' = "armed"
  /\ UNCHANGED <<mode, socket, receiveBuffer, internal, locked, queue, audio, objects,
                 scene, view, historyVars>>

\* ... and the next receive operation is started, after the mutex is released.
Rearm ==
  /\ HandlersRun
  /\ receive = "stored"
  /\ receive' = "armed"
  /\ UNCHANGED <<mode, socket, receiveBuffer, internal, locked, queue, audio, objects,
                 scene, view, historyVars>>

-----------------------------------------------------------------------------
(* The audio thread: UdpReceiver::process(), SceneDecoder::process() and   *)
(* PanningCalculator::process(), once per cycle.                           *)

BeginCycle ==
  /\ audio = "idle"
  /\ cycleStart' = Len(decoded)
  /\ IF mode = "Synchronous"
     THEN audio' = "poll"  /\ UNCHANGED locked
     ELSE audio' = "drain" /\ locked' = TRUE
  /\ UNCHANGED <<mode, receiverVars, queue, objects, scene, view, arrived, decoded>>

\* poll() returns once no handler is ready to run; then the mutex is taken.
PollReturns ==
  /\ audio = "poll"
  /\ receive = "armed"
  /\ socket = <<>>
  /\ audio' = "drain"
  /\ locked' = TRUE
  /\ UNCHANGED <<mode, receiverVars, queue, objects, scene, view, historyVars>>

Forward ==
  /\ audio = "drain"
  /\ internal # <<>>
  /\ queue' = Enqueue(queue, Head(internal))
  /\ internal' = Tail(internal)
  /\ UNCHANGED <<mode, socket, receive, receiveBuffer, locked, audio, objects, scene, view,
                 historyVars>>

\* The receiver returns, releasing its mutex; the decoder's process() starts
\* and binds its reference to what is the front object at this moment.
EnterDecoder ==
  /\ audio = "drain"
  /\ internal = <<>>
  /\ locked' = FALSE
  /\ objects' = FrontObject(scene)
  /\ audio' = "decode"
  /\ UNCHANGED <<mode, receiverVars, queue, scene, view, historyVars>>

\* mutant: the message replaces the whole vector
UpdateObjectVectorAnew(m, vector) == m.set

\* updateObjectVector(): the objects of the message replace those in the vector.
UpdateObjectVector(m, vector) ==
  [o \in ObjectId |-> IF o \in DOMAIN m.set THEN m.set[o] ELSE vector[o]]

\* One round of the decoder's loop; a message that does not parse is reported
\* and dropped, and what it has changed so far stays.
DecodeMessage ==
  LET m       == NextElement(queue)
      updated == WriteObject(scene, objects, UpdateObjectVector(m, scene.data[objects]))
  IN /\ audio = "decode"
     /\ queue # EmptyQueue
     /\ scene' = IF m.ok THEN SwapBuffers(updated, FALSE) ELSE updated
     /\ queue' = PopNextElement(queue)
     /\ decoded' = Append(decoded, m)
     /\ UNCHANGED <<mode, receiverVars, locked, audio, objects, view, arrived, cycleStart>>

\* mutant: the decoder handles one message per cycle
LeaveDecoderEarly ==
  /\ audio = "decode"
  /\ queue # EmptyQueue => Len(decoded) > cycleStart
  /\ audio' = "render"
  /\ UNCHANGED <<mode, receiverVars, locked, queue, objects, scene, view, historyVars>>

LeaveDecoder ==
  /\ audio = "decode"
  /\ queue = EmptyQueue
  /\ audio' = "render"
  /\ UNCHANGED <<mode, receiverVars, locked, queue, objects, scene, view, historyVars>>

Render ==
  /\ audio = "render"
  /\ IF Changed(scene, Renderer)
     THEN /\ view' = scene.data[InputObject(scene)]
          /\ scene' = ResetChanged(scene, Renderer)
     ELSE UNCHANGED <<view, scene>>
  /\ audio' = "idle"
  /\ UNCHANGED <<mode, receiverVars, locked, queue, objects, historyVars>>

-----------------------------------------------------------------------------
HandlerStep == CompleteReceive \/ StoreMessage \/ Rearm

CycleStep ==
  BeginCycle \/ PollReturns \/ Forward \/ EnterDecoder \/ DecodeMessage \/ LeaveDecoder \/ Render

Next ==
  \/ \E m \in Message : Arrive(m)
  \/ FailReceive
  \/ HandlerStep
  \/ CycleStep

\* The audio interface keeps calling and ready handlers are run.  The handler
\* gets the mutex eventually: process() holds it for a small part of a period.
Fairness == WF_vars(CycleStep) /\ WF_vars(HandlerStep) /\ SF_vars(StoreMessage)

Spec == Init /\ [][Next]_vars /\ Fairness

-----------------------------------------------------------------------------
\* Between two cycles, i.e. after the audio thread has run all components.
CycleDone == audio = "idle"

ThisCycle == SubSeq(decoded, cycleStart + 1, Len(decoded))

\* Every datagram that arrives is decoded exactly once and in order: it is in
\* exactly one of the socket, the receive buffer, the internal buffer, the
\* message queue and the decoder's past, in all interleavings of the threads.
InOrderExactlyOnce ==
  arrived = decoded \o Pending(queue) \o internal
            \o (IF receive = "completed" THEN <<receiveBuffer>> ELSE <<>>) \o socket

\* The decoder leaves nothing in the message queue for a later cycle, broken
\* messages included: messages do not pile up from cycle to cycle.
QueueDrained == CycleDone => queue = EmptyQueue

\* If a well-formed message is the only one in its cycle, the renderer works
\* with what it says from the end of that cycle on.
LoneMessageVisible ==
  CycleDone /\ Len(ThisCycle) = 1 /\ Last(decoded).ok =>
    \A o \in DOMAIN Last(decoded).set : view[o] = Last(decoded).set[o]

\* The decoder modifies an object the renderer may be looking at (its reference
\* outlives the swap), but never without the change flag being set.
NoSilentChange == ~ Changed(scene, Renderer) => view = BackData(scene)

\* Every datagram is decoded, also after failed receive operations.
EveryDatagramDecoded ==
  \A n \in 1 .. MaxDatagrams : Len(arrived) >= n ~> Len(decoded) >= n

\* "Parameters in output (send) ports can be modified, and the change become
\* visible in connected input (receive) ports after a call to swapBuffers()":
\* after a cycle the renderer works with the object vector that results from
\* all well-formed messages decoded so far.
DecodedSceneVisible ==
  CycleDone =>
    view = FoldLeft(LAMBDA vector, m : UpdateObjectVector(m, vector),
                    EmptyVector, SelectSeq(decoded, LAMBDA m : m.ok))
=============================================================================
