------------------------ MODULE SceneReceptionProofs ------------------------
(***************************************************************************)
(* The reception of scene data, for any messages, any number of objects    *)
(* and any number of datagrams, in both modes of the receiver.             *)
(***************************************************************************)
EXTENDS SceneReception, CommonProofs

-----------------------------------------------------------------------------
(* The inductive invariant.                                                *)

\* The message that has left the socket and is not stored yet.
InFlight == IF receive = "completed" THEN <<receiveBuffer>> ELSE <<>>

\* The messages in the queue are decoded before the cycle ends.
QueueInCycle == queue # EmptyQueue => audio \in {"drain", "decode"}

\* Messages of this cycle.
CycleBegun == audio \in {"poll", "drain"} => cycleStart = Len(decoded)

\* The decoder's reference denotes its own object until the first swap of the cycle,
\* and after a swap the flag is set.
ReferenceOrFlag ==
  audio = "decode" =>
    /\ objects = FrontObject(scene) \/ Changed(scene, Renderer)
    /\ cycleStart = Len(decoded) => objects = FrontObject(scene)

Lone == Len(decoded) = cycleStart + 1 /\ decoded[Len(decoded)].ok

Says(m, vector) == \A o \in DOMAIN m.set : vector[o] = m.set[o]

\* A message that is alone in its cycle is published until it is rendered.
LonePublished ==
  Lone =>
    /\ audio \in {"decode", "render"} =>
         Changed(scene, Renderer) /\ Says(decoded[Len(decoded)], BackData(scene))
    /\ audio = "idle" => Says(decoded[Len(decoded)], view)

IInv ==
  /\ TypeOK /\ InOrderExactlyOnce /\ NoSilentChange
  /\ QueueInCycle /\ CycleBegun /\ ReferenceOrFlag /\ LonePublished

-----------------------------------------------------------------------------
(* Where the messages are.                                                 *)

Forwarded == decoded \o Pending(queue)
Stored    == Forwarded \o internal
Taken     == Stored \o InFlight

LEMMA Whereabouts ==
  ASSUME TypeOK
  PROVE  /\ decoded \in Seq(Message) /\ Pending(queue) \in Seq(Message)
         /\ internal \in Seq(Message) /\ InFlight \in Seq(Message) /\ socket \in Seq(Message)
         /\ arrived \in Seq(Message) /\ queue \in Seq(Message) /\ receiveBuffer \in Message
         /\ Forwarded \in Seq(Message) /\ Stored \in Seq(Message) /\ Taken \in Seq(Message)
         /\ InOrderExactlyOnce <=> arrived = Taken \o socket
<1>1. /\ decoded \in Seq(Message) /\ queue \in Seq(Message) /\ internal \in Seq(Message)
      /\ socket \in Seq(Message) /\ arrived \in Seq(Message) /\ receiveBuffer \in Message
  BY DEF TypeOK
<1>2. Pending(queue) \in Seq(Message)
  BY <1>1, PendingOfQueue
<1>3. InFlight \in Seq(Message)
  BY <1>1 DEF InFlight
<1>4. Forwarded \in Seq(Message)
  BY <1>1, <1>2, ConcatProperties DEF Forwarded
<1>5. Stored \in Seq(Message)
  BY <1>1, <1>4, ConcatProperties DEF Stored
<1>6. Taken \in Seq(Message)
  BY <1>3, <1>5, ConcatProperties DEF Taken
<1> QED
  BY <1>1, <1>2, <1>3, <1>4, <1>5, <1>6
  DEF InOrderExactlyOnce, Forwarded, Stored, Taken, InFlight

\* The same for the next state, if nothing but the variables given has changed.
LEMMA WhereaboutsUnchanged ==
  ASSUME UNCHANGED <<arrived, socket, receive, receiveBuffer, internal, queue, decoded>>
  PROVE  InOrderExactlyOnce' <=> InOrderExactlyOnce
BY DEF InOrderExactlyOnce

\* A datagram arrives behind all others.
LEMMA ArriveInOrder ==
  ASSUME TypeOK, InOrderExactlyOnce, NEW m \in Message, Arrive(m)
  PROVE  InOrderExactlyOnce'
<1>1. /\ arrived' = Append(arrived, m) /\ socket' = Append(socket, m) /\ Taken' = Taken
  BY DEF Arrive, Taken, Stored, Forwarded, InFlight
<1>2. arrived = Taken \o socket /\ Taken \in Seq(Message) /\ socket \in Seq(Message)
  BY Whereabouts
<1>3. Taken \o Append(socket, m) = Append(Taken \o socket, m)
  BY <1>2, AppendingToConcatenation
<1>4. arrived' = Taken' \o socket'
  BY <1>1, <1>2, <1>3
<1> QED
  BY <1>4 DEF InOrderExactlyOnce, Taken, Stored, Forwarded, InFlight

\* The first datagram of the socket comes into the receive buffer.
LEMMA CompleteReceiveInOrder ==
  ASSUME TypeOK, InOrderExactlyOnce, CompleteReceive
  PROVE  InOrderExactlyOnce' /\ receiveBuffer' \in Message /\ socket' \in Seq(Message)
<1> DEFINE h == Head(socket)
           t == Tail(socket)
<1>1. /\ InFlight = <<>> /\ InFlight' = <<h>> /\ socket # <<>> /\ socket' = t
      /\ receiveBuffer' = h /\ arrived' = arrived /\ Stored' = Stored
  BY DEF CompleteReceive, historyVars, InFlight, Stored, Forwarded
<1>2. arrived = Taken \o socket /\ Stored \in Seq(Message) /\ socket \in Seq(Message)
  BY Whereabouts
<1>3. h \in Message /\ t \in Seq(Message) /\ socket = <<h>> \o t
  BY <1>1, <1>2, HeadAndTail
<1>4. Taken = Stored
  BY <1>1, <1>2, ConcatEmptySeq DEF Taken
<1> HIDE DEF h, t
<1>5. <<h>> \in Seq(Message) /\ (Stored \o <<h>>) \o t = Stored \o (<<h>> \o t)
  BY <1>2, <1>3, ConcatAssociative
<1>6. arrived' = (Stored' \o InFlight') \o socket'
  BY <1>1, <1>2, <1>3, <1>4, <1>5
<1> QED
  BY <1>1, <1>3, <1>6 DEF InOrderExactlyOnce, Taken, Stored, Forwarded, InFlight

\* A failed operation counts as an unreadable datagram before those in the socket.
LEMMA FailReceiveInOrder ==
  ASSUME TypeOK, InOrderExactlyOnce, FailReceive
  PROVE  /\ InOrderExactlyOnce' /\ arrived' \in Seq(Message) /\ Len(arrived') = Len(arrived) + 1
<1> DEFINE y == Taken
           u == <<Unreadable>>
<1>1. /\ InFlight = <<>> /\ InFlight' = u /\ socket' = socket /\ Stored' = Stored
      /\ arrived' = InsertAt(arrived, Len(arrived) - Len(socket) + 1, Unreadable)
  BY DEF FailReceive, InFlight, Stored, Forwarded
<1>2. arrived = y \o socket /\ y \in Seq(Message) /\ socket \in Seq(Message) /\ Stored \in Seq(Message)
  BY Whereabouts
<1>3. y = Stored
  BY <1>1, <1>2, ConcatEmptySeq DEF Taken
<1> HIDE DEF y
<1>4. /\ Len(y) \in Nat /\ Len(socket) \in Nat /\ Len(arrived) = Len(y) + Len(socket)
  BY <1>2, LenProperties, ConcatProperties
<1>5. Len(arrived) - Len(socket) + 1 = Len(y) + 1 /\ Len(y) + 1 - 1 = Len(y)
  BY <1>4
<1>6. SubSeq(arrived, 1, Len(y)) = y /\ SubSeq(arrived, Len(y) + 1, Len(arrived)) = socket
  BY <1>2, PartsOfConcatenation
<1>7. arrived' = (y \o u) \o socket
  <2> DEFINE k == Len(y) + 1
  <2>1. arrived' = InsertAt(arrived, k, Unreadable)
    BY <1>1, <1>5
  <2>2. SubSeq(arrived, 1, k - 1) = y /\ SubSeq(arrived, k, Len(arrived)) = socket
    BY <1>5, <1>6
  <2> HIDE DEF k
  <2> QED
    BY <2>1, <2>2 DEF InsertAt
<1>8. arrived' = (Stored' \o InFlight') \o socket'
  BY <1>1, <1>3, <1>7
<1>9. u \in Seq(Message) /\ Len(u) = 1
  BY MessageAssumption
<1>10. y \o u \in Seq(Message) /\ Len(y \o u) = Len(y) + 1
  BY <1>2, <1>9, ConcatProperties
<1>11. arrived' \in Seq(Message) /\ Len(arrived') = Len(y) + 1 + Len(socket)
  BY <1>2, <1>7, <1>10, ConcatProperties
<1>12. Len(arrived') = Len(arrived) + 1
  BY <1>4, <1>11
<1>13. InOrderExactlyOnce'
  BY <1>8 DEF InOrderExactlyOnce, Stored, Forwarded, InFlight
<1> QED
  BY <1>11, <1>12, <1>13

\* The handler stores the message behind those that are stored.
LEMMA StoreMessageInOrder ==
  ASSUME TypeOK, InOrderExactlyOnce, StoreMessage
  PROVE  InOrderExactlyOnce' /\ internal' \in Seq(Message)
<1> DEFINE b == receiveBuffer
<1>1. /\ InFlight = <<b>> /\ InFlight' = <<>> /\ internal' = Append(internal, b)
      /\ socket' = socket /\ arrived' = arrived /\ Forwarded' = Forwarded
  BY DEF StoreMessage, historyVars, InFlight, Forwarded
<1>2. /\ arrived = Taken \o socket /\ Stored \in Seq(Message) /\ Forwarded \in Seq(Message)
      /\ internal \in Seq(Message) /\ b \in Message
  BY Whereabouts
<1> HIDE DEF b
<1>3. Append(internal, b) \in Seq(Message) /\ <<b>> \in Seq(Message)
  BY <1>2, Appending
<1>4. Forwarded \o Append(internal, b) = Append(Forwarded \o internal, b)
  BY <1>2, AppendingToConcatenation
<1>5. Stored' = Stored \o <<b>>
  <2>1. Append(Stored, b) = Stored \o <<b>>
    BY <1>2, Appending
  <2> QED
    BY <1>1, <1>4, <2>1 DEF Stored
<1>6. Stored \o <<b>> \in Seq(Message)
  BY <1>2, <1>3, ConcatProperties
<1>7. Taken' = Taken
  <2>1. Taken' = (Stored \o <<b>>) \o <<>>
    BY <1>1, <1>5 DEF Taken
  <2>2. (Stored \o <<b>>) \o <<>> = Stored \o <<b>>
    BY <1>6, ConcatEmptySeq
  <2> QED
    BY <1>1, <2>1, <2>2 DEF Taken
<1>8. arrived' = Taken' \o socket'
  BY <1>1, <1>2, <1>7
<1> QED
  BY <1>1, <1>3, <1>8 DEF InOrderExactlyOnce, Taken, Stored, Forwarded, InFlight

\* process() moves the first stored message to the end of the queue.
LEMMA ForwardInOrder ==
  ASSUME TypeOK, InOrderExactlyOnce, Forward
  PROVE  InOrderExactlyOnce' /\ internal' \in Seq(Message) /\ queue' \in Seq(Message)
<1> DEFINE h == Head(internal)
           t == Tail(internal)
<1>1. /\ internal # <<>> /\ queue' = Enqueue(queue, h) /\ internal' = t
      /\ UNCHANGED <<decoded, socket, arrived, receive, receiveBuffer>>
  BY DEF Forward, historyVars
<1>2. /\ arrived = Taken \o socket /\ Forwarded \in Seq(Message) /\ queue \in Seq(Message)
      /\ internal \in Seq(Message) /\ decoded \in Seq(Message) /\ Pending(queue) \in Seq(Message)
  BY Whereabouts
<1>3. h \in Message /\ t \in Seq(Message) /\ internal = <<h>> \o t
  BY <1>1, <1>2, HeadAndTail
<1> HIDE DEF h, t
<1>4. Enqueue(queue, h) \in Seq(Message) /\ Pending(queue') = Append(Pending(queue), h)
  BY <1>1, <1>2, <1>3, EnqueuedLast
<1>5. Forwarded' = Append(Forwarded, h)
  <2>1. decoded \o Append(Pending(queue), h) = Append(decoded \o Pending(queue), h)
    BY <1>2, <1>3, AppendingToConcatenation
  <2> QED
    BY <1>1, <1>4, <2>1 DEF Forwarded
<1>6. Append(Forwarded, h) \o t = Forwarded \o (<<h>> \o t)
  BY <1>2, <1>3, MovedAcross
<1>7. Stored' = Stored
  BY <1>1, <1>3, <1>5, <1>6 DEF Stored
<1>8. arrived' = Taken' \o socket'
  BY <1>1, <1>2, <1>7 DEF Taken, InFlight
<1> QED
  BY <1>1, <1>3, <1>4, <1>8 DEF InOrderExactlyOnce, Taken, Stored, Forwarded, InFlight

\* The decoder takes the message that has been in the queue for the longest time.
LEMMA DecodeInOrder ==
  ASSUME TypeOK, InOrderExactlyOnce, DecodeMessage
  PROVE  /\ InOrderExactlyOnce' /\ queue' \in Seq(Message)
         /\ NextElement(queue) \in Message
         /\ decoded' \in Seq(Message) /\ Len(decoded') = Len(decoded) + 1
         /\ decoded'[Len(decoded')] = NextElement(queue)
<1> DEFINE m == NextElement(queue)
<1>1. /\ queue # EmptyQueue /\ queue' = PopNextElement(queue) /\ decoded' = Append(decoded, m)
      /\ UNCHANGED <<internal, socket, arrived, receive, receiveBuffer>>
  BY DEF DecodeMessage, receiverVars
<1>2. /\ arrived = Taken \o socket /\ queue \in Seq(Message) /\ decoded \in Seq(Message)
  BY Whereabouts
<1>3. /\ m \in Message /\ queue' \in Seq(Message)
      /\ Pending(queue) = <<m>> \o Pending(queue')
  BY <1>1, <1>2, NextFirst
<1> HIDE DEF m
<1>4. Pending(queue') \in Seq(Message)
  BY <1>3, PendingOfQueue
<1>5. Append(decoded, m) \o Pending(queue') = decoded \o (<<m>> \o Pending(queue'))
  BY <1>2, <1>3, <1>4, MovedAcross
<1>6. Forwarded' = Forwarded
  BY <1>1, <1>3, <1>5 DEF Forwarded
<1>7. arrived' = Taken' \o socket'
  BY <1>1, <1>2, <1>6 DEF Taken, Stored, InFlight
<1>8. /\ decoded' \in Seq(Message) /\ Len(decoded') = Len(decoded) + 1
      /\ decoded'[Len(decoded) + 1] = m
  <2>1. /\ Append(decoded, m) \in Seq(Message) /\ Len(Append(decoded, m)) = Len(decoded) + 1
        /\ Append(decoded, m)[Len(decoded) + 1] = m
    BY <1>2, <1>3, AppendProperties
  <2> QED
    BY <1>1, <2>1
<1> QED
  BY <1>3, <1>7, <1>8 DEF InOrderExactlyOnce, Taken, Stored, Forwarded, InFlight, m

-----------------------------------------------------------------------------
(* The connection from the decoder to the renderer.                        *)

Connection == Protocol(ObjectVector, {Renderer})

LEMMA SceneObjects ==
  ASSUME NEW p \in Connection
  PROVE  /\ FrontObject(p) \in BufferId /\ BackObject(p) \in BufferId
         /\ FrontObject(p) # BackObject(p) /\ InputObject(p) = BackObject(p)
         /\ \A b \in BufferId : p.data[b] \in ObjectVector
         /\ BackData(p) \in ObjectVector
<1>1. p.front \in {0, 1} /\ p.data \in [BufferId -> ObjectVector]
  BY DEF Connection, Protocol, BufferId
<1>2. 1 - p.front \in {0, 1} /\ p.front # 1 - p.front
  BY <1>1
<1> QED
  BY <1>1, <1>2 DEF FrontObject, BackObject, BackData, InputObject, Other, BufferId

\* A write hits the object that is denoted and nothing else.
LEMMA ObjectWritten ==
  ASSUME NEW p \in Connection, NEW b \in BufferId, NEW v \in ObjectVector,
         NEW q, q = WriteObject(p, b, v)
  PROVE  /\ q \in Connection
         /\ FrontObject(q) = FrontObject(p) /\ BackObject(q) = BackObject(p)
         /\ Changed(q, Renderer) = Changed(p, Renderer)
         /\ q.data[b] = v
         /\ \A c \in BufferId \ {b} : q.data[c] = p.data[c]
<1>1. /\ p.data \in [BufferId -> ObjectVector] /\ p.front \in BufferId
      /\ p.changed \in [{Renderer} -> BOOLEAN]
  BY DEF Connection, Protocol
<1>2. q = [p EXCEPT !.data = [p.data EXCEPT ![b] = v]]
  BY DEF WriteObject
<1>3. /\ q.data = [p.data EXCEPT ![b] = v] /\ q.front = p.front /\ q.changed = p.changed
      /\ q = [data |-> q.data, front |-> q.front, changed |-> q.changed]
  BY <1>2 DEF Connection, Protocol
<1>4. q.data \in [BufferId -> ObjectVector]
  BY <1>1, <1>3
<1>5. q \in Connection
  BY <1>1, <1>3, <1>4 DEF Connection, Protocol
<1> QED
  BY <1>1, <1>3, <1>5 DEF FrontObject, BackObject, Changed

\* The outcome of a swap that copies nothing.
Exchanged(p) ==
  [ data |-> p.data, front |-> BackObject(p), changed |-> [i \in DOMAIN p.changed |-> TRUE] ]

LEMMA SwapExchanges == ASSUME NEW p PROVE SwapBuffers(p, FALSE) = Exchanged(p)
BY DEF SwapBuffers, Exchanged

\* The objects change places and the renderer is told.
LEMMA BuffersSwapped ==
  ASSUME NEW p \in Connection, NEW q, q = Exchanged(p)
  PROVE  /\ q \in Connection /\ Changed(q, Renderer)
         /\ BackData(q) = p.data[FrontObject(p)]
<1>1. /\ p.data \in [BufferId -> ObjectVector] /\ p.front \in BufferId
      /\ p.changed \in [{Renderer} -> BOOLEAN]
  BY DEF Connection, Protocol
<1> DEFINE all == [i \in {Renderer} |-> TRUE]
           back == BackObject(p)
<1>2. q = [data |-> p.data, front |-> back, changed |-> all]
  BY <1>1 DEF Exchanged
<1>3. back \in BufferId /\ all \in [{Renderer} -> BOOLEAN] /\ all[Renderer]
  BY SceneObjects
<1>4. back = 1 - p.front /\ 1 - back = p.front
  BY <1>1 DEF BackObject, Other, BufferId
<1> HIDE DEF all, back
<1>5. q.data = p.data /\ q.front = back /\ q.changed = all
  BY <1>2
<1>6. q \in Connection
  BY <1>1, <1>2, <1>3 DEF Connection, Protocol
<1>7. BackObject(q) = FrontObject(p)
  BY <1>4, <1>5 DEF BackObject, FrontObject, Other
<1>8. Changed(q, Renderer)
  BY <1>3, <1>5 DEF Changed
<1> QED
  BY <1>5, <1>6, <1>7, <1>8 DEF BackData

LEMMA FlagReset ==
  ASSUME NEW p \in Connection, NEW q, q = ResetChanged(p, Renderer)
  PROVE  q \in Connection /\ BackData(q) = BackData(p)
<1>1. /\ p.data \in [BufferId -> ObjectVector] /\ p.front \in BufferId
      /\ p.changed \in [{Renderer} -> BOOLEAN]
  BY DEF Connection, Protocol
<1>2. q = [p EXCEPT !.changed = [p.changed EXCEPT ![Renderer] = FALSE]]
  BY DEF ResetChanged
<1>3. /\ q.data = p.data /\ q.front = p.front
      /\ q.changed = [p.changed EXCEPT ![Renderer] = FALSE]
      /\ q = [data |-> q.data, front |-> q.front, changed |-> q.changed]
  BY <1>2 DEF Connection, Protocol
<1>4. q.changed \in [{Renderer} -> BOOLEAN]
  BY <1>1, <1>3
<1>5. q \in Connection
  BY <1>1, <1>3, <1>4 DEF Connection, Protocol
<1> QED
  BY <1>3, <1>5 DEF BackData, BackObject

\* What a message says is in the object vector it has updated.
LEMMA VectorUpdated ==
  ASSUME NEW m \in Message, NEW vector \in ObjectVector
  PROVE  /\ UpdateObjectVector(m, vector) \in ObjectVector
         /\ Says(m, UpdateObjectVector(m, vector))
BY MessageAssumption DEF UpdateObjectVector, ObjectVector, Says

-----------------------------------------------------------------------------
(* The invariant holds in every state.                                     *)

LEMMA InitInvariant == Init => IInv
<1> SUFFICES ASSUME Init PROVE IInv
  OBVIOUS
<1> DEFINE none == [i \in {Renderer} |-> FALSE]
           both == [b \in BufferId |-> EmptyVector]
<1>1. EmptyVector \in ObjectVector
  BY DEF EmptyVector, ObjectVector
<1>2. scene = [data |-> both, front |-> 0, changed |-> none]
  BY DEF Init, NewProtocol
<1>3. both \in [BufferId -> ObjectVector] /\ none \in [{Renderer} -> BOOLEAN]
  BY <1>1
<1>4. 0 \in BufferId /\ 1 - 0 \in BufferId /\ both[1 - 0] = EmptyVector
  BY DEF BufferId
<1> HIDE DEF none, both
<1>5. scene \in Protocol(ObjectVector, {Renderer})
  BY <1>2, <1>3, <1>4 DEF Protocol
<1>6. BackData(scene) = EmptyVector
  BY <1>2, <1>4 DEF BackData, BackObject, Other
<1>7. TypeOK
  <2>1. <<>> \in Seq(Message) /\ Len(<<>>) = 0
    OBVIOUS
  <2>2. 0 \in 0 .. Len(decoded) /\ 0 <= MaxDatagrams
    BY <2>1, MessageAssumption DEF Init
  <2>3. objects \in BufferId /\ view \in ObjectVector /\ receiveBuffer \in Message
    BY <1>1, <1>4, MessageAssumption DEF Init
  <2> QED
    BY <1>5, <2>1, <2>2, <2>3 DEF Init, TypeOK, EmptyQueue
<1>8. InOrderExactlyOnce
  <2>1. Pending(queue) = <<>>
    BY DEF Init, Pending, EmptyQueue, Reverse
  <2> QED
    BY <2>1 DEF Init, InOrderExactlyOnce
<1>9. NoSilentChange
  BY <1>6 DEF Init, NoSilentChange
<1>10. QueueInCycle /\ CycleBegun /\ ReferenceOrFlag /\ ~ Lone
  <2>1. Len(decoded) = 0 /\ cycleStart = 0
    BY DEF Init
  <2> QED
    BY <2>1 DEF Init, QueueInCycle, CycleBegun, ReferenceOrFlag, Lone
<1> QED
  BY <1>7, <1>8, <1>9, <1>10 DEF IInv, LonePublished

\* What the decoder and the renderer have to keep.
SceneInv == NoSilentChange /\ QueueInCycle /\ CycleBegun /\ ReferenceOrFlag /\ LonePublished

\* Nothing the decoder and the renderer see has changed.
LEMMA SceneUnchanged ==
  ASSUME SceneInv, UNCHANGED <<queue, audio, objects, scene, view, decoded, cycleStart>>
  PROVE  SceneInv'
BY DEF SceneInv, NoSilentChange, QueueInCycle, CycleBegun, ReferenceOrFlag, LonePublished,
       Lone

LEMMA CycleStartBound ==
  ASSUME TypeOK PROVE cycleStart \in Nat /\ Len(decoded) \in Nat /\ cycleStart <= Len(decoded)
BY DEF TypeOK

LEMMA ArriveKeeps ==
  ASSUME IInv, NEW m \in Message, Arrive(m)
  PROVE  IInv'
<1>1. TypeOK /\ InOrderExactlyOnce /\ SceneInv
  BY DEF IInv, SceneInv
<1>2. InOrderExactlyOnce'
  BY <1>1, ArriveInOrder
<1>3. SceneInv'
  BY <1>1, SceneUnchanged DEF Arrive
<1>4. TypeOK'
  <2>1. /\ Append(arrived, m) \in Seq(Message) /\ Append(socket, m) \in Seq(Message)
        /\ Len(Append(arrived, m)) <= MaxDatagrams
    BY <1>1, MessageAssumption DEF TypeOK, Arrive
  <2> QED
    BY <1>1, <2>1 DEF TypeOK, Arrive
<1> QED
  BY <1>2, <1>3, <1>4 DEF IInv, SceneInv

LEMMA CompleteReceiveKeeps ==
  ASSUME IInv, CompleteReceive
  PROVE  IInv'
<1>1. TypeOK /\ InOrderExactlyOnce /\ SceneInv
  BY DEF IInv, SceneInv
<1>2. InOrderExactlyOnce' /\ receiveBuffer' \in Message /\ socket' \in Seq(Message)
  BY <1>1, CompleteReceiveInOrder
<1>3. SceneInv'
  BY <1>1, SceneUnchanged DEF CompleteReceive, historyVars
<1>4. TypeOK'
  BY <1>1, <1>2 DEF TypeOK, CompleteReceive, historyVars
<1> QED
  BY <1>2, <1>3, <1>4 DEF IInv, SceneInv

LEMMA FailReceiveKeeps ==
  ASSUME IInv, FailReceive
  PROVE  IInv'
<1>1. TypeOK /\ InOrderExactlyOnce /\ SceneInv
  BY DEF IInv, SceneInv
<1>2. InOrderExactlyOnce' /\ arrived' \in Seq(Message) /\ Len(arrived') = Len(arrived) + 1
  BY <1>1, FailReceiveInOrder
<1>3. SceneInv'
  BY <1>1, SceneUnchanged DEF FailReceive
<1>4. Len(arrived') <= MaxDatagrams
  <2>1. Len(arrived) \in Nat /\ Len(arrived) < MaxDatagrams
    BY <1>1 DEF TypeOK, FailReceive
  <2> QED
    BY <1>2, <2>1, MessageAssumption
<1>5. /\ receiveBuffer' = Unreadable /\ receive' = "completed"
      /\ UNCHANGED <<mode, socket, internal, locked, queue, audio, objects, scene, view,
                     decoded, cycleStart>>
  BY DEF FailReceive
<1>6. TypeOK'
  BY <1>1, <1>2, <1>4, <1>5, MessageAssumption DEF TypeOK
<1> QED
  BY <1>2, <1>3, <1>6 DEF IInv, SceneInv

LEMMA StoreMessageKeeps ==
  ASSUME IInv, StoreMessage
  PROVE  IInv'
<1>1. TypeOK /\ InOrderExactlyOnce /\ SceneInv
  BY DEF IInv, SceneInv
<1>2. InOrderExactlyOnce' /\ internal' \in Seq(Message)
  BY <1>1, StoreMessageInOrder
<1>3. SceneInv'
  BY <1>1, SceneUnchanged DEF StoreMessage, historyVars
<1>4. TypeOK'
  BY <1>1, <1>2 DEF TypeOK, StoreMessage, historyVars
<1> QED
  BY <1>2, <1>3, <1>4 DEF IInv, SceneInv

\* The message in the receive buffer has been stored when the next operation starts.
LEMMA RearmKeeps ==
  ASSUME IInv, Rearm
  PROVE  IInv'
<1>1. TypeOK /\ InOrderExactlyOnce /\ SceneInv
  BY DEF IInv, SceneInv
<1>2. InOrderExactlyOnce'
  BY <1>1 DEF InOrderExactlyOnce, Rearm, historyVars
<1>3. SceneInv'
  BY <1>1, SceneUnchanged DEF Rearm, historyVars
<1>4. TypeOK'
  BY <1>1 DEF TypeOK, Rearm, historyVars
<1> QED
  BY <1>2, <1>3, <1>4 DEF IInv, SceneInv

\* A message that is alone in a cycle does not become so without being decoded.
LEMMA BeginCycleKeeps ==
  ASSUME IInv, BeginCycle
  PROVE  IInv'
<1>1. TypeOK /\ InOrderExactlyOnce
  BY DEF IInv
<1>2. /\ audio = "idle" /\ audio' \in {"poll", "drain"} /\ cycleStart' = Len(decoded)
      /\ locked' \in {locked, TRUE}
      /\ UNCHANGED <<mode, receiverVars, queue, objects, scene, view, arrived, decoded>>
  BY DEF BeginCycle
<1>3. InOrderExactlyOnce'
  BY <1>1, <1>2 DEF InOrderExactlyOnce, receiverVars
<1>4. queue' = EmptyQueue /\ NoSilentChange'
  BY <1>2 DEF IInv, QueueInCycle, NoSilentChange
<1>5. ~ Lone'
  BY <1>1, <1>2, CycleStartBound DEF Lone
<1>6. QueueInCycle' /\ CycleBegun' /\ ReferenceOrFlag' /\ LonePublished'
  BY <1>2, <1>4, <1>5 DEF QueueInCycle, CycleBegun, ReferenceOrFlag, LonePublished
<1>7. TypeOK'
  <2>1. cycleStart' \in 0 .. Len(decoded')
    BY <1>1, <1>2, CycleStartBound
  <2>2. locked' \in BOOLEAN
    BY <1>1, <1>2 DEF TypeOK
  <2> QED
    BY <1>1, <1>2, <2>1, <2>2 DEF TypeOK, receiverVars
<1> QED
  BY <1>3, <1>4, <1>6, <1>7 DEF IInv

LEMMA PollReturnsKeeps ==
  ASSUME IInv, PollReturns
  PROVE  IInv'
<1>1. TypeOK /\ InOrderExactlyOnce
  BY DEF IInv
<1>2. /\ audio = "poll" /\ audio' = "drain" /\ locked'
      /\ locked' \in BOOLEAN
      /\ UNCHANGED <<mode, receiverVars, queue, objects, scene, view, historyVars>>
  BY DEF PollReturns
<1>3. InOrderExactlyOnce'
  BY <1>1, <1>2 DEF InOrderExactlyOnce, receiverVars, historyVars
<1>4. NoSilentChange' /\ QueueInCycle' /\ CycleBegun' /\ ReferenceOrFlag'
  BY <1>2 DEF IInv, NoSilentChange, QueueInCycle, CycleBegun, ReferenceOrFlag, historyVars
<1>5. ~ Lone'
  BY <1>1, <1>2, CycleStartBound DEF IInv, CycleBegun, Lone, historyVars
<1>6. TypeOK'
  BY <1>1, <1>2 DEF TypeOK, receiverVars, historyVars
<1> QED
  BY <1>3, <1>4, <1>5, <1>6 DEF IInv, LonePublished

LEMMA ForwardKeeps ==
  ASSUME IInv, Forward
  PROVE  IInv'
<1>1. TypeOK /\ InOrderExactlyOnce
  BY DEF IInv
<1>2. InOrderExactlyOnce' /\ internal' \in Seq(Message) /\ queue' \in Seq(Message)
  BY <1>1, ForwardInOrder
<1>3. NoSilentChange' /\ QueueInCycle' /\ CycleBegun' /\ ReferenceOrFlag' /\ LonePublished'
  BY DEF IInv, Forward, NoSilentChange, QueueInCycle, CycleBegun, ReferenceOrFlag,
         LonePublished, Lone, historyVars
<1>4. TypeOK'
  BY <1>1, <1>2 DEF TypeOK, Forward, historyVars
<1> QED
  BY <1>2, <1>3, <1>4 DEF IInv

\* The decoder obtains its reference before it has decoded a message of the cycle.
LEMMA EnterDecoderKeeps ==
  ASSUME IInv, EnterDecoder
  PROVE  IInv'
<1>1. TypeOK /\ InOrderExactlyOnce
  BY DEF IInv
<1>2. /\ audio = "drain" /\ audio' = "decode" /\ ~ locked' /\ locked' \in BOOLEAN
      /\ objects' = FrontObject(scene)
      /\ UNCHANGED <<mode, receiverVars, queue, scene, view, historyVars>>
  BY DEF EnterDecoder
<1>3. InOrderExactlyOnce'
  BY <1>1, <1>2 DEF InOrderExactlyOnce, receiverVars, historyVars
<1>4. NoSilentChange' /\ QueueInCycle' /\ CycleBegun' /\ ReferenceOrFlag'
  BY <1>2 DEF IInv, NoSilentChange, QueueInCycle, CycleBegun, ReferenceOrFlag, historyVars
<1>5. ~ Lone'
  BY <1>1, <1>2, CycleStartBound DEF IInv, CycleBegun, Lone, historyVars
<1>6. objects' \in BufferId
  BY <1>1, <1>2, SceneObjects DEF TypeOK, Connection
<1>7. TypeOK'
  BY <1>1, <1>2, <1>6 DEF TypeOK, receiverVars, historyVars
<1> QED
  BY <1>3, <1>4, <1>5, <1>7 DEF IInv, LonePublished

\* A message that is not swapped in changes an object of the decoder, unless the
\* renderer has been told already; the first one of a cycle is published as it is.
LEMMA DecodeMessageKeeps ==
  ASSUME IInv, DecodeMessage
  PROVE  IInv'
<1> DEFINE m       == NextElement(queue)
           vector  == UpdateObjectVector(m, scene.data[objects])
           updated == WriteObject(scene, objects, vector)
<1>1. TypeOK /\ InOrderExactlyOnce
  BY DEF IInv
<1>2. /\ InOrderExactlyOnce' /\ queue' \in Seq(Message) /\ m \in Message
      /\ decoded' \in Seq(Message) /\ Len(decoded') = Len(decoded) + 1
      /\ decoded'[Len(decoded')] = m
  BY <1>1, DecodeInOrder
<1>3. scene \in Connection /\ objects \in BufferId
  BY <1>1 DEF TypeOK, Connection
<1>4. vector \in ObjectVector /\ Says(m, vector)
  BY <1>2, <1>3, SceneObjects, VectorUpdated
<1>5. /\ audio = "decode"
      /\ scene' = IF m.ok THEN Exchanged(updated) ELSE updated
      /\ UNCHANGED <<mode, receiverVars, locked, audio, objects, view, arrived, cycleStart>>
  BY SwapExchanges DEF DecodeMessage
<1>6. /\ Len(decoded) \in Nat /\ cycleStart \in Nat /\ cycleStart <= Len(decoded)
      /\ cycleStart' # Len(decoded')
  BY <1>1, <1>2, <1>5, CycleStartBound
<1>7. /\ objects = FrontObject(scene) \/ Changed(scene, Renderer)
      /\ cycleStart = Len(decoded) => objects = FrontObject(scene)
  BY <1>5 DEF IInv, ReferenceOrFlag
<1> HIDE DEF m, vector
<1>8. /\ updated \in Connection
      /\ FrontObject(updated) = FrontObject(scene) /\ BackObject(updated) = BackObject(scene)
      /\ Changed(updated, Renderer) = Changed(scene, Renderer)
      /\ updated.data[objects] = vector
      /\ \A c \in BufferId \ {objects} : updated.data[c] = scene.data[c]
  BY <1>3, <1>4, ObjectWritten
<1> HIDE DEF updated
<1>9. scene' \in Connection
  BY <1>5, <1>8, BuffersSwapped
<1>10. QueueInCycle' /\ CycleBegun'
  BY <1>5 DEF QueueInCycle, CycleBegun
<1>11. ASSUME m.ok
       PROVE  NoSilentChange' /\ ReferenceOrFlag' /\ LonePublished'
  <2>1. Changed(scene', Renderer) /\ BackData(scene') = updated.data[FrontObject(updated)]
    BY <1>5, <1>8, <1>11, BuffersSwapped
  <2>2. NoSilentChange' /\ ReferenceOrFlag'
    BY <1>5, <1>6, <2>1 DEF NoSilentChange, ReferenceOrFlag
  <2>3. LonePublished'
    <3>1. SUFFICES ASSUME Lone'
                   PROVE  /\ audio' \in {"decode", "render"} /\ audio' # "idle"
                          /\ Changed(scene', Renderer) /\ Says(m, BackData(scene'))
      BY <1>2, <2>1 DEF LonePublished
    <3>2. cycleStart = Len(decoded)
      BY <1>2, <1>5, <1>6, <3>1 DEF Lone
    <3>3. BackData(scene') = vector
      BY <1>7, <1>8, <2>1, <3>2
    <3> QED
      BY <1>4, <1>5, <2>1, <3>3
  <2> QED
    BY <2>2, <2>3
<1>12. ASSUME ~ m.ok
       PROVE  NoSilentChange' /\ ReferenceOrFlag' /\ LonePublished'
  <2>1. scene' = updated /\ ~ Lone'
    BY <1>2, <1>5, <1>12 DEF Lone
  <2>2. NoSilentChange'
    <3>1. SUFFICES ASSUME ~ Changed(scene', Renderer)
                   PROVE  view' = BackData(scene')
      BY DEF NoSilentChange
    <3>2. ~ Changed(scene, Renderer) /\ objects = FrontObject(scene)
      BY <1>7, <1>8, <2>1, <3>1
    <3>3. BackObject(scene) \in BufferId \ {objects}
      BY <1>3, <3>2, SceneObjects
    <3>4. BackData(scene') = BackData(scene)
      BY <1>8, <2>1, <3>3 DEF BackData
    <3> QED
      BY <1>5, <3>2, <3>4 DEF IInv, NoSilentChange
  <2>3. ReferenceOrFlag'
    BY <1>5, <1>6, <1>7, <1>8, <2>1 DEF ReferenceOrFlag
  <2> QED
    BY <2>1, <2>2, <2>3 DEF LonePublished
<1>13. TypeOK'
  <2>1. cycleStart' \in 0 .. Len(decoded')
    BY <1>2, <1>5, <1>6
  <2> QED
    BY <1>1, <1>2, <1>5, <1>9, <2>1 DEF TypeOK, receiverVars, Connection
<1> QED
  BY <1>2, <1>10, <1>11, <1>12, <1>13 DEF IInv

LEMMA LeaveDecoderKeeps ==
  ASSUME IInv, LeaveDecoder
  PROVE  IInv'
<1>1. TypeOK /\ InOrderExactlyOnce
  BY DEF IInv
<1>2. /\ audio = "decode" /\ queue = EmptyQueue /\ audio' = "render"
      /\ UNCHANGED <<mode, receiverVars, locked, queue, objects, scene, view, historyVars>>
  BY DEF LeaveDecoder
<1>3. InOrderExactlyOnce'
  BY <1>1, <1>2 DEF InOrderExactlyOnce, receiverVars, historyVars
<1>4. NoSilentChange' /\ QueueInCycle' /\ CycleBegun' /\ ReferenceOrFlag'
  BY <1>2 DEF IInv, NoSilentChange, QueueInCycle, CycleBegun, ReferenceOrFlag, historyVars
<1>5. LonePublished'
  BY <1>2 DEF IInv, LonePublished, Lone, historyVars
<1>6. TypeOK'
  BY <1>1, <1>2 DEF TypeOK, receiverVars, historyVars
<1> QED
  BY <1>3, <1>4, <1>5, <1>6 DEF IInv

\* The renderer takes over what has been published and resets the flag.
LEMMA RenderKeeps ==
  ASSUME IInv, Render
  PROVE  IInv'
<1>1. TypeOK /\ InOrderExactlyOnce
  BY DEF IInv
<1>2. /\ audio = "render" /\ audio' = "idle"
      /\ IF Changed(scene, Renderer)
         THEN /\ view' = scene.data[InputObject(scene)]
              /\ scene' = ResetChanged(scene, Renderer)
         ELSE UNCHANGED <<view, scene>>
      /\ UNCHANGED <<mode, receiverVars, locked, queue, objects, historyVars>>
  BY DEF Render
<1>3. scene \in Connection /\ view \in ObjectVector
  BY <1>1 DEF TypeOK, Connection
<1>4. /\ scene' \in Connection /\ view' \in ObjectVector
      /\ NoSilentChange' /\ view' = BackData(scene)
  <2>1. CASE Changed(scene, Renderer)
    <3>1. view' = BackData(scene) /\ view' \in ObjectVector
      BY <1>2, <1>3, <2>1, SceneObjects DEF BackData
    <3>2. scene' \in Connection /\ BackData(scene') = BackData(scene)
      BY <1>2, <1>3, <2>1, FlagReset
    <3> QED
      BY <3>1, <3>2 DEF NoSilentChange
  <2>2. CASE ~ Changed(scene, Renderer)
    BY <1>2, <1>3, <2>2 DEF IInv, NoSilentChange
  <2> QED
    BY <2>1, <2>2
<1>5. InOrderExactlyOnce'
  BY <1>1, <1>2 DEF InOrderExactlyOnce, receiverVars, historyVars
<1>6. QueueInCycle' /\ CycleBegun' /\ ReferenceOrFlag'
  BY <1>2 DEF IInv, QueueInCycle, CycleBegun, ReferenceOrFlag, historyVars
<1>7. LonePublished'
  BY <1>2, <1>4 DEF IInv, LonePublished, Lone, historyVars
<1>8. TypeOK'
  BY <1>1, <1>2, <1>4 DEF TypeOK, receiverVars, historyVars, Connection
<1> QED
  BY <1>4, <1>5, <1>6, <1>7, <1>8 DEF IInv

LEMMA StutteringKeeps == IInv /\ UNCHANGED vars => IInv'
<1> SUFFICES ASSUME IInv, UNCHANGED vars PROVE IInv'
  OBVIOUS
<1>1. TypeOK' /\ InOrderExactlyOnce'
  BY DEF IInv, vars, receiverVars, historyVars, TypeOK, InOrderExactlyOnce
<1>2. SceneInv'
  BY SceneUnchanged DEF IInv, SceneInv, vars, historyVars
<1> QED
  BY <1>1, <1>2 DEF IInv, SceneInv

LEMMA StepInvariant == IInv /\ [Next]_vars => IInv'
<1> SUFFICES ASSUME IInv, [Next]_vars PROVE IInv'
  OBVIOUS
<1>1. CASE \E m \in Message : Arrive(m)
  BY <1>1, ArriveKeeps
<1>2. CASE FailReceive
  BY <1>2, FailReceiveKeeps
<1>3. CASE HandlerStep
  BY <1>3, CompleteReceiveKeeps, StoreMessageKeeps, RearmKeeps DEF HandlerStep
<1>4. CASE CycleStep
  BY <1>4, BeginCycleKeeps, PollReturnsKeeps, ForwardKeeps, EnterDecoderKeeps,
     DecodeMessageKeeps, LeaveDecoderKeeps, RenderKeeps DEF CycleStep
<1>5. CASE UNCHANGED vars
  BY <1>5, StutteringKeeps
<1> QED
  BY <1>1, <1>2, <1>3, <1>4, <1>5 DEF Next

\* The inductive invariant holds in every state, in both modes of the receiver.
THEOREM Inductive == Spec => []IInv
BY InitInvariant, StepInvariant, PTL DEF Spec

\* The variables keep their types; in particular the histories stay within the bound.
THEOREM TypeCorrectness == Spec => []TypeOK
<1>1. IInv => TypeOK
  BY DEF IInv
<1> QED
  BY <1>1, Inductive, PTL

\* Every datagram is decoded exactly once and in the order of arrival, in all
\* interleavings of the audio thread with the handler in the service thread
\* (handleReceiveData() and process() of UdpReceiver, process() of SceneDecoder).
THEOREM DatagramsInOrder == Spec => []InOrderExactlyOnce
<1>1. IInv => InOrderExactlyOnce
  BY DEF IInv
<1> QED
  BY <1>1, Inductive, PTL

\* The decoder leaves no message in the queue for a later cycle (the loop of
\* SceneDecoder::process() ends with an empty queue only).
THEOREM QueueEmptied == Spec => []QueueDrained
<1>1. IInv => QueueDrained
  BY DEF IInv, QueueInCycle, QueueDrained, CycleDone
<1> QED
  BY <1>1, Inductive, PTL

\* The renderer's object vector is the one it would read, or its flag is set, although
\* the decoder keeps writing through a reference that outlives the swap.
THEOREM ChangesAnnounced == Spec => []NoSilentChange
<1>1. IInv => NoSilentChange
  BY DEF IInv
<1> QED
  BY <1>1, Inductive, PTL

\* What the only message of a cycle says is what the renderer works with afterwards.
THEOREM LoneMessageShown == Spec => []LoneMessageVisible
<1>1. ASSUME IInv, CycleDone, Len(ThisCycle) = 1, Last(decoded).ok
      PROVE  \A o \in DOMAIN Last(decoded).set : view[o] = Last(decoded).set[o]
  <2>1. /\ decoded \in Seq(Message) /\ cycleStart \in Nat /\ Len(decoded) \in Nat
        /\ cycleStart <= Len(decoded)
    BY <1>1, CycleStartBound DEF IInv, TypeOK
  <2>2. Len(decoded) = cycleStart + 1
    <3> DEFINE k == cycleStart + 1
               l == Len(decoded)
    <3>1. Len(SubSeq(decoded, k, l)) = IF k <= l THEN l - k + 1 ELSE 0
      BY <2>1
    <3>2. (IF k <= l THEN l - k + 1 ELSE 0) = 1
      BY <1>1, <3>1 DEF ThisCycle
    <3> QED
      BY <2>1, <3>2
  <2>3. Last(decoded) = decoded[Len(decoded)]
    BY DEF Last
  <2>4. Lone
    BY <1>1, <2>2, <2>3 DEF Lone
  <2> QED
    BY <1>1, <2>3, <2>4 DEF IInv, LonePublished, CycleDone, Says
<1>2. IInv => LoneMessageVisible
  BY <1>1 DEF LoneMessageVisible
<1> QED
  BY <1>2, Inductive, PTL
=============================================================================
