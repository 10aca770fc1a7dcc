---------------------- MODULE DoubleBufferingProtocol ----------------------
(***************************************************************************)
(* The double-buffered 1:N parameter connection of libpml                  *)
(* (double_buffering_protocol.cpp).  The protocol owns two parameter       *)
(* objects; the sending port writes the front one, the receiving ports     *)
(* read the back one, and swapBuffers() exchanges the two pointers.  What  *)
(* is swapped are the pointers: a reference to an object obtained before   *)
(* the swap keeps denoting that object.  This is why the objects have      *)
(* identities here and "front" is the identity of one of them.             *)
(*                                                                         *)
(* A protocol instance is a record; its inputs are the domain of           *)
(* "changed", whose value at a port is that port's mChanged flag.          *)
(***************************************************************************)
EXTENDS Naturals

\* The two ParameterBase objects behind mFrontData and mBackData.
BufferId == {0, 1}

OtherCounted(b) == b + 1   \* mutant: the index is advanced instead of toggled

Other(b) == 1 - b

\* A protocol carrying values of Value to the receiving ports in Inputs.
Protocol(Value, Inputs) ==
  [ data : [BufferId -> Value], front : BufferId, changed : [Inputs -> BOOLEAN] ]

\* Both objects are created from the same configuration; a port does not
\* signal a change on startup.
NewProtocol(initial, Inputs) ==
  [ data    |-> [b \in BufferId |-> initial],
    front   |-> 0,
    changed |-> [i \in Inputs |-> FALSE] ]

\* The object the sender writes, and the one the receivers read.
FrontObject(p) == p.front
BackObject(p)  == Other(p.front)

FrontData(p) == p.data[FrontObject(p)]
BackData(p)  == p.data[BackObject(p)]

InputObjectStale(p) == FrontObject(p)   \* mutant: data() returns the sender's object

\* The object InputBase::data() returns a reference to.
InputObject(p) == BackObject(p)

\* The sender modifies the object behind OutputBase::data().
WriteFront(p, value) == [p EXCEPT !.data[p.front] = value]

\* A modification through a reference obtained from data() earlier on: it hits
\* the object b, on whichever side of the connection that is by now.
WriteObject(p, b, value) == [p EXCEPT !.data[b] = value]

\* mutant: the inputs are not told
SwapBuffersSilent(p, copyValue) == [p EXCEPT !.front = BackObject(p)]

\* swapBuffers(copyValue): on request the back object first receives the value
\* of the front one, then the pointers change places, then every connected
\* input is marked.
SwapBuffers(p, copyValue) ==
  [ data    |-> IF copyValue THEN [p.data EXCEPT ![BackObject(p)] = FrontData(p)]
                             ELSE p.data,
    front   |-> BackObject(p),
    changed |-> [i \in DOMAIN p.changed |-> TRUE] ]

Changed(p, input) == p.changed[input]

ResetChanged(p, input) == [p EXCEPT !.changed[input] = FALSE]
=============================================================================
