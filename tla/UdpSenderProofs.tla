-------------------------- MODULE UdpSenderProofs ---------------------------
(***************************************************************************)
(* The UDP sender keeps one send operation pending while it has messages,  *)
(* and sends each message at most once and in order, for any messages and  *)
(* any number of them, in both modes.                                      *)
(***************************************************************************)
EXTENDS UdpSender, CommonProofs

-----------------------------------------------------------------------------
(* The inductive invariant.                                                *)

Operations == [message : Message, result : Result]
Alive == program \in {"running", "stopping"}

\* A handler runs for an operation that has ended, and while the component exists.
HandlerInOperation ==
  handler = "entered" => Alive /\ operations # <<>> /\ operations[1].result \in {"sent", "short"}

\* In synchronous mode nothing is moved to the internal buffer.
NothingInternal == mode = "Synchronous" => internal = <<>> /\ operations = <<>>

IInv == TypeOK /\ OnePending /\ HandlerInOperation /\ NothingInternal

\* The messages that wait are a sequence of messages, and the one that is being sent
\* comes first.
LEMMA WaitingMessages ==
  ASSUME IInv, Alive
  PROVE  /\ Pending(input) \in Seq(Message) /\ Unsent \in Seq(Message)
         /\ Waiting \in Seq(Message) /\ Len(Waiting) \in Nat
         /\ Len(sent) \in Nat
         /\ operations # <<>> =>
              /\ Len(operations) = 1 /\ DOMAIN operations = {1}
              /\ operations[1] \in Operations /\ Tail(operations) = <<>>
              /\ internal # <<>> /\ operations[1].message = Head(internal)
<1>1. input \in Seq(Message) /\ internal \in Seq(Message) /\ operations \in Seq(Operations)
  BY DEF IInv, TypeOK, Operations
<1>2. operations # <<>> =>
        /\ Len(operations) = 1 /\ internal # <<>> /\ operations[1].message = Head(internal)
  BY DEF IInv, OnePending, Alive
<1>3. operations # <<>> =>
        /\ DOMAIN operations = {1} /\ operations[1] \in Operations /\ Tail(operations) = <<>>
  BY <1>1, <1>2, Singleton
<1>4. Pending(input) \in Seq(Message)
  BY <1>1, PendingOfQueue
<1>5. Unsent \in Seq(Message)
  BY <1>1, <1>2, HeadAndTail DEF Unsent
<1>6. Waiting \in Seq(Message) /\ Len(Waiting) \in Nat
  BY <1>4, <1>5, ConcatProperties, LenProperties DEF Waiting
<1>7. Len(sent) \in Nat
  BY LenProperties DEF IInv, TypeOK
<1> QED
  BY <1>2, <1>3, <1>4, <1>5, <1>6, <1>7

\* What a step does to the messages that wait and to those that have been sent.
Kept       == Waiting' = Waiting /\ sent' = sent
Added(m)   == Waiting' = Append(Waiting, m) /\ sent' = sent
FirstSent  ==
  /\ Waiting # <<>> /\ Head(Waiting) \in Message
  /\ Waiting' = Tail(Waiting) /\ sent' = Append(sent, Head(Waiting))

\* A submitted message waits behind all others.
LEMMA SubmitAdds ==
  ASSUME IInv, Submit
  PROVE  \E m \in Message :
           /\ Added(m) /\ input' = Enqueue(input, m) /\ Enqueue(input, m) \in Seq(Message)
<1>1. PICK m \in Message : input' = Enqueue(input, m)
  BY DEF Submit
<1>2. /\ input \in Seq(Message) /\ Pending(input) \in Seq(Message) /\ Unsent \in Seq(Message)
  BY WaitingMessages DEF IInv, TypeOK, Submit, Alive
<1>3. Enqueue(input, m) \in Seq(Message) /\ Pending(input') = Append(Pending(input), m)
  BY <1>1, <1>2, EnqueuedLast
<1>4. Unsent' = Unsent /\ sent' = sent
  BY DEF Submit, Unsent
<1>5. Unsent \o Append(Pending(input), m) = Append(Unsent \o Pending(input), m)
  BY <1>2, AppendingToConcatenation
<1>6. Waiting' = Append(Waiting, m)
  BY <1>3, <1>4, <1>5 DEF Waiting
<1> QED
  BY <1>1, <1>3, <1>4, <1>6 DEF Added

\* process() moves a message to the internal buffer, behind those that are there.
LEMMA MoveKeeps ==
  ASSUME IInv, MoveMessage
  PROVE  /\ Kept
         /\ internal' \in Seq(Message) /\ input' \in Seq(Message) /\ internal' # <<>>
         /\ internal # <<>> => Head(internal') = Head(internal)
<1> DEFINE m == NextElement(input)
<1>1. /\ input \in Seq(Message) /\ internal \in Seq(Message) /\ Alive /\ input # EmptyQueue
      /\ internal' = Append(internal, m) /\ input' = PopNextElement(input)
      /\ operations' = operations /\ sent' = sent
  BY DEF IInv, TypeOK, MoveMessage, Alive, historyVars
<1>2. /\ m \in Message /\ input' \in Seq(Message)
      /\ Pending(input) = <<m>> \o Pending(input')
  BY <1>1, NextFirst
<1> HIDE DEF m
<1>3. <<m>> \in Seq(Message) /\ internal' = internal \o <<m>> /\ internal' \in Seq(Message)
      /\ internal' # <<>> /\ Unsent \in Seq(Message) /\ Pending(input') \in Seq(Message)
  <2>1. Pending(input') \in Seq(Message)
    BY <1>2, PendingOfQueue
  <2>2. Unsent \in Seq(Message)
    BY <1>1, WaitingMessages
  <2>3. /\ <<m>> \in Seq(Message) /\ Append(internal, m) = internal \o <<m>>
        /\ Append(internal, m) \in Seq(Message) /\ Append(internal, m) # <<>>
    BY <1>1, <1>2, Appending
  <2> QED
    BY <1>1, <2>1, <2>2, <2>3
<1>4. internal # <<>> => Head(internal') = Head(internal) /\ Tail(internal') = Tail(internal) \o <<m>>
  BY <1>1, <1>3, FirstOfConcatenation
<1>5. Unsent' = Unsent \o <<m>>
  <2>1. operations # <<>> => internal # <<>>
    BY <1>1, WaitingMessages
  <2> QED
    BY <1>1, <1>3, <1>4, <2>1 DEF Unsent
<1>6. Waiting' = Waiting
  BY <1>2, <1>3, <1>5, ConcatAssociative DEF Waiting
<1> QED
  BY <1>1, <1>2, <1>3, <1>4, <1>6 DEF Kept

\* In synchronous mode, a message that goes out is the first one in the queue.
LEMMA SendNextSends ==
  ASSUME IInv, SendNext
  PROVE  /\ input' \in Seq(Message)
         /\ \/ FirstSent /\ audio' = "send"
            \/ Kept /\ audio' = "idle"
<1> DEFINE m == NextElement(input)
<1>1. /\ input \in Seq(Message) /\ input # EmptyQueue /\ Alive
      /\ internal = <<>> /\ operations = <<>> /\ internal' = <<>> /\ operations' = <<>>
      /\ audio = "send"
  BY DEF IInv, TypeOK, NothingInternal, SendNext, Alive
<1>2. Unsent = <<>> /\ Unsent' = <<>>
  BY <1>1 DEF Unsent
<1>3. /\ m \in Message /\ PopNextElement(input) \in Seq(Message)
      /\ Pending(input) = <<m>> \o Pending(PopNextElement(input))
  BY <1>1, NextFirst
<1>4. Pending(input) \in Seq(Message) /\ Pending(PopNextElement(input)) \in Seq(Message)
  BY <1>1, <1>3, PendingOfQueue
<1>5. PICK result : IF result = "sent"
                    THEN sent' = Append(sent, m) /\ input' = PopNextElement(input) /\ audio' = audio
                    ELSE FailedSend
  BY DEF SendNext
<1>6. Waiting = Pending(input)
  BY <1>2, <1>4, ConcatEmptySeq DEF Waiting
<1>7. CASE result = "sent"
  <2>1. Waiting' = Pending(PopNextElement(input))
    BY <1>2, <1>4, <1>5, <1>7, ConcatEmptySeq DEF Waiting
  <2>2. Waiting # <<>> /\ Head(Waiting) = m /\ Tail(Waiting) = Waiting'
    <3> HIDE DEF m
    <3> QED
      BY <1>3, <1>4, <1>6, <2>1, Prefixing
  <2> QED
    BY <1>1, <1>3, <1>5, <1>7, <2>2 DEF FirstSent
<1>8. CASE result # "sent"
  <2>1. sent' = sent /\ input' = input /\ audio' = "idle"
    BY <1>5, <1>8 DEF FailedSend
  <2> QED
    BY <1>1, <1>2, <2>1 DEF Kept, Waiting
<1> QED
  BY <1>7, <1>8

\* The operation that the socket completes sends the first of the messages.
LEMMA CompleteSendSends ==
  ASSUME IInv, CompleteSend
  PROVE  /\ Alive /\ operations # <<>> /\ operations[1].result = "pending"
         /\ \E result \in Result \ {"pending"} :
              /\ operations' = [operations EXCEPT ![1].result = result]
              /\ CountError(operations[1].message, result)
              /\ IF result = "sent" THEN FirstSent ELSE Kept
         /\ operations' \in Seq(Operations) /\ Len(operations') = 1 /\ operations' # <<>>
         /\ operations'[1].message = operations[1].message
<1>1. Alive
  BY DEF CompleteSend, Alive
<1>2. PICK n \in DOMAIN operations :
        /\ operations[n].result = "pending"
        /\ \E result \in Outcomes(operations[n].message) :
             /\ operations' = [operations EXCEPT ![n].result = result]
             /\ CountError(operations[n].message, result)
             /\ sent' = IF result = "sent" THEN Append(sent, operations[n].message) ELSE sent
  BY DEF CompleteSend
<1>3. operations \in Seq(Operations)
  BY DEF IInv, TypeOK, Operations
<1>4. operations # <<>>
  BY <1>2, <1>3
<1>5. /\ Len(operations) = 1 /\ DOMAIN operations = {1} /\ operations[1] \in Operations
      /\ internal # <<>> /\ operations[1].message = Head(internal)
      /\ Unsent \in Seq(Message) /\ Pending(input) \in Seq(Message)
  BY <1>1, <1>4, WaitingMessages
<1>6. n = 1
  BY <1>5
<1>7. PICK result \in Outcomes(operations[1].message) :
             /\ operations' = [operations EXCEPT ![1].result = result]
             /\ CountError(operations[1].message, result)
             /\ sent' = IF result = "sent" THEN Append(sent, operations[1].message) ELSE sent
  BY <1>2, <1>6
<1>8. result \in Result \ {"pending"}
  BY DEF Outcomes, Result
<1> DEFINE o == [operations[1] EXCEPT !.result = result]
<1>9. o \in Operations /\ o.result = result /\ o.message = operations[1].message
  BY <1>5, <1>8 DEF Operations
<1>10. operations' = [operations EXCEPT ![1] = o]
  BY <1>7
<1> HIDE DEF o
<1>11. operations' \in Seq(Operations) /\ Len(operations') = 1 /\ operations'[1] = o
  <2>1. 1 \in 1 .. Len(operations) /\ o \in Operations
    BY <1>5, <1>9
  <2>2. /\ [operations EXCEPT ![1] = o] \in Seq(Operations)
        /\ Len([operations EXCEPT ![1] = o]) = Len(operations)
        /\ [operations EXCEPT ![1] = o][1] = o
    BY <1>3, <2>1, ExceptSeq
  <2> QED
    BY <1>5, <1>10, <2>2
<1>12. operations' # <<>>
  BY <1>11, EmptySeq
<1>13. internal' = internal /\ input' = input /\ internal \in Seq(Message)
  BY DEF CompleteSend, IInv, TypeOK
<1>14. Unsent = internal
  BY <1>2, <1>6 DEF Unsent
<1>15. CASE result = "sent"
  <2>1. Unsent' = Tail(internal)
    BY <1>9, <1>11, <1>12, <1>13, <1>15 DEF Unsent
  <2>2. /\ Waiting # <<>> /\ Head(Waiting) = Head(internal)
        /\ Waiting' = Tail(Waiting) /\ Head(internal) \in Message
    BY <1>5, <1>13, <1>14, <2>1, FirstOfConcatenation, HeadAndTail DEF Waiting
  <2> QED
    BY <1>1, <1>2, <1>4, <1>5, <1>6, <1>7, <1>8, <1>9, <1>11, <1>12, <1>15, <2>2 DEF FirstSent
<1>16. CASE result # "sent"
  <2>1. Unsent' = Unsent
    BY <1>9, <1>11, <1>12, <1>13, <1>14, <1>16 DEF Unsent
  <2>2. Kept
    BY <1>7, <1>13, <1>16, <2>1 DEF Kept, Waiting
  <2> QED
    BY <1>1, <1>2, <1>4, <1>6, <1>7, <1>8, <1>9, <1>11, <1>12, <1>16, <2>2
<1> QED
  BY <1>15, <1>16

\* process() starts an operation for the first message if none is under way.
LEMMA StartKeeps ==
  ASSUME IInv, StartIfIdle
  PROVE  /\ Kept /\ operations' \in Seq(Operations)
         /\ (operations' # <<>>) = (internal # <<>>)
         /\ operations' # <<>> =>
              Len(operations') = 1 /\ operations'[1].message = Head(internal)
<1>1. /\ internal \in Seq(Message) /\ operations \in Seq(Operations) /\ Alive
      /\ (operations # <<>>) = transmissionPending
  BY DEF IInv, TypeOK, Operations, OnePending, StartIfIdle, Alive
<1>2. /\ internal' = internal /\ input' = input /\ sent' = sent
      /\ operations' = IF internal # <<>> /\ ~ transmissionPending
                       THEN Append(operations, Operation(Head(internal))) ELSE operations
  BY DEF StartIfIdle, historyVars
<1>3. operations # <<>> =>
        Len(operations) = 1 /\ internal # <<>> /\ operations[1].message = Head(internal)
  BY <1>1, WaitingMessages
<1>4. CASE internal # <<>> /\ ~ transmissionPending
  <2> DEFINE o == Operation(Head(internal))
  <2>1. o \in Operations /\ o.message = Head(internal) /\ o.result = "pending"
    BY <1>1, <1>4, HeadAndTail DEF Operation, Operations, Result
  <2> HIDE DEF o
  <2>2. operations = <<>>
    BY <1>1, <1>4
  <2>3. operations' = <<o>>
    BY <1>2, <1>4, <2>1, <2>2 DEF o
  <2>4. /\ operations' \in Seq(Operations) /\ Len(operations') = 1
        /\ operations'[1] = o /\ operations' # <<>>
    BY <2>1, <2>3
  <2>5. Unsent' = Unsent
    BY <1>2, <2>1, <2>2, <2>4 DEF Unsent
  <2> QED
    BY <1>2, <1>4, <2>1, <2>4, <2>5 DEF Kept, Waiting
<1>5. CASE ~ (internal # <<>> /\ ~ transmissionPending)
  <2>1. operations' = operations
    BY <1>2, <1>5
  <2>2. Kept
    BY <1>2, <2>1 DEF Kept, Waiting, Unsent
  <2> QED
    BY <1>1, <1>3, <1>5, <2>1, <2>2
<1> QED
  BY <1>4, <1>5

\* The handler removes the message that has been sent and starts the next operation.
LEMMA FinishKeeps ==
  ASSUME IInv, FinishHandler, operations[1].result # "short"
  PROVE  /\ Kept /\ Alive /\ audio # "fill" /\ program' = program
         /\ internal' \in Seq(Message) /\ operations' \in Seq(Operations)
         /\ (operations' # <<>>) = (internal' # <<>>)
         /\ operations' # <<>> =>
              Len(operations') = 1 /\ operations'[1].message = Head(internal')
<1>1. /\ Alive /\ operations # <<>> /\ operations[1].result = "sent"
      /\ internal \in Seq(Message)
  BY DEF IInv, TypeOK, HandlerInOperation, FinishHandler
<1>2. internal # <<>> /\ Tail(operations) = <<>>
  BY <1>1, WaitingMessages
<1>3. /\ internal' = Tail(internal) /\ operations' = <<>> \o NextOperation
      /\ program' = program /\ audio # "fill" /\ input' = input /\ sent' = sent
  BY <1>2 DEF FinishHandler, historyVars, MutexFree
<1>4. /\ internal' \in Seq(Message) /\ Len(internal') = Len(internal) - 1
      /\ \A i \in 1 .. Len(internal') : internal'[i] = internal[i + 1]
      /\ Len(internal) \in Nat \ {0}
  BY <1>1, <1>2, <1>3, HeadAndTail
<1>5. CASE Len(internal) > 1
  <2> DEFINE o == Operation(internal[2])
  <2>1. internal' # <<>> /\ Head(internal') = internal[2]
    <3>1. Len(internal') # 0 /\ 1 \in 1 .. Len(internal') /\ 1 + 1 = 2
      BY <1>4, <1>5
    <3>2. internal' # <<>>
      BY <1>4, <3>1, EmptySeq
    <3>3. Head(internal') = internal'[1]
      BY <1>4, <3>2, HeadAndTail
    <3> QED
      BY <1>4, <3>1, <3>2, <3>3
  <2>2. internal[2] \in Message
    BY <1>1, <1>4, <1>5, ElementOfSeq
  <2>3. o \in Operations /\ o.message = internal[2] /\ o.result = "pending"
    BY <2>2 DEF Operation, Operations, Result
  <2>4. NextOperation = <<o>>
    BY <1>5 DEF NextOperation
  <2> HIDE DEF o
  <2>5. <<o>> \in Seq(Operations)
    BY <2>3
  <2>6. operations' = <<o>>
    BY <1>3, <2>4, <2>5, ConcatEmptySeq
  <2>7. /\ operations' \in Seq(Operations) /\ Len(operations') = 1
        /\ operations'[1] = o /\ operations' # <<>>
    BY <2>3, <2>6
  <2>8. Unsent' = Unsent
    BY <1>1, <1>3, <2>3, <2>7 DEF Unsent
  <2> QED
    BY <1>1, <1>3, <1>4, <2>1, <2>3, <2>7, <2>8 DEF Kept, Waiting
<1>6. CASE ~ Len(internal) > 1
  <2>1. NextOperation = <<>> /\ Len(internal') = 0
    BY <1>4, <1>6 DEF NextOperation
  <2>2. internal' = <<>>
    BY <1>4, <2>1, EmptySeq
  <2>3. operations' = <<>>
    BY <1>3, <2>1
  <2>4. Unsent' = Unsent
    BY <1>1, <1>3, <2>3 DEF Unsent
  <2> QED
    BY <1>1, <1>3, <1>4, <2>2, <2>3, <2>4 DEF Kept, Waiting
<1> QED
  BY <1>5, <1>6

\* No message is lost from the count.
LEMMA Accounting ==
  ASSUME IInv, Alive
  PROVE  /\ Kept \/ FirstSent =>
              /\ sent' \in Seq(Message)
              /\ Len(sent') + Len(Waiting') = Len(sent) + Len(Waiting)
         /\ \A m \in Message : Added(m) =>
              /\ sent' \in Seq(Message)
              /\ Len(sent') + Len(Waiting') = Len(sent) + Len(Waiting) + 1
<1>1. /\ Waiting \in Seq(Message) /\ Len(Waiting) \in Nat
      /\ sent \in Seq(Message) /\ Len(sent) \in Nat
  BY WaitingMessages DEF IInv, TypeOK
<1>2. ASSUME Kept
      PROVE  sent' \in Seq(Message) /\ Len(sent') + Len(Waiting') = Len(sent) + Len(Waiting)
  BY <1>1, <1>2 DEF Kept
<1>3. ASSUME FirstSent
      PROVE  sent' \in Seq(Message) /\ Len(sent') + Len(Waiting') = Len(sent) + Len(Waiting)
  <2>1. Len(Waiting') = Len(Waiting) - 1
    BY <1>1, <1>3, HeadAndTail DEF FirstSent
  <2>2. sent' \in Seq(Message) /\ Len(sent') = Len(sent) + 1
    BY <1>1, <1>3, AppendProperties DEF FirstSent
  <2> QED
    BY <1>1, <2>1, <2>2
<1>4. ASSUME NEW m \in Message, Added(m)
      PROVE  /\ sent' \in Seq(Message)
             /\ Len(sent') + Len(Waiting') = Len(sent) + Len(Waiting) + 1
  <2>1. Len(Waiting') = Len(Waiting) + 1
    BY <1>1, <1>4, AppendProperties DEF Added
  <2> QED
    BY <1>1, <1>4, <2>1 DEF Added
<1> QED
  BY <1>2, <1>3, <1>4

\* The invariant holds initially.
LEMMA InitInvariant == Init => IInv
<1> SUFFICES ASSUME Init
             PROVE  IInv
  OBVIOUS
<1>1. /\ mode \in Modes /\ input = <<>> /\ internal = <<>> /\ operations = <<>>
      /\ handler = "idle" /\ audio = "idle" /\ transmissionPending = FALSE
      /\ program = "running" /\ sent = <<>> /\ submitted = 0 /\ errors = 0
  BY DEF Init, EmptyQueue
<1>2. Pending(input) = <<>>
  <2>1. input \in Seq(Message) /\ Len(input) = 0
    BY <1>1, EmptySeq
  <2>2. Pending(input) \in Seq(Message) /\ Len(Pending(input)) = 0
    BY <2>1, PendingOfQueue
  <2> QED
    BY <2>2, EmptySeq
<1>3. Len(sent) + Len(Waiting) = submitted
  BY <1>1, <1>2 DEF Waiting, Unsent
<1>4. TypeOK
  <2>1. /\ input \in Seq(Message) /\ internal \in Seq(Message) /\ sent \in Seq(Message)
        /\ operations \in Seq([message : Message, result : Result])
    BY <1>1, EmptySeq
  <2>2. submitted \in 0 .. MaxMessages /\ errors \in 0 .. MaxErrors
    BY <1>1, SenderAssumption
  <2> QED
    BY <1>1, <1>3, <2>1, <2>2 DEF TypeOK
<1>5. OnePending /\ HandlerInOperation /\ NothingInternal
  BY <1>1 DEF OnePending, HandlerInOperation, NothingInternal
<1> QED
  BY <1>4, <1>5 DEF IInv

\* Every step keeps the invariant.
LEMMA StepInvariant == IInv /\ [Next]_vars => IInv'
<1> SUFFICES ASSUME IInv, [Next]_vars
             PROVE  IInv'
  OBVIOUS
<1>1. CASE Submit
  <2>1. PICK m \in Message :
          Added(m) /\ input' = Enqueue(input, m) /\ Enqueue(input, m) \in Seq(Message)
    BY <1>1, SubmitAdds
  <2>2. /\ program = "running" /\ submitted < MaxMessages /\ submitted' = submitted + 1
        /\ UNCHANGED <<mode, internal, operations, handler, audio, transmissionPending, program,
                       sent, errors>>
    BY <1>1 DEF Submit
  <2>3. sent' \in Seq(Message) /\ Len(sent') + Len(Waiting') = submitted + 1
    BY <2>1, <2>2, Accounting DEF Alive, IInv, TypeOK
  <2>4. TypeOK'
    BY <2>1, <2>2, <2>3, SenderAssumption DEF IInv, TypeOK
  <2> QED
    BY <2>2, <2>4 DEF IInv, OnePending, HandlerInOperation, NothingInternal, Alive
<1>2. CASE BeginProcess
  <2>1. /\ program = "running" /\ audio = "idle"
        /\ audio' = IF mode = "Synchronous" THEN "send" ELSE "fill"
        /\ transmissionPending' = (internal # <<>>)
        /\ UNCHANGED <<mode, input, internal, operations, handler, program,
                       sent, submitted, errors>>
    BY <1>2 DEF BeginProcess, historyVars
  <2>2. Waiting' = Waiting
    BY <2>1 DEF Waiting, Unsent
  <2>3. TypeOK'
    BY <2>1, <2>2 DEF IInv, TypeOK
  <2> QED
    BY <2>1, <2>3 DEF IInv, OnePending, HandlerInOperation, NothingInternal, Alive
<1>3. CASE SendNext
  <2>1. /\ input' \in Seq(Message) /\ (FirstSent \/ Kept) /\ audio' \in {"send", "idle"}
    BY <1>3, SendNextSends
  <2>2. /\ program = "running" /\ audio = "send"
        /\ UNCHANGED <<mode, internal, operations, handler, transmissionPending, program,
                       submitted>>
    BY <1>3 DEF SendNext
  <2>3. errors' \in 0 .. MaxErrors
    BY <1>3, SenderAssumption DEF IInv, TypeOK, SendNext, Outcomes, CountError
  <2>4. sent' \in Seq(Message) /\ Len(sent') + Len(Waiting') = submitted
    BY <2>1, <2>2, Accounting DEF Alive, IInv, TypeOK
  <2>5. mode = "Synchronous"
    BY <2>2 DEF IInv, TypeOK
  <2>6. TypeOK'
    BY <2>1, <2>2, <2>3, <2>4, <2>5 DEF IInv, TypeOK
  <2> QED
    BY <2>1, <2>2, <2>6 DEF IInv, OnePending, HandlerInOperation, NothingInternal, Alive
<1>4. CASE EndSend
  <2>1. /\ program = "running" /\ audio = "send" /\ audio' = "idle"
        /\ UNCHANGED <<mode, input, internal, operations, handler, transmissionPending, program,
                       sent, submitted, errors>>
    BY <1>4 DEF EndSend, historyVars
  <2>2. Waiting' = Waiting
    BY <2>1 DEF Waiting, Unsent
  <2>3. TypeOK'
    BY <2>1, <2>2 DEF IInv, TypeOK
  <2> QED
    BY <2>1, <2>3 DEF IInv, OnePending, HandlerInOperation, NothingInternal, Alive
<1>5. CASE MoveMessage
  <2>1. /\ Kept
        /\ internal' \in Seq(Message) /\ input' \in Seq(Message) /\ internal' # <<>>
        /\ internal # <<>> => Head(internal') = Head(internal)
    BY <1>5, MoveKeeps
  <2>2. /\ program = "running" /\ audio = "fill"
        /\ UNCHANGED <<mode, operations, handler, audio, transmissionPending, program,
                       sent, submitted, errors>>
    BY <1>5 DEF MoveMessage, historyVars
  <2>3. TypeOK'
    BY <2>1, <2>2 DEF IInv, TypeOK, Kept
  <2>4. mode # "Synchronous"
    BY <2>2 DEF IInv, TypeOK
  <2>5. OnePending'
    BY <2>1, <2>2 DEF IInv, OnePending
  <2> QED
    BY <2>2, <2>3, <2>4, <2>5 DEF IInv, HandlerInOperation, NothingInternal, Alive
<1>6. CASE StartIfIdle
  <2>1. /\ Kept /\ operations' \in Seq(Operations)
        /\ (operations' # <<>>) = (internal # <<>>)
        /\ operations' # <<>> =>
             Len(operations') = 1 /\ operations'[1].message = Head(internal)
    BY <1>6, StartKeeps
  <2>2. /\ program = "running" /\ audio = "fill" /\ audio' = "idle"
        /\ UNCHANGED <<mode, input, internal, handler, transmissionPending, program,
                       sent, submitted, errors>>
    BY <1>6 DEF StartIfIdle, historyVars
  <2>3. TypeOK'
    BY <2>1, <2>2 DEF IInv, TypeOK, Kept, Operations
  <2>4. mode # "Synchronous"
    BY <2>2 DEF IInv, TypeOK
  <2>5. OnePending'
    BY <2>1, <2>2 DEF OnePending
  <2>6. HandlerInOperation'
    <3>1. operations # <<>> => operations' = operations
      BY <1>6 DEF IInv, OnePending, StartIfIdle
    <3> QED
      BY <2>2, <3>1 DEF IInv, HandlerInOperation, Alive
  <2> QED
    BY <2>2, <2>3, <2>4, <2>5, <2>6 DEF IInv, NothingInternal
<1>7. CASE CompleteSend
  <2>1. /\ operations # <<>> /\ operations[1].result = "pending"
        /\ operations' \in Seq(Operations) /\ Len(operations') = 1 /\ operations' # <<>>
        /\ operations'[1].message = operations[1].message
        /\ Alive /\ (Kept \/ FirstSent)
    BY <1>7, CompleteSendSends
  <2>2. UNCHANGED <<mode, input, internal, handler, audio, transmissionPending, program, submitted>>
    BY <1>7 DEF CompleteSend
  <2>3. errors' \in 0 .. MaxErrors
    BY <1>7, SenderAssumption DEF IInv, TypeOK, CompleteSend, Outcomes, CountError
  <2>4. sent' \in Seq(Message) /\ (program = "running" => Len(sent') + Len(Waiting') = submitted)
    BY <2>1, Accounting DEF IInv, TypeOK
  <2>5. TypeOK'
    BY <2>1, <2>2, <2>3, <2>4 DEF IInv, TypeOK, Operations
  <2>6. OnePending'
    BY <2>1, <2>2 DEF IInv, OnePending
  <2> QED
    BY <2>1, <2>2, <2>5, <2>6 DEF IInv, HandlerInOperation, NothingInternal, Alive
<1>8. CASE BeginHandler
  <2>1. /\ program = "running" /\ handler = "idle" /\ operations # <<>>
        /\ operations[1].result # "pending"
        /\ UNCHANGED <<mode, input, internal, operations, audio, transmissionPending,
                       sent, submitted, errors>>
    BY <1>8 DEF BeginHandler, historyVars
  <2>2. \/ operations[1].result = "failed" /\ program' = "terminated" /\ handler' = handler
        \/ operations[1].result # "failed" /\ handler' = "entered" /\ program' = program
    BY <1>8 DEF BeginHandler
  <2>3. Waiting' = Waiting
    BY <2>1 DEF Waiting, Unsent
  <2>4. TypeOK'
    BY <2>1, <2>2, <2>3 DEF IInv, TypeOK
  <2>5. OnePending' /\ NothingInternal'
    BY <2>1, <2>2 DEF IInv, OnePending, NothingInternal
  <2>6. HandlerInOperation'
    <3>1. operations[1].result \in Result
      BY <2>1, WaitingMessages DEF Alive, Operations
    <3> QED
      BY <2>1, <2>2, <3>1 DEF HandlerInOperation, Alive, Result
  <2> QED
    BY <2>4, <2>5, <2>6 DEF IInv
<1>9. CASE FinishHandler
  <2>1. /\ handler = "entered" /\ handler' = "idle"
        /\ UNCHANGED <<mode, input, audio, transmissionPending, sent, submitted, errors>>
    BY <1>9 DEF FinishHandler, historyVars
  <2>2. CASE operations[1].result = "short"
    <3>1. program' = "terminated" /\ internal' = internal /\ operations' = operations
      BY <1>9, <2>2 DEF FinishHandler
    <3>2. TypeOK'
      BY <2>1, <3>1 DEF IInv, TypeOK
    <3> QED
      BY <2>1, <3>1, <3>2 DEF IInv, OnePending, HandlerInOperation, NothingInternal
  <2>3. CASE operations[1].result # "short"
    <3>1. /\ Kept /\ Alive /\ audio # "fill" /\ program' = program
          /\ internal' \in Seq(Message) /\ operations' \in Seq(Operations)
          /\ (operations' # <<>>) = (internal' # <<>>)
          /\ operations' # <<>> =>
               Len(operations') = 1 /\ operations'[1].message = Head(internal')
      BY <1>9, <2>3, FinishKeeps
    <3>2. TypeOK'
      BY <2>1, <3>1 DEF IInv, TypeOK, Kept, Operations
    <3>3. mode # "Synchronous"
      BY <2>1 DEF IInv, HandlerInOperation, NothingInternal
    <3>4. OnePending'
      BY <2>1, <3>1 DEF OnePending
    <3> QED
      BY <2>1, <3>2, <3>3, <3>4 DEF IInv, HandlerInOperation, NothingInternal
  <2> QED
    BY <2>2, <2>3
<1>10. CASE Stop
  <2>1. /\ program = "running" /\ program' = "stopping" /\ audio = "idle"
        /\ UNCHANGED <<mode, input, internal, operations, handler, audio, transmissionPending,
                       sent, submitted, errors>>
    BY <1>10 DEF Stop, historyVars
  <2>2. TypeOK'
    BY <2>1 DEF IInv, TypeOK
  <2> QED
    BY <2>1, <2>2 DEF IInv, OnePending, HandlerInOperation, NothingInternal, Alive
<1>11. CASE Destroy
  <2>1. /\ handler = "idle" /\ program' = "destroyed"
        /\ input' = <<>> /\ internal' = <<>> /\ operations' = <<>>
        /\ UNCHANGED <<mode, handler, audio, transmissionPending, sent, submitted, errors>>
    BY <1>11 DEF Destroy, ThreadEnded, EmptyQueue, historyVars
  <2>2. TypeOK'
    BY <2>1 DEF IInv, TypeOK
  <2> QED
    BY <2>1, <2>2 DEF OnePending, HandlerInOperation, NothingInternal, IInv
<1>12. CASE UNCHANGED vars
  <2>1. Waiting' = Waiting
    BY <1>12 DEF vars, historyVars, Waiting, Unsent
  <2>2. TypeOK'
    BY <1>12, <2>1 DEF vars, historyVars, IInv, TypeOK
  <2> QED
    BY <1>12, <2>2 DEF vars, historyVars, IInv, OnePending, HandlerInOperation, NothingInternal,
                       Alive
<1> QED
  BY <1>1, <1>2, <1>3, <1>4, <1>5, <1>6, <1>7, <1>8, <1>9, <1>10, <1>11, <1>12
  DEF Next, Process, Handler

-----------------------------------------------------------------------------
(* The theorems.                                                           *)

\* The invariant holds in all behaviours of process(), handleSentData() and the
\* destructor.
THEOREM Inductive == Spec => []IInv
BY InitInvariant, StepInvariant, PTL DEF Spec

\* The variables of the sender have their types, and each submitted message is
\* either waiting or sent.
THEOREM TypeCorrect == Spec => []TypeOK
<1>1. IInv => TypeOK
  BY DEF IInv
<1> QED
  BY <1>1, Inductive, PTL

\* process() and handleSentData() together keep exactly one send operation going
\* while there are messages, for the first of them.
THEOREM OneOperationPending == Spec => []OnePending
<1>1. IInv => OnePending
  BY DEF IInv
<1> QED
  BY <1>1, Inductive, PTL

\* No handler runs when the members of the sender are gone.
THEOREM HandlersEndFirst == Spec => []NoHandlerAfterDestruction
<1>1. IInv => NoHandlerAfterDestruction
  BY DEF IInv, TypeOK, HandlerInOperation, NoHandlerAfterDestruction, Alive
<1> QED
  BY <1>1, Inductive, PTL

-----------------------------------------------------------------------------
(* The sender implements MessageLink.                                      *)

\* The link that the sender implements is open as long as the component exists.
LEMMA OpenLink ==
  ASSUME Alive, Alive'
  PROVE  /\ Kept => UNCHANGED Link!linkVars
         /\ FirstSent => Link!Transmit
         /\ \A m \in Message : Added(m) => Link!Submit
  BY DEF Alive, Kept, FirstSent, Added, Link!linkVars, Link!Transmit, Link!Submit

\* When it is gone, nothing happens any more.
LEMMA LinkCloses ==
  ASSUME ~ Alive', sent' = sent
  PROVE  Link!Close
  BY DEF Alive, Link!Close

\* The sender starts with nothing submitted, as the link does.
LEMMA LinkInit == Init => Link!Init
<1> SUFFICES ASSUME Init
             PROVE  Link!Init
  OBVIOUS
<1>1. /\ input = <<>> /\ internal = <<>> /\ operations = <<>> /\ program = "running"
      /\ sent = <<>>
  BY DEF Init, EmptyQueue
<1>2. Pending(input) = <<>>
  <2>1. input \in Seq(Message) /\ Len(input) = 0
    BY <1>1, EmptySeq
  <2>2. Pending(input) \in Seq(Message) /\ Len(Pending(input)) = 0
    BY <2>1, PendingOfQueue
  <2> QED
    BY <2>2, EmptySeq
<1>3. Waiting = <<>>
  BY <1>1, <1>2 DEF Waiting, Unsent
<1> QED
  BY <1>1, <1>3 DEF Link!Init

\* Every step of the sender is a step of the link, or none.
LEMMA LinkStep == IInv /\ [Next]_vars => [Link!Next]_Link!linkVars
<1> SUFFICES ASSUME IInv, [Next]_vars
             PROVE  [Link!Next]_Link!linkVars
  OBVIOUS
<1>1. CASE Submit
  <2>1. Alive /\ Alive'
    BY <1>1 DEF Submit, Alive
  <2> QED
    BY <1>1, <2>1, SubmitAdds, OpenLink DEF Link!Next
<1>2. CASE BeginProcess \/ EndSend
  <2>1. Alive /\ Alive' /\ Kept
    BY <1>2 DEF BeginProcess, EndSend, Alive, Kept, Waiting, Unsent, historyVars
  <2> QED
    BY <2>1, OpenLink
<1>3. CASE SendNext
  <2>1. Alive /\ Alive'
    BY <1>3 DEF SendNext, Alive
  <2> QED
    BY <1>3, <2>1, SendNextSends, OpenLink DEF Link!Next
<1>4. CASE MoveMessage
  <2>1. Alive /\ Alive'
    BY <1>4 DEF MoveMessage, Alive
  <2> QED
    BY <1>4, <2>1, MoveKeeps, OpenLink
<1>5. CASE StartIfIdle
  <2>1. Alive /\ Alive'
    BY <1>5 DEF StartIfIdle, Alive
  <2> QED
    BY <1>5, <2>1, StartKeeps, OpenLink
<1>6. CASE CompleteSend
  <2>1. Alive /\ Alive'
    BY <1>6 DEF CompleteSend, Alive
  <2> QED
    BY <1>6, <2>1, CompleteSendSends, OpenLink DEF Link!Next
<1>7. CASE BeginHandler
  <2>1. /\ Alive /\ Kept
        /\ program' = program \/ program' = "terminated"
    BY <1>7 DEF BeginHandler, Alive, Kept, Waiting, Unsent, historyVars
  <2>2. CASE program' = program
    BY <2>1, <2>2, OpenLink DEF Alive
  <2>3. CASE program' = "terminated"
    BY <2>1, <2>3, LinkCloses DEF Alive, Kept, Link!Next
  <2> QED
    BY <2>1, <2>2, <2>3
<1>8. CASE FinishHandler
  <2>1. CASE operations[1].result = "short"
    <3>1. ~ Alive' /\ sent' = sent
      BY <1>8, <2>1 DEF FinishHandler, Alive, historyVars
    <3> QED
      BY <3>1, LinkCloses DEF Link!Next
  <2>2. CASE operations[1].result # "short"
    <3>1. Kept /\ Alive /\ program' = program
      BY <1>8, <2>2, FinishKeeps
    <3> QED
      BY <3>1, OpenLink DEF Alive
  <2> QED
    BY <2>1, <2>2
<1>9. CASE Stop
  <2>1. Alive /\ Alive' /\ Kept
    BY <1>9 DEF Stop, Alive, Kept, Waiting, Unsent, historyVars
  <2> QED
    BY <2>1, OpenLink
<1>10. CASE Destroy
  <2>1. ~ Alive' /\ sent' = sent
    BY <1>10 DEF Destroy, Alive, historyVars
  <2> QED
    BY <2>1, LinkCloses DEF Link!Next
<1>11. CASE UNCHANGED vars
  BY <1>11 DEF vars, historyVars, Waiting, Unsent, Link!linkVars
<1> QED
  BY <1>1, <1>2, <1>3, <1>4, <1>5, <1>6, <1>7, <1>8, <1>9, <1>10, <1>11
  DEF Next, Process, Handler

\* In every behaviour of the sender, each message goes out at most once, in the
\* order in which process() found them in the queue, and none is skipped.
THEOREM LinkImplemented == Spec => InOrderOnce
BY LinkInit, LinkStep, Inductive, PTL DEF Spec, InOrderOnce, Link!Spec

=============================================================================
