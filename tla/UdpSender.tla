----------------------------- MODULE UdpSender ------------------------------
(***************************************************************************)
(* rcl::UdpSender: messages that other components have put into a message  *)
(* queue leave the renderer as datagrams.  In synchronous mode process()   *)
(* sends them; in asynchronous mode it moves them to a queue of the sender *)
(* and a service thread sends them in a chain of asynchronous operations:  *)
(* the completion handler of one starts the next one.                      *)
(***************************************************************************)
EXTENDS Naturals, MessageQueueProtocol

CONSTANTS
  Message,      \* the messages to be sent
  TooLong,      \* those that do not fit into a datagram: sending them always fails
  Modes,        \* the modes of operation to consider
  MaxMessages,  \* bound: the number of messages submitted
  MaxErrors     \* bound: the number of other send operations that fail

ASSUME SenderAssumption ==
  /\ TooLong \subseteq Message /\ Modes \subseteq {"Synchronous", "Asynchronous"}
  /\ MaxMessages \in Nat /\ MaxErrors \in Nat

VARIABLES
  mode,                 \* mMode
  input,                \* the message queue connected to messageInput
  internal,             \* mInternalMessageBuffer
  operations,           \* the asynchronous operations: what they send and their result
  handler,              \* the service thread: in handleSentData() or not
  audio,                \* the audio thread: in process() or not
  transmissionPending,  \* local variable of process()
  program,              \* whether the component exists, is being destroyed, or the
                        \* whole program has been terminated
  sent,                 \* history: the messages that have gone out whole
  submitted,            \* history: the number of messages put into the queue
  errors                \* history: the number of operations that failed by chance

historyVars == <<sent, submitted, errors>>
vars == <<mode, input, internal, operations, handler, audio, transmissionPending, program,
          historyVars>>

Result == {"pending", "sent", "failed", "short"}
Operation(m) == [message |-> m, result |-> "pending"]

\* The messages are in the queue or the internal buffer, except for the one whose
\* transmission the handler has not noticed yet.
Unsent ==
  IF operations # <<>> /\ operations[1].result = "sent" THEN Tail(internal) ELSE internal

Waiting == Unsent \o Pending(input)

Init ==
  /\ mode \in Modes
  /\ input = EmptyQueue /\ internal = <<>> /\ operations = <<>>
  /\ handler = "idle" /\ audio = "idle" /\ transmissionPending = FALSE
  /\ program = "running"
  /\ sent = <<>> /\ submitted = 0 /\ errors = 0

-----------------------------------------------------------------------------
(* The audio thread.  The components that run before the sender, or the     *)
(* host between two periods, put messages into the queue.                  *)

Submit ==
  /\ program = "running" /\ audio = "idle"
  /\ submitted < MaxMessages
  /\ \E m \in Message : input' = Enqueue(input, m)
  /\ submitted' = submitted + 1
  /\ UNCHANGED <<mode, internal, operations, handler, audio, transmissionPending, program, sent,
                 errors>>

\* In asynchronous mode process() takes the mutex.
BeginProcess ==
  /\ program = "running" /\ audio = "idle"
  /\ audio' = IF mode = "Synchronous" THEN "send" ELSE "fill"
  /\ transmissionPending' = (internal # <<>>)
  /\ UNCHANGED <<mode, input, internal, operations, handler, program, historyVars>>

\* How a send operation may end.
Outcomes(m) ==
  IF m \in TooLong THEN {"failed"}
  ELSE {"sent"} \cup (IF errors < MaxErrors THEN {"failed", "short"} ELSE {})

CountError(m, result) ==
  errors' = IF result = "sent" \/ m \in TooLong THEN errors ELSE errors + 1

\* mutant: the message is popped although it has not been sent
FailedSendDrops == audio' = "idle" /\ input' = PopNextElement(input) /\ UNCHANGED sent

\* process() throws, with the message still in the queue.
FailedSend == audio' = "idle" /\ UNCHANGED <<sent, input>>

SendNext ==
  /\ program = "running" /\ audio = "send" /\ input # EmptyQueue
  /\ LET m == NextElement(input)
     IN \E result \in Outcomes(m) :
          /\ CountError(m, result)
          /\ IF result = "sent"
             THEN sent' = Append(sent, m) /\ input' = PopNextElement(input) /\ audio' = audio
             ELSE FailedSend
  /\ UNCHANGED <<mode, internal, operations, handler, transmissionPending, program, submitted>>

EndSend ==
  /\ program = "running" /\ audio = "send" /\ input = EmptyQueue
  /\ audio' = "idle"
  /\ UNCHANGED <<mode, input, internal, operations, handler, transmissionPending, program,
                 historyVars>>

MoveMessage ==
  /\ program = "running" /\ audio = "fill" /\ input # EmptyQueue
  /\ internal' = Append(internal, NextElement(input))
  /\ input' = PopNextElement(input)
  /\ UNCHANGED <<mode, operations, handler, audio, transmissionPending, program, historyVars>>

\* mutant: an operation is started whenever there is a message
StartAlways ==
  /\ program = "running" /\ audio = "fill" /\ input = EmptyQueue
  /\ operations' = IF internal # <<>>
                   THEN Append(operations, Operation(Head(internal))) ELSE operations
  /\ audio' = "idle"
  /\ UNCHANGED <<mode, input, internal, handler, transmissionPending, program, historyVars>>

\* process() starts an operation if there was nothing to send before, and releases
\* the mutex.
StartIfIdle ==
  /\ program = "running" /\ audio = "fill" /\ input = EmptyQueue
  /\ operations' = IF internal # <<>> /\ ~ transmissionPending
                   THEN Append(operations, Operation(Head(internal))) ELSE operations
  /\ audio' = "idle"
  /\ UNCHANGED <<mode, input, internal, handler, transmissionPending, program, historyVars>>

-----------------------------------------------------------------------------
(* The network and the service thread.                                     *)

\* The socket performs its operations one after the other.
CompleteSend ==
  /\ program \in {"running", "stopping"}
  /\ \E n \in DOMAIN operations :
       /\ operations[n].result = "pending"
       /\ \A k \in 1 .. n - 1 : operations[k].result # "pending"
       /\ \E result \in Outcomes(operations[n].message) :
            /\ operations' = [operations EXCEPT ![n].result = result]
            /\ CountError(operations[n].message, result)
            /\ sent' = IF result = "sent" THEN Append(sent, operations[n].message) ELSE sent
  /\ UNCHANGED <<mode, input, internal, handler, audio, transmissionPending, program, submitted>>

\* handleSentData() looks at the error code before it takes the mutex.  Its
\* exception leaves io_service::run() and the thread, which ends the program.
BeginHandler ==
  /\ program = "running" /\ handler = "idle"
  /\ operations # <<>> /\ operations[1].result # "pending"
  /\ IF operations[1].result = "failed"
     THEN program' = "terminated" /\ UNCHANGED handler
     ELSE handler' = "entered" /\ UNCHANGED program
  /\ UNCHANGED <<mode, input, internal, operations, audio, transmissionPending, historyVars>>

\* mutant: the handler does not take the mutex
MutexIgnored == TRUE

MutexFree == audio # "fill"

NoNextOperation == <<>>   \* mutant: the chain ends after each message

\* The operation started by the handler, for what is behind the first message.
NextOperation ==
  IF Len(internal) > 1 THEN <<Operation(internal[2])>> ELSE <<>>

FinishHandler ==
  /\ program \in {"running", "stopping", "destroyed"}
  /\ handler = "entered" /\ MutexFree
  /\ IF operations[1].result = "short"
     THEN program' = "terminated" /\ UNCHANGED <<internal, operations>>
     ELSE /\ internal' = Tail(internal)
          /\ operations' = Tail(operations) \o NextOperation
          /\ UNCHANGED program
  /\ handler' = "idle"
  /\ UNCHANGED <<mode, input, audio, transmissionPending, historyVars>>

-----------------------------------------------------------------------------
(* The destructor stops the io_service, after which no handler begins, and  *)
(* waits for the thread.                                                   *)

Stop ==
  /\ program = "running" /\ audio = "idle"
  /\ program' = "stopping"
  /\ UNCHANGED <<mode, input, internal, operations, handler, audio, transmissionPending,
                 historyVars>>

ThreadLeft == TRUE   \* mutant: the destructor does not join the thread

ThreadEnded == handler = "idle"

\* The members are destroyed; operations of the socket are cancelled.
Destroy ==
  /\ program = "stopping" /\ ThreadEnded
  /\ program' = "destroyed"
  /\ input' = EmptyQueue /\ internal' = <<>> /\ operations' = <<>>
  /\ UNCHANGED <<mode, handler, audio, transmissionPending, historyVars>>

Process == BeginProcess \/ SendNext \/ EndSend \/ MoveMessage \/ StartIfIdle
Handler == BeginHandler \/ FinishHandler

Next == Submit \/ Process \/ CompleteSend \/ Handler \/ Stop \/ Destroy

\* The host calls process() again and again, the socket completes its operations
\* and the service thread runs the handlers; process() holds the mutex for moments
\* only, so that a handler waiting for it gets it between two periods.  Nobody has
\* to submit anything or to destroy the component.
Spec == Init /\ [][Next]_vars
  /\ WF_vars(Process) /\ WF_vars(CompleteSend) /\ SF_vars(Handler) /\ WF_vars(Destroy)

-----------------------------------------------------------------------------
(* The variables have their types, and every message is accounted for as    *)
(* long as the component exists.                                           *)
TypeOK ==
  /\ mode \in Modes
  /\ input \in Seq(Message) /\ internal \in Seq(Message)
  /\ operations \in Seq([message : Message, result : Result])
  /\ handler \in {"idle", "entered"}
  /\ audio \in {"idle"} \cup (IF mode = "Synchronous" THEN {"send"} ELSE {"fill"})
  /\ transmissionPending \in BOOLEAN
  /\ program \in {"running", "stopping", "destroyed", "terminated"}
  /\ sent \in Seq(Message)
  /\ program = "running" => Len(sent) + Len(Waiting) = submitted
  /\ submitted \in 0 .. MaxMessages /\ errors \in 0 .. MaxErrors

\* process() and handleSentData() both start send operations.  Whenever neither of
\* them holds the mutex there is exactly one operation while there are messages in
\* the internal buffer, and it sends the first of them, which stays where it is
\* until the operation has ended.
OnePending ==
  program \in {"running", "stopping"} =>
    /\ IF audio = "fill"
       THEN (operations # <<>>) = transmissionPending
       ELSE (operations # <<>>) = (internal # <<>>)
    /\ operations # <<>> =>
         Len(operations) = 1 /\ internal # <<>> /\ operations[1].message = Head(internal)

\* The destructor does not pull the buffer away from under a handler.
NoHandlerAfterDestruction == program = "destroyed" => handler = "idle"

Link == INSTANCE MessageLink WITH
  waiting <- IF program \in {"running", "stopping"} THEN Waiting ELSE <<>>,
  open <- program \in {"running", "stopping"}

\* In both modes, with messages submitted at any time, failing operations and the
\* end of the component, each message goes out at most once and in order, and none
\* is skipped: the sender implements MessageLink.
InOrderOnce == Link!Spec

\* As long as the component exists, each message goes out eventually, after errors
\* too in synchronous mode, unless a message that is too long is ahead of it: that
\* one is tried again in each period.
EventuallySent ==
  \A n \in 1 .. MaxMessages :
    (submitted >= n) ~> \/ Len(sent) >= n
                        \/ program # "running"
                        \/ Waiting # <<>> /\ Head(Waiting) \in TooLong
=============================================================================
