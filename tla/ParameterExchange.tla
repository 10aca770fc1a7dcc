------------------------- MODULE ParameterExchange -------------------------
(***************************************************************************)
(* The run time of a signal flow (librrl, AudioSignalFlow) as far as       *)
(* parameters are concerned.  The audio thread runs the components of the  *)
(* schedule one after the other inside executeComponents(), holding the    *)
(* parameter exchange mutex; a control thread updates the top-level        *)
(* parameter inputs and polls the top-level parameter outputs, holding the *)
(* same mutex.  Every connection is a DoubleBufferingProtocol.             *)
(*                                                                         *)
(* A parameter is a vector with index set Element.  Its content is         *)
(* abstracted to its provenance: the set of versions of the control data   *)
(* it was computed from.  A mixture of two versions in one parameter is a  *)
(* torn value; two parameters of one component that stem from different    *)
(* versions are a glitch.                                                  *)
(***************************************************************************)
EXTENDS Naturals, Sequences, DoubleBufferingProtocol

CONSTANTS
  Component,     \* the atomic components of the flow
  Control,       \* the owner of the top-level ports, outside the flow
  Connection,    \* the parameter connections
  Sender,        \* Sender[k] is the component at the sending port of k
  Receivers,     \* Receivers[k] is the set of components receiving from k
  Schedule,      \* mProcessingSchedule, a sequence of components
  Element,       \* the index set of a parameter vector
  MaxVersion,    \* bound: the number of updates the control thread makes
  MaxFailures    \* bound: the number of exceptions thrown by components

Owner == Component \cup {Control}

\* The connections a component receives from and sends to.
In(c)  == {k \in Connection : c \in Receivers[k]}
Out(c) == {k \in Connection : Sender[k] = c}

ASSUME FlowAssumption ==
  /\ Control \notin Component
  /\ Element # {}
  /\ Sender \in [Connection -> Owner]
  /\ Receivers \in [Connection -> SUBSET Owner]
  /\ MaxVersion \in Nat
  /\ MaxFailures \in Nat

\* What SchedulingGraph::sequentialSchedule() delivers: every component occurs
\* and a sender precedes its receivers.  Components are driven by parameters.
ASSUME ScheduleAssumption ==
  /\ Schedule \in Seq(Component)
  /\ \A c \in Component : \E i \in DOMAIN Schedule : Schedule[i] = c
  /\ \A k \in Connection : \A i, j \in DOMAIN Schedule :
       Sender[k] = Schedule[i] /\ Schedule[j] \in Receivers[k] => i < j
  /\ \A c \in Component : In(c) # {}
  /\ \A k \in Connection : Sender[k] = Control => Control \notin Receivers[k]

VARIABLES
  protocol,      \* protocol[k]: the DoubleBufferingProtocol of connection k
  held,          \* held[k][r]: the versions receiver r last took over from k
  mutex,         \* holder of mParameterExchangeMutex
  audio,         \* audio thread: where it is in executeComponents()
  position,      \* audio thread: index of the current component
  reading,       \* audio thread: the objects data() returned references to
  control,       \* control thread: whether it is inside a critical section
  unwritten,     \* control thread: vector elements it still has to write
  unswapped,     \* control thread: ports it still has to publish
  version,       \* the number of updates the control thread has started
  failures       \* the number of exceptions so far

audioVars   == <<audio, position, reading>>
controlVars == <<control, unwritten, unswapped, version>>
vars == <<protocol, held, mutex, audioVars, controlVars, failures>>

Version   == 0 .. MaxVersion
Parameter == [Element -> SUBSET Version]

Uniform(versions) == [e \in Element |-> versions]

\* The versions a parameter value stems from.
Provenance(parameter) == UNION {parameter[e] : e \in Element}

TypeOK ==
  /\ \A k \in Connection : protocol[k] \in Protocol(Parameter, Receivers[k])
  /\ DOMAIN protocol = Connection
  /\ held \in [Connection -> [Owner -> SUBSET Version]]
  /\ mutex \in {"free", "audio", "control"}
  /\ audio \in {"idle", "schedule", "process"}
  /\ position \in 1 .. Len(Schedule) + 1
  /\ reading \in [Connection -> BufferId]
  /\ control \in {"idle", "update"}
  /\ unwritten \subseteq Out(Control) \X Element
  /\ unswapped \subseteq Out(Control)
  /\ version \in Version
  /\ failures \in 0 .. MaxFailures

Init ==
  /\ protocol = [k \in Connection |-> NewProtocol(Uniform({0}), Receivers[k])]
  /\ held = [k \in Connection |-> [r \in Owner |-> {0}]]
  /\ mutex = "free"
  /\ audio = "idle"
  /\ position = 1
  /\ reading = [k \in Connection |-> 0]
  /\ control = "idle"
  /\ unwritten = {}
  /\ unswapped = {}
  /\ version = 0
  /\ failures = 0

-----------------------------------------------------------------------------
(* The audio thread: one call of executeComponents().                      *)

Current == Schedule[position]

LockAvailableUnguarded == TRUE   \* mutant: nobody takes the lock

\* The mutex is a std::timed_mutex: lock() waits until nobody holds it.
LockAvailable == mutex = "free"

ChangedInputs(c) == {k \in In(c) : Changed(protocol[k], c)}

BeginCycle ==
  /\ audio = "idle"
  /\ LockAvailable
  /\ mutex' = "audio"
  /\ audio' = "schedule"
  /\ position' = 1
  /\ UNCHANGED <<protocol, held, reading, controlVars, failures>>

\* process() of a component none of whose inputs has changed.
SkipComponent ==
  /\ audio = "schedule"
  /\ position <= Len(Schedule)
  /\ ChangedInputs(Current) = {}
  /\ position' = position + 1
  /\ UNCHANGED <<protocol, held, mutex, audio, reading, controlVars, failures>>

\* process() finds changed inputs and calls data() on them.
EnterComponent ==
  /\ audio = "schedule"
  /\ position <= Len(Schedule)
  /\ ChangedInputs(Current) # {}
  /\ audio' = "process"
  /\ reading' = [k \in Connection |->
                   IF k \in ChangedInputs(Current) THEN InputObject(protocol[k]) ELSE reading[k]]
  /\ UNCHANGED <<protocol, held, mutex, position, controlVars, failures>>

\* process() computes its outputs from the parameters it holds, the ones read
\* now included, publishes them and resets the flags of the inputs it read.
FinishComponent ==
  LET self   == Current
      now    == [k \in Connection |->
                   IF k \in ChangedInputs(self)
                   THEN [held[k] EXCEPT ![self] = Provenance(protocol[k].data[reading[k]])]
                   ELSE held[k]]
      result == Uniform(UNION {now[k][self] : k \in In(self)})
  IN /\ audio = "process"
     /\ held' = now
     /\ protocol' = [k \in Connection |->
          IF Sender[k] = self THEN SwapBuffers(WriteFront(protocol[k], result), FALSE)
          ELSE IF k \in ChangedInputs(self) THEN ResetChanged(protocol[k], self)
          ELSE protocol[k]]
     /\ audio' = "schedule"
     /\ position' = position + 1
     /\ UNCHANGED <<mutex, reading, controlVars, failures>>

\* process() throws before it has reset a flag, with the data() of its outputs
\* untouched or half computed: the rest of the schedule is skipped and the lock
\* guard releases the mutex while the exception leaves.
Abandoned(k, c) ==
  IF Sender[k] = c THEN WriteFront(protocol[k], Uniform({})) ELSE protocol[k]

\* mutant: the exception is caught per component and the schedule goes on
FailComponentGoesOn ==
  /\ failures < MaxFailures
  /\ audio = "schedule"
  /\ position <= Len(Schedule)
  /\ failures' = failures + 1
  /\ position' = position + 1
  /\ UNCHANGED <<protocol, held, mutex, audio, reading, controlVars>>

FailComponent ==
  /\ failures < MaxFailures
  /\ position <= Len(Schedule)
  /\ \/ audio = "schedule" /\ UNCHANGED protocol
     \/ audio = "process" /\ protocol' = [k \in Connection |-> Abandoned(k, Current)]
  /\ failures' = failures + 1
  /\ audio' = "idle"
  /\ mutex' = "free"
  /\ UNCHANGED <<held, position, reading, controlVars>>

EndCycle ==
  /\ audio = "schedule"
  /\ position > Len(Schedule)
  /\ audio' = "idle"
  /\ mutex' = "free"
  /\ UNCHANGED <<protocol, held, position, reading, controlVars, failures>>

-----------------------------------------------------------------------------
(* The control thread: with flow.parameterExchangeMutex(): ...             *)

BeginUpdate ==
  /\ control = "idle"
  /\ LockAvailable
  /\ version < MaxVersion
  /\ mutex' = "control"
  /\ control' = "update"
  /\ version' = version + 1
  /\ unwritten' = Out(Control) \X Element
  /\ unswapped' = Out(Control)
  /\ UNCHANGED <<protocol, held, audioVars, failures>>

\* One element of the vector behind data() of an external output port.
WriteElement(k, e) ==
  /\ control = "update"
  /\ <<k, e>> \in unwritten
  /\ protocol' = [protocol EXCEPT
       ![k] = WriteFront(@, [FrontData(@) EXCEPT ![e] = {version}])]
  /\ unwritten' = unwritten \ {<<k, e>>}
  /\ UNCHANGED <<held, mutex, audioVars, control, unswapped, version, failures>>

\* swapBuffers() on an external output port, once its vector is complete.
Publish(k) ==
  /\ control = "update"
  /\ k \in unswapped
  /\ \A e \in Element : <<k, e>> \notin unwritten
  /\ protocol' = [protocol EXCEPT ![k] = SwapBuffers(@, FALSE)]
  /\ unswapped' = unswapped \ {k}
  /\ UNCHANGED <<held, mutex, audioVars, control, unwritten, version, failures>>

\* The control thread polls a top-level parameter output.
PollOutput(k) ==
  /\ control = "update"
  /\ Control \in Receivers[k]
  /\ Changed(protocol[k], Control)
  /\ held' = [held EXCEPT ![k][Control] = Provenance(BackData(protocol[k]))]
  /\ protocol' = [protocol EXCEPT ![k] = ResetChanged(@, Control)]
  /\ UNCHANGED <<mutex, audioVars, controlVars, failures>>

EndUpdate ==
  /\ control = "update"
  /\ unswapped = {}
  /\ control' = "idle"
  /\ mutex' = "free"
  /\ UNCHANGED <<protocol, held, audioVars, unwritten, unswapped, version, failures>>

-----------------------------------------------------------------------------
AudioStep ==
  \/ BeginCycle
  \/ SkipComponent
  \/ EnterComponent
  \/ FinishComponent
  \/ FailComponent
  \/ EndCycle

\* What the control thread does once it holds the mutex.
UpdateStep ==
  \/ \E k \in Connection, e \in Element : WriteElement(k, e)
  \/ \E k \in Connection : Publish(k)
  \/ EndUpdate

Next ==
  \/ AudioStep
  \/ BeginUpdate
  \/ UpdateStep
  \/ \E k \in Connection : PollOutput(k)

\* The audio interface calls process() forever, and the holder of the mutex
\* leaves its critical section; nothing obliges the control thread to update.
Fairness ==
  /\ WF_vars(AudioStep)
  /\ WF_vars(UpdateStep)

Spec == Init /\ [][Next]_vars /\ Fairness

-----------------------------------------------------------------------------
\* A receiver whose changed() is false has taken over the very value the back
\* object holds: no swapBuffers() is ever missed, whatever components threw.
NoLostUpdate ==
  \A k \in Connection : \A r \in Receivers[k] :
    ~ Changed(protocol[k], r) => held[k][r] = Provenance(BackData(protocol[k]))

\* All parameters a component works with stem from one and the same update of
\* the control thread, although they arrive over paths of different lengths,
\* are written element by element, and cycles may be cut short by exceptions.
GlitchFree ==
  \A c \in Component : \E v \in Version : \A k \in In(c) : held[k][c] = {v}

\* Whenever a component takes over a parameter it is of the latest version:
\* the values cross the whole flow within one cycle, and none ever returns.
AlwaysLatest ==
  [][\A k \in Connection : \A c \in Component :
       held'[k][c] # held[k][c] => held'[k][c] = {version}]_vars

-----------------------------------------------------------------------------
(* The inductive invariant behind the safety properties.                   *)

\* Each thread holds the mutex exactly while it is in its critical section.
MutexHeld ==
  /\ audio # "idle" <=> mutex = "audio"
  /\ control # "idle" <=> mutex = "control"

\* Outside a critical section of the control thread all top-level inputs carry
\* the latest version; inside, those already published do, and so do the
\* elements already written.
ControlPublished ==
  \A k \in Out(Control) :
    /\ k \notin unswapped => BackData(protocol[k]) = Uniform({version})
    /\ k \in unswapped =>
         \A e \in Element : <<k, e>> \notin unwritten => FrontData(protocol[k])[e] = {version}

UpdateIdle == control = "idle" => unswapped = {}

\* A component has published what it computed from the parameters it holds.
OutputsMatch ==
  \A c \in Component : \A k \in Out(c) :
    BackData(protocol[k]) = Uniform(UNION {held[j][c] : j \in In(c)})

UpToDate(c) == \A k \in In(c) : held[k][c] = {version}

\* During a cycle, the components before the current one have caught up.
CaughtUp ==
  audio # "idle" => \A i \in DOMAIN Schedule : i < position => UpToDate(Schedule[i])

\* A component between data() and resetChanged() has a changed input, and its
\* references denote the objects that are still the back ones.
ReadingBack ==
  audio = "process" =>
    /\ position \in DOMAIN Schedule
    /\ \A k \in ChangedInputs(Current) : reading[k] = BackObject(protocol[k])

IInv ==
  /\ TypeOK
  /\ MutexHeld
  /\ NoLostUpdate
  /\ GlitchFree
  /\ ControlPublished
  /\ UpdateIdle
  /\ OutputsMatch
  /\ CaughtUp
  /\ ReadingBack

-----------------------------------------------------------------------------
\* Every update reaches every component, or is superseded by a later one.
EventuallyRendered ==
  \A n \in 1 .. MaxVersion :
    version = n ~> \A c \in Component : \A k \in In(c) : \E v \in n .. MaxVersion : held[k][c] = {v}
=============================================================================
