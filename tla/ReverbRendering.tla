-------------------------- MODULE ReverbRendering ---------------------------
(***************************************************************************)
(* The parameter part of reverbobject::ReverbObjectRenderer.  In each      *)
(* period the ReverbParameterCalculator allocates rendering channels to    *)
(* the reverberant objects of the scene, publishes the routing of signals  *)
(* to channels and enqueues the late reverberation of each channel where   *)
(* it has changed; the LateReverbFilterCalculator turns a limited number   *)
(* of these messages into filters for the convolver.                       *)
(***************************************************************************)
EXTENDS ObjectChannelAllocator, DoubleBufferingProtocol, MessageQueueProtocol

CONSTANTS
  LateReverb,      \* values of the late reverberation parameters
  DefaultReverb,   \* cDefaultLateReverbParameter: silence
  Unset,           \* no parameter that an object can have
  Signals,         \* the input signals, of the indices below the width of the input
  Sources,         \* the states in which each of the objects may be as a reverberant one
  MaxUpdates,      \* mMaxUpdatesPerIteration
  MaxChanges       \* bound: the number of changes of the scene

\* A reverberant object may have more channels or reflections than are admitted, or the
\* index of a signal that does not exist.
Source == [late : LateReverb, input : Nat, channels : Nat, tooManyReflections : BOOLEAN]

ASSUME ReverbAssumption ==
  /\ DefaultReverb \in LateReverb /\ Unset \notin LateReverb
  /\ \A id \in ObjectId : Sources[id] \subseteq Source /\ \A s \in Sources[id] : s.channels >= 1
  /\ MaxUpdates \in Nat \ {0} /\ MaxChannels > 0 /\ MaxChanges \in Nat

VARIABLES
  objects,       \* objectInput: the reverberant objects of the scene
  stage,         \* what runs: the components in turn, or "idle" between two periods
  channel,       \* chIdx of the loop in ReverbParameterCalculator::process()
  previous,      \* mPreviousLateReverbs
  routing,       \* the connection signalRoutingOut - controlInput
  subbands,      \* the message queue lateSubbandOut - subbandInput
  updates,       \* objCnt of LateReverbFilterCalculator::process()
  newFilters,    \* the message queue lateFilterOutput - filterInput
  routings,      \* SignalRouting::mRoutings: the signal of each routed channel
  filters,       \* the filters of the convolver
  completed,     \* history: a period has ended without an exception, and the
                 \* scene is still the same
  changes        \* history: the number of changes of the scene

calculatorVars == <<channel, previous, subbands>>
filterVars == <<updates, newFilters, filters>>
historyVars == <<completed, changes>>
vars == <<allocatorVars, objects, stage, calculatorVars, routing, filterVars, routings,
          historyVars>>

NoRoutings == <<>>
FirstChannel == 0

Init ==
  /\ AllocatorInit
  /\ objects = <<>> /\ stage = "idle" /\ channel = FirstChannel
  /\ previous = [ch \in Channel |-> Unset]
  /\ routing = NewProtocol(NoRoutings, {"controlInput"})
  /\ subbands = EmptyQueue /\ updates = 0 /\ newFilters = EmptyQueue
  /\ routings = NoRoutings
  /\ filters = [ch \in Channel |-> Unset]
  /\ completed = FALSE /\ changes = 0

-----------------------------------------------------------------------------
(* Between two periods, the scene.  An object comes or goes as a            *)
(* reverberant one when its type is changed.                                *)

ChangeObject ==
  /\ stage = "idle" /\ changes < MaxChanges
  /\ \E id \in ObjectId : \E s \in Sources[id] :
       objects' = [i \in DOMAIN objects \cup {id} |-> IF i = id THEN s ELSE objects[i]]
  /\ changes' = changes + 1 /\ completed' = FALSE
  /\ UNCHANGED <<allocatorVars, stage, calculatorVars, routing, filterVars, routings>>

RemoveObject ==
  /\ stage = "idle" /\ changes < MaxChanges
  /\ \E id \in DOMAIN objects : objects' = Restrict(objects, DOMAIN objects \ {id})
  /\ changes' = changes + 1 /\ completed' = FALSE
  /\ UNCHANGED <<allocatorVars, stage, calculatorVars, routing, filterVars, routings>>

-----------------------------------------------------------------------------
(* ReverbParameterCalculator::process()                                     *)

\* status() throws for an object with several channels; so does process() itself
\* for too many objects.
SceneRefused ==
  \/ \E id \in DOMAIN objects : objects[id].channels # 1
  \/ Cardinality(DOMAIN objects) > MaxChannels

\* The exception leaves the schedule: no other component runs in this period.
Throw == stage' = "idle"

BeginPeriod ==
  /\ stage = "idle"
  /\ IF SceneRefused
     THEN Throw /\ UNCHANGED allocatorVars
     ELSE SetObjects(DOMAIN objects) /\ stage' = "calculator"
  /\ channel' = FirstChannel /\ completed' = FALSE
  /\ UNCHANGED <<changes, objects, previous, subbands, routing, filterVars, routings>>

Allocate ==
  /\ stage = "calculator" /\ AllocatorStep
  /\ UNCHANGED <<objects, stage, calculatorVars, routing, filterVars, routings, historyVars>>

\* addRouting() replaces what was routed to the channel.
AddRouting(map, input, ch) ==
  [c \in DOMAIN map \cup {ch} |-> IF c = ch THEN input ELSE map[c]]

RemoveEntryKept(map, ch) == map   \* mutant: the routing of a free channel stays

RemoveEntry(map, ch) == Restrict(map, DOMAIN map \ {ch})

\* mutant: the change is recorded but not sent
UpdateLateReverbSilently(ch, late) ==
  previous' = [previous EXCEPT ![ch] = late] /\ UNCHANGED subbands

\* The late reverberation is sent if it differs from what was sent last.
UpdateLateReverb(ch, late) ==
  IF late = previous[ch] THEN UNCHANGED <<previous, subbands>>
  ELSE /\ previous' = [previous EXCEPT ![ch] = late]
       /\ subbands' = Enqueue(subbands, [channel |-> ch, late |-> late])

\* After the last channel the outputs are swapped.
NextChannel(newRoutings) ==
  LET written == WriteFront(routing, newRoutings)
  IN IF channel + 1 < MaxChannels
     THEN channel' = channel + 1 /\ routing' = written /\ UNCHANGED stage
     ELSE /\ channel' = FirstChannel /\ routing' = SwapBuffers(written, FALSE)
          /\ stage' = "routing"

ClearChannel ==
  LET id == GetObjectForChannel(channel)
  IN /\ id = NoObject
     /\ NextChannel(RemoveEntry(FrontData(routing), channel))
     /\ UpdateLateReverb(channel, DefaultReverb)

\* processSingleObject() throws if there are too many reflections; the new routing is
\* in the output then but not published.
ProcessObject ==
  LET id == GetObjectForChannel(channel)
      source == objects[id]
      added == AddRouting(FrontData(routing), source.input, channel)
  IN /\ id # NoObject
     /\ IF source.tooManyReflections
        THEN /\ routing' = WriteFront(routing, added)
             /\ Throw /\ channel' = FirstChannel /\ UNCHANGED <<previous, subbands>>
        ELSE /\ NextChannel(added)
             /\ UpdateLateReverb(channel, source.late)

CalculateChannel ==
  /\ stage = "calculator" /\ pass = "none"
  /\ ClearChannel \/ ProcessObject
  /\ UNCHANGED <<allocatorVars, objects, filterVars, routings, historyVars>>

-----------------------------------------------------------------------------
(* SignalRouting, LateReverbFilterCalculator and the convolver              *)

\* New routings are taken over as a whole or, if one of them is invalid, not at all.
RouteSignals ==
  LET new == BackData(routing)
  IN /\ stage = "routing"
     /\ routings' = IF Changed(routing, "controlInput") /\ Range(new) \subseteq Signals
                    THEN new ELSE routings
     /\ routing' = ResetChanged(routing, "controlInput")
     /\ stage' = "filters" /\ updates' = 0
     /\ UNCHANGED <<allocatorVars, objects, calculatorVars, newFilters, filters, historyVars>>

\* The filter of a message is written as the parameters it is computed from.
CalculateFilter ==
  /\ stage = "filters" /\ subbands # EmptyQueue /\ updates < MaxUpdates
  /\ newFilters' = Enqueue(newFilters, NextElement(subbands))
  /\ subbands' = PopNextElement(subbands)
  /\ updates' = updates + 1
  /\ UNCHANGED <<allocatorVars, objects, stage, channel, previous, routing, filters, routings,
                 historyVars>>

SubbandsCleared == EmptyQueue   \* mutant: the queue is cleared at the limit

SubbandsLeft == subbands

EndFilters ==
  /\ stage = "filters" /\ (subbands = EmptyQueue \/ updates = MaxUpdates)
  /\ subbands' = SubbandsLeft
  /\ stage' = "convolver" /\ updates' = 0
  /\ UNCHANGED <<allocatorVars, objects, channel, previous, routing, newFilters, filters,
                 routings, historyVars>>

\* mutant: the first one prevails
FirstFilter(messages, ch, filter) ==
  LET ofChannel == {n \in DOMAIN messages : messages[n].channel = ch}
  IN IF ofChannel = {} THEN filter ELSE messages[Min(ofChannel)].late

\* The last one of the messages for a channel prevails over the filter in use.
LatestFilter(messages, ch, filter) ==
  LET ofChannel == {n \in DOMAIN messages : messages[n].channel = ch}
  IN IF ofChannel = {} THEN filter ELSE messages[Max(ofChannel)].late

\* The convolver takes all filters that are in the queue.
SetFilters ==
  /\ stage = "convolver"
  /\ filters' = [ch \in Channel |-> LatestFilter(Pending(newFilters), ch, filters[ch])]
  /\ newFilters' = EmptyQueue
  /\ stage' = "idle" /\ completed' = TRUE
  /\ UNCHANGED <<allocatorVars, objects, calculatorVars, routing, updates, routings, changes>>

Period == BeginPeriod \/ Allocate \/ CalculateChannel \/ RouteSignals
            \/ CalculateFilter \/ EndFilters \/ SetFilters

Next == ChangeObject \/ RemoveObject \/ Period

\* The host calls process() again and again, after exceptions too.
Spec == Init /\ [][Next]_vars /\ WF_vars(Period)

-----------------------------------------------------------------------------
Message == [channel : Channel, late : LateReverb]

Input == { s.input : s \in UNION { Sources[id] : id \in ObjectId } }

\* The signals that are routed to some of the channels.
Routing == UNION { [used -> Input] : used \in SUBSET Channel }

\* The variables have their types.
TypeOK ==
  /\ DOMAIN lookup \subseteq ObjectId /\ lookup \in [DOMAIN lookup -> Channel]
  /\ unused \in Seq(Channel)
  /\ sortedIds \in Seq(ObjectId)
  /\ pass \in {"none", "remove", "insert"} /\ idIt \in 1 .. Len(sortedIds) + 1
  /\ lookupIt \in DOMAIN lookup \cup {End}
  /\ DOMAIN objects \subseteq ObjectId /\ \A id \in DOMAIN objects : objects[id] \in Sources[id]
  /\ stage \in {"idle", "calculator", "routing", "filters", "convolver"}
  /\ channel \in Channel
  /\ previous \in [Channel -> LateReverb \cup {Unset}]
  /\ subbands \in Seq(Message) /\ newFilters \in Seq(Message)
  /\ updates \in 0 .. MaxUpdates
  /\ routing \in Protocol(Routing, {"controlInput"}) /\ routings \in Routing
  /\ filters \in [Channel -> LateReverb \cup {Unset}]
  /\ completed \in BOOLEAN /\ changes \in 0 .. MaxChanges

\* The assertion of object_channel_allocator.cpp that no channel is lost, in a
\* stronger form: each one is on the stack of free channels once or in use by one
\* object.
ChannelsAccounted ==
  /\ IsInjective(lookup) /\ IsInjective(unused)
  /\ Range(lookup) \cap Range(unused) = {}
  /\ Range(lookup) \cup Range(unused) = Channel

\* setObjects() gives a channel to each requested object and never takes it away from
\* one that stays, although it works on a map and a stack that change under its
\* iterators: the allocator implements ChannelAllocation.
AllocationIsStable == Allocation!Spec

\* What the calculator remembers as sent to a channel is what its filter will be when
\* all messages that are under way have been processed.  A limit of updates in a
\* period, an exception halfway through the channels or a channel that changes hands
\* must not lose or reorder a message: the calculator would not send it again.
NoUpdateLost ==
  \A ch \in Channel :
    previous[ch] = LatestFilter(Pending(newFilters) \o Pending(subbands), ch, filters[ch])

\* After a period without an exception, signals are routed to the channels of their
\* objects and nowhere else, although the calculator writes to the two routing tables
\* in turn and starts from what it left there two periods ago or before an
\* exception.  If an object has an invalid input, the routing is left alone.
RoutedAsAllocated ==
  completed /\ (\A id \in DOMAIN objects : objects[id].input \in Signals) =>
    /\ DOMAIN lookup = DOMAIN objects
    /\ routings = [ch \in Range(lookup) |-> objects[GetObjectForChannel(ch)].input]

\* After such a period, each channel has the filter of the object on it, or silence,
\* unless a message that corrects this is under way.
ReverbOfItsObject ==
  completed =>
    \A ch \in Channel :
      \/ \E n \in DOMAIN subbands : subbands[n].channel = ch
      \/ LET id == GetObjectForChannel(ch)
         IN filters[ch] = IF id = NoObject THEN DefaultReverb ELSE objects[id].late

\* All objects can be rendered.
SceneValid ==
  /\ ~ SceneRefused
  /\ \A id \in DOMAIN objects : objects[id].input \in Signals /\ ~ objects[id].tooManyReflections

Rendered ==
  /\ DOMAIN lookup = DOMAIN objects
  /\ \A id \in DOMAIN objects :
       LET ch == lookup[id]
       IN ch \in DOMAIN routings /\ routings[ch] = objects[id].input /\ filters[ch] = objects[id].late

\* If the scene is valid from some time on, all its objects are rendered from some
\* time on, whatever scenes and exceptions there were before, and with the updates
\* limited to a few per period.
EventuallyAllRendered == <>[] SceneValid => <>[] Rendered
=============================================================================
