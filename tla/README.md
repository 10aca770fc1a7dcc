# A TLA+ model of the VISR framework

VISR renders spatial audio. A *signal flow* is a tree of components; atomic
components exchange audio samples and parameters over ports. The run-time
library turns a flow into a flat list of components that an audio callback
executes once per period. Metadata arrives from the network, control programs
(Python, Max/MSP, applications) change parameters from other threads, and hosts
call the flow with periods of their own.

This directory models the parts of the framework whose correctness depends on
order: which thread does what first, which component runs before which, which
of two buffers a reference denotes, how many frames are in which buffer. The
source paths below are relative to `src/src/`.

## 1. Inventory

| component | state | operations | interacts with | what is hard | what makes it correct |
|---|---|---|---|---|---|
| `libpml` double buffering | two objects, a change flag per receiver | `data`, `swapBuffers`, `changed`, `resetChanged` | sender and receivers in one flow, control threads at top-level ports | references outlive the swap | a change is seen by every receiver, once, complete |
| `libpml` message queue | a deque | `enqueue`, `front`, `pop`, `empty` | network components, decoders | unbounded | first in, first out |
| `librrl` AudioSignalFlow | schedule, protocols, mutex, audio buffers, profiler | construction, `process`, external ports | everything | two threads, exceptions in the middle of a cycle | updates are neither lost nor mixed, all within one cycle |
| `librrl` SchedulingGraph | dependency graph | `initialise`, `sequentialSchedule` | AudioSignalFlow | hierarchical flows, loops, order of the search depends on addresses | senders first, every component once, loops refused |
| `librrl` connection maps, integrity checks | maps of ports | flatten a hierarchy, check | AudioSignalFlow | placeholder ports, several senders | the flat connections are those of the hierarchy |
| `librrl` FlexibleBufferWrapper | two circular buffers and levels | `process` | host, AudioSignalFlow | any sequence of call sizes, memory layouts, exceptions | a delay of one period |
| `librrl` RuntimeProfiler | statistics, two buffers | `finishIteration`, `get...` | audio thread, control thread | reading while measuring | no measurement lost or torn |
| `librbbl` CircularBuffer, delay line | ring kept twice, write head | `write`, `commitWrite`, read pointers | wrapper, `DelayVector` | wraparound | a read returns the latest columns in order |
| `librcl` UdpReceiver | receive buffer, internal buffer, mutex | `process`, completion handler | socket, service thread, queue | handler concurrent with `process` | every datagram once, in order |
| `librcl` UdpSender | internal buffer, mutex | `process`, completion handler | socket, service thread, queue | one operation pending at a time, errors | every message once, in order |
| `librcl` SceneDecoder, object vector parser | reference to the object vector | `process` | queue, double buffer | a swap inside the loop, broken messages | the renderer sees the decoded scene |
| `librcl` panning, routing, decoders | held parameters | `process` | double buffers | order of reset and publication | outputs correspond to inputs |
| `librcl` gain, delay, filter processing | interpolation counters and targets | `process`, `setGain`, `setDelay` | parameters, delay line | new target during a transition | no jump, target reached |
| `librbbl` ObjectChannelAllocator | lookup, free channels | `setObjects` | routing | merge of two sorted sequences | one channel per object, kept while it lives |
| `libaudiointerfaces` | client, ports, callback | start, stop, register | sound server threads | callbacks during start and stop | no callback without ports |
| `libvisr` | components and ports | registration | all | - | names unique, ports found |
| `libreverbobject` parameter calculation | allocation, what was sent to each channel, routing, two queues | `process` of three components | scene, routing, filters | limited updates, exceptions halfway, two routing tables in turn | each object is heard through its own channel, with its own reverberation |
| `libefl`, `librbbl`, `libpanning`, `libreverbobject` kernels | filter states, coefficients | arithmetic | - | numerical accuracy | not a question for TLC |

`PROJECT.json` lists every component with its status, and under "hazards" the
places where the code is hard to test, with the property that watches each.

## 2. Modules

| module | models | composed of |
|---|---|---|
| `DoubleBufferingProtocol` | a double-buffered connection as a record and its operations as functions | |
| `MessageQueueProtocol` | a queued connection as a sequence | |
| `ParameterExchange` | audio thread, control thread, mutex and all connections of a flow | `DoubleBufferingProtocol` |
| `ParameterExchangeProofs` | its theorems | |
| `SceneReception` | socket, UdpReceiver, SceneDecoder, PanningCalculator | both protocols |
| `SceneReceptionProofs` | its theorems | |
| `CircularBuffer` | the ring with its shadow | |
| `PeriodDelay` | abstract: what a flexible buffer promises | |
| `FlexibleBufferWrapper` | the wrapper, its host and its flow; refines `PeriodDelay` | `CircularBuffer`, `PeriodDelay` |
| `FlexibleBufferWrapperProofs` | its theorems, those about the ring first | |
| `ProcessingOrders` | the orders of components that dependencies admit | |
| `ComponentSchedule` | abstract: what a scheduling graph promises | `ProcessingOrders` |
| `SchedulingGraph` | construction of the graph, check, search, schedule; refines `ComponentSchedule` | `ComponentSchedule` |
| `SchedulingGraphProofs` | its theorems | |
| `ConnectionMaps` | checks of the registered connections and their flattening | |
| `AudioBuffers` | memory for the audio ports, routing components in front of them | `ConnectionMaps` |
| `FlowConstruction` | the constructor of a flow from connections to schedule, and `process()` on the result | `AudioBuffers`, `ProcessingOrders` |
| `FlowConstructionProofs` | its theorems, with those about the two modules it extends | |
| `MessageLink` | abstract: what a sender of messages promises | |
| `UdpSender` | UdpSender, socket, service thread, destruction; refines `MessageLink` | `MessageQueueProtocol`, `MessageLink` |
| `UdpSenderProofs` | its theorems | |
| `ChannelAllocation` | abstract: what an allocator of channels promises | |
| `ObjectChannelAllocator` | `setObjects()` step by step | |
| `ReverbRendering` | the parameter components of ReverbObjectRenderer; its allocator refines `ChannelAllocation` | `ObjectChannelAllocator`, both protocols, `ChannelAllocation` |
| `ReverbRenderingProofs` | its theorems and those about the allocator | |
| `DelayVector` | the transitions of gains and delays of one channel | |
| `CommonProofs` | facts about sequences, message queues and sets of numbers for the proofs | |
| `MC...` | instances for TLC | |

### ParameterExchange

`protocol[k]` is the protocol instance of connection `k`; `held[k][r]` is what
receiver `r` took over from it. The *content* of a parameter is the set of
versions of the control data it was computed from, per vector element: a torn
value has elements of two versions, a glitch is a component that holds
parameters of two versions. Audio thread: `BeginCycle` (take the mutex in
`executeComponents`), then per component of the schedule `SkipComponent` or
`EnterComponent` (`changed()`, `data()`) and `FinishComponent` (compute, write
`data()`, `resetChanged()`, `swapBuffers()`), `EndCycle`; `FailComponent` is an
exception. Control thread: `BeginUpdate` (enter the guard), `WriteElement`,
`Publish`, `PollOutput`, `EndUpdate`.

The components follow the pattern of `ListenerCompensation::process()`:
everything that can throw comes before the flags are reset and the buffers
swapped. An output vector that an exception leaves half computed is arbitrary
(`Abandoned`). A control thread that enters the guard updates all top-level
inputs; this is how a program that wants consistent parameters uses the guard,
and it is what `GlitchFree` is about. A program that updates one input at a time
loses only this property by its own choice.

The flow enters as constants. `ScheduleAssumption` is what `SchedulingGraph`
delivers (`ValidSchedule` there), so the two modules compose: one proves what
the other assumes.

### SceneReception

A datagram is the part of the scene it sets and whether it parses. The receive
operation is `armed`, `completed` (the datagram is in `mReceiveBuffer`, the
handler waits to run or for the mutex) or `stored` (the handler has stored the
message and not yet started the next operation). The network may lose,
duplicate and reorder datagrams, so any sequence may arrive; an operation may
fail. In synchronous mode handlers run inside `poll()` on the audio thread, in
asynchronous mode at any time. The decoder keeps the identity of the object its
reference denotes (`objects`), which is what the C++ reference does.
The `mMutex` section of the handler is one step; `process()` holds the mutex
from `PollReturns` or `BeginCycle` to `EnterDecoder`.

### FlexibleBufferWrapper

A sample is a pair of channel and frame number, so that the stream shows where
each frame went. The flow passes its block on, which makes the delay visible;
what it computes is irrelevant to the buffering. Host memory is a function from
addresses to samples, with the two usual layouts as strides; the overload for
arrays of pointers is the planar layout. `OnePeriodLatency` is the refinement of
`PeriodDelay`: `played` there is the history variable `played` here, and every
step of the loop is a step of the abstract delay or a stutter. `played` stops
growing at the first exception, because what the host hears in a call that threw
is not defined; `FedInOrder` takes over from there.

### SchedulingGraph

`connections` and `parameters` are chosen in `Init` from the pairs of the
instance, so that one run covers all graphs. `Initialise` builds the edges as
`initialise()` does, the artificial source and sink included. The depth-first
search of the Boost Graph Library is external: `DiscoverRoot`, `Discover`,
`FindBackEdge` and `Finish` take vertices and edges in any order, because the
code's order depends on a map keyed by addresses. The result of the check is
computed in one step (`CheckAcyclicGraph`), since nothing is kept of that search
but whether it met a back edge. A flow that is a single atomic component has a
schedule of one and needs no graph; it is left out.

`ComponentSchedule` is what the constructor expects of the graph, as one step: it
delivers one of the orders that the dependencies admit (`Orders` in
`ProcessingOrders`), or refuses, if there is none. `OrderIfPossible` is the
refinement, and `InitialiseSchedule` of FlowConstruction takes that step, with the
same `Orders`, in place of the graph: the two modules compose. The abstract
dependencies are the connections between atomic components.

### ConnectionMaps, AudioBuffers, FlowConstruction

A flow is the hierarchy of components, which is constant, and a record of what
they have registered, which `Init` chooses from the flows of the instance: the
connection tables of each composite with the number of registrations, the sample
types and the protocols. The constructor goes through `phase`: check
(`CheckConnectionIntegrity`), audio and parameter connections
(`resolvePlaceholders()`, one connection of the walk per step, in any order),
memory (`offsets`, one port per step, per sample type), parameter protocols,
schedule; any of them may reject the flow. Ports of composites other than the top
level are placeholders. Because a receive channel has one sender per level, the
walk of an audio connection goes back from the receiver; for parameters the code
does the same although the checks admit several senders, and the protocol objects
refuse them later.

The order of ports of one kind depends on addresses in the code and is left open.
A channel takes `ChannelSamples` samples with its padding, a sample `SampleSize`
units of memory. The constructor gives a port its base address and its stride in
samples (`BufferConfig`), and the port turns the stride into an address with the size
of its own samples (`StrideBytes`), which need not be that of its senders: the check
for equal types does not work (run SampleTypesCheck). A sample that a port reads as
another type is lost (`Load`). The claims about memory and samples are therefore about
signals between ports of the same type. The schedule is any that
`SchedulingGraph` may deliver, and the order of the parameter protocols, which
cannot make a difference, is not modelled. The code takes the top-level ports to have
the standard sample type when it copies samples from and to the host (a comment in
`initialiseAudioConnections()` says so); the model stores a sample of the type of the
port. `process()` is followed to the memory: a sample is the channel that produced it
and the period; it is stored at, and read from, the address that the constructor has
assigned. That is where an error of flattening, offset, routing or order would show
(`FreshInputs`).

### UdpSender

`operations` are the asynchronous send operations, each with its result; there
should be at most one, but the model admits several. The completion handler
examines the error code without the mutex (`BeginHandler`), and an exception there
leaves `io_service::run()` and ends the program. The rest of the handler is one
section of the mutex (`FinishHandler`); `process()` holds it from `BeginProcess` to
`StartIfIdle` and moves the queue message by message. A message is its identity: that
it is cut at its first zero byte on the way (`c_str()`) is not modelled. The destructor is modelled
with its two steps, `stop()` and `join()`. `InOrderOnce` is a refinement:
`MessageLink` has the messages that wait and the messages that have gone out, and
can only send the first one, or end.

### ReverbRendering

The allocator's `setObjects()` is a merge of the sorted object identifiers with
an ordered map, once to remove and once to insert; each iteration is a step, with
the iterators as variables, because they move through containers that change.
`ChannelAllocation` is what callers expect of it.

The stages `calculator`, `routing`, `filters`, `convolver` are the components in
the order of the schedule. Scene changes happen between periods. An object is
refused in four ways, at four places: too many channels or too many objects
before anything has happened, too many reflections halfway through the channels,
an invalid signal index when the routing is taken over. A filter is written as
the late reverberation parameters it is computed from. The discrete reflections are
written in full in each period and keep nothing, and are left out.

### DelayVector

One channel, with its gain and its delay as two transitions that a period may
both interrupt. Units are chosen so that the interpolated values are integers.

## 3. What the runs check

| run | property | what it says |
|---|---|---|
| ParameterExchange | `NoLostUpdate` | a receiver without its flag set holds what the back object holds |
| | `GlitchFree` | a component never works with two versions, over paths of different lengths and after exceptions |
| | `AlwaysLatest` | what is taken over is the latest version: one cycle through the whole flow, no value returns |
| | `EventuallyRendered` | every update reaches every component or is superseded |
| SceneReception | `InOrderExactlyOnce` | every datagram is in exactly one place, in order |
| | `QueueDrained` | no message stays in the queue from one cycle to the next |
| | `LoneMessageVisible` | a well-formed message alone in its cycle is what the renderer works with |
| | `NoSilentChange` | the object the renderer looks at never changes without its flag |
| | `EveryDatagramDecoded` | reception survives failures |
| FlexibleBufferWrapper | `OnePeriodLatency` | refinement of `PeriodDelay` |
| | `FedInOrder` | the flow is fed each frame once and in order, exceptions included |
| | `EveryCallReturns` | the loop ends |
| SchedulingGraph | `ValidSchedule` | each component once, senders before receivers |
| | `OnlyLoopsRejected` | a refused flow has a loop |
| | `OrderIfPossible` | refinement of `ComponentSchedule`: an order if there is one, otherwise a refusal |
| | `Decided` | the construction ends |
| FlowConstruction | `SignalsComplete` | the flat audio connections are exactly the chains that were registered |
| | `ParameterSource` | in a flow that runs each parameter input has one sender, along a chain |
| | `BuffersValid` | channels that are written do not overlap; they lie within the pool, as do those read that have the type of their sender |
| | `FreshInputs` | each component reads what its sender, if of the same type, produced in the same period |
| | `RejectedForCause` | a flow is refused only for a defect of its own |
| | `Constructed` | the constructor ends |
| UdpSender | `OnePending` | one operation while there are messages, and it sends the first one |
| | `NoHandlerAfterDestruction` | the destructor waits for the handler |
| | `InOrderOnce` | refinement of `MessageLink` |
| | `EventuallySent` | each message goes out, unless one that never can is ahead |
| ReverbRendering | `ChannelsAccounted` | each channel is free once or used once, within `setObjects()` too |
| | `AllocationIsStable` | refinement of `ChannelAllocation` |
| | `NoUpdateLost` | what the calculator believes sent arrives, in order |
| | `RoutedAsAllocated` | signals are routed to the channels of their objects only |
| | `ReverbOfItsObject` | a channel has the reverberation of the object on it, or a message is on its way |
| | `EventuallyAllRendered` | a valid scene that lasts is rendered, whatever was before |

`TypeOK` is checked in each run. Every property has a mutant: a plausible
mistake in a mapped definition (marked "mutant" in the modules) that TLC shows
to violate it.

Five runs show a disagreement between the code and what it says of itself:

* **SceneDecoderSwap** - `SceneDecoder::process()` obtains its reference to the
  output object before the loop and swaps without copying in the loop. The two
  objects then take the messages in turn: the renderer gets object vectors that
  lack what other messages said. What *does* hold is `LoneMessageVisible` and
  `NoSilentChange`. Senders that repeat the whole scene in every message hide the
  effect.
* **FlexibleBufferStrides** - the output address of the second chunk of a call
  ignores the sample stride. Planar output, which the only caller in the
  repository (the Python binding) uses, is not affected: run FlexibleBufferWrapper.
* **FlexibleBufferException** - an exception of the flow leaves the input level
  at one period, against the assertion at the head of the loop. No input frame
  is lost (`FedInOrder`), the assertion fails in debug builds, and in release
  builds the output level exceeds the buffer.
* **SampleTypesCheck** - the check for equal sample types compares the receiving
  port with itself. A port whose senders are all of one other type is accepted, gets
  their memory, and looks for its second channel where the size of its own samples
  puts it: in the run, in the middle of the first channel of the sender.
* **DelayVectorTransition** - `setGain()` and `setDelay()` compute the value that
  an interrupted transition has reached with the two ends exchanged: a transition
  interrupted after a third of its way continues from two thirds. The header says that
  the new transition starts where the old one was. It takes interpolation over
  several periods to hear it; `ReverbObjectRenderer`, for one, uses a single period.

One more was met while modelling and has no run of its own, because it has no effect
on which flows run: `checkAcyclicGraph()` searches from the artificial source and does
not see loops that nothing leads to, although its header says that it returns whether
the graph is loop-free. The flow is still refused, by `topological_sort()`
(`OrderIfPossible` holds), without the message naming the loop.

### Bounds

* ParameterExchange: a diamond with a short cut and a feedback to the control
  thread, four components, vectors of two elements, three updates and three
  exceptions. Two versions suffice for a mixture and the third for a value that
  returns in the object two swaps ago.
* SceneReception: two objects, two states, three completed receive operations:
  two in one cycle and one in another, or all three, is what the two buffer
  objects can tell apart. The messages: one about both objects, one about the
  first, one that breaks off after the second object, and the empty one. The
  violation run leaves out the broken message, so that its counterexample
  involves well-formed messages only.
* FlexibleBufferWrapper: a period of three, a ring of six, calls of 0 to 5
  frames and 16 frames in all, so that the write heads pass the end of the ring
  twice at different offsets. The two runs that look for violations need only
  14. The end of the input is the end of the behaviour: deadlock is not checked.
* SchedulingGraph: three components and twelve possible connections, all 4096
  subsets, with loops of one, two and three components, audio and parameter
  connections in parallel, components without any. The construction ends, hence
  no deadlock check.
* FlowConstruction: a composite in the top level, an atomic component in each, ports
  of one and two channels in both directions: all complete connections of both
  levels, loops through the composite included, with one sample type and with two (a
  sample of one unit and one of two, two samples to a channel; a signal between ports
  of unequal types among them);
  all parameter connections that use every port, which includes several senders at
  a port; both protocols; and flows with one defect of each kind. Two periods show
  whether memory keeps a sample of the period before. SampleTypesCheck needs one flow,
  with a sender of two channels and a receiver of the other type.
* UdpSender: three messages, one of them too long to be sent, four submitted, two
  random errors; in both modes. Four messages give one in operation, one behind
  it, and two that `process()` adds while the handler waits.
* ReverbRendering: four objects, three channels, two updates per period, five
  changes of the scene. This fills the allocation, exchanges all objects of a full
  allocation, and leaves a backlog of messages, two of them for the same channel.
* DelayVectorTransition: three blocks, values 0 and 27, three changes of each.

### Fairness

* ParameterExchange: weak fairness of the audio thread (the audio interface
  keeps calling) and of a control thread inside its critical section. The
  control thread is never obliged to begin an update. Exceptions are bounded:
  a component that throws in every cycle stops everything behind it. A control
  thread can prevent the audio thread from getting the mutex only finitely
  often, as `MaxVersion` bounds its updates.
* SceneReception: weak fairness of the cycle and of handlers, strong fairness of
  the handler's critical section: the audio thread takes the mutex again and
  again and holds it for a small part of each period. `std` and `boost` mutexes
  promise no order, so this is an assumption about the scheduler. Datagrams need
  not arrive.
* FlexibleBufferWrapper: weak fairness of the loop, none of the host.
* SchedulingGraph: the constructing thread goes on.
* FlowConstruction: the constructor goes on, and so does `process()` once called.
  Nobody has to call it.
* UdpSender: weak fairness of `process()`, the socket and the destructor once
  begun, and strong fairness of the handler, which waits for a mutex that
  `process()` takes in every period and holds for moments. Nobody has to submit a
  message or to destroy the sender. Random errors are bounded.
* ReverbRendering: weak fairness of the audio thread, which the host calls again
  after an exception. The scene may change forever within its bound; the property
  is about a scene that stays.

## 4. What is proved

Every safety property of the passing runs is a theorem, for all values of the
constants that the assumptions admit. Each proof
module has one inductive invariant; it names the parts of it that the properties
alone do not give. TLC checked the invariants on the run of the module before they
were proved.

**ParameterExchangeProofs**, for every flow that satisfies `FlowAssumption` and
`ScheduleAssumption`, every vector size and every number of updates and
exceptions: `TypeCorrect`, `UpdatesNotLost`, `NoGlitches` (invariants) and
`LatestTakenOver` (action property). None of the safety properties is inductive.
The invariant `IInv` adds that a thread holds the mutex exactly while it is in
its critical section (`MutexHeld`), what the control thread has published and
written so far (`ControlPublished`, `UpdateIdle`), that a component's outputs
are computed from what it holds (`OutputsMatch`, which makes an interrupted
cycle harmless: whoever did not run again has not changed its outputs either),
that the components before the current one have caught up (`CaughtUp`), and that
a component between `data()` and `resetChanged()` reads objects that are still
the back ones (`ReadingBack`, which is what the mutex is for). The central lemma
is `InputsLatest`: within a cycle, every input of the current component carries
the latest version, because its sender is the control thread, which is outside
its critical section, or an earlier component, which has caught up.

**SceneReceptionProofs**, for any messages and objects, any number of datagrams and
both modes: `TypeCorrectness`, `DatagramsInOrder`, `QueueEmptied`, `ChangesAnnounced`
and `LoneMessageShown`. `DatagramsInOrder` is inductive by itself, given the types:
each operation moves the boundary between two neighbours in the sequence of places
(`Forwarded`, `Stored`, `Taken`) and leaves the sequence of datagrams alone. The other
properties speak of the end of a cycle, so the invariant says what leads there: the
queue is not empty only while it is being emptied (`QueueInCycle`); the decoder's
reference denotes its own object until the first swap of the cycle, and after a swap
the renderer's flag is set (`ReferenceOrFlag`); what a lone message says is in the
object it was decoded into until the renderer takes it over (`LonePublished`). The
second clause of `ReferenceOrFlag` is as far as the decoder's stale reference allows
one to go: for the second message of a cycle nothing of the kind holds (run
SceneDecoderSwap).

**FlexibleBufferWrapperProofs**, for any period and number of channels, any sizes and
layouts of calls and any number of exceptions: `TypeCorrectness` and `EveryFrameFedOnce`.
For planar output, `DelayedByOnePeriod` is the refinement of `PeriodDelay`; with
interleaved output the code violates it (run FlexibleBufferStrides), so the theorem has
the layouts as its hypothesis. `AssertionsWithoutFailures`: the assertions hold as
long as no exception occurs, after which they may fail (run FlexibleBufferException).
The proofs rest on lemmas about `CircularBuffer` for any length: the two halves of a
row agree (`RingOK`), a write moves the latest columns back by its length (`Written`)
and a read returns the latest ones, oldest first (`ReadBack`). In the invariant, the
last columns of the two rings are the captured frames not yet fed (`InputInv`) and
the delayed frames not yet played (`OutputInv`), the levels add up to a period
(`LevelInv`; after an exception only an inequality is left, which is what
`EveryFrameFedOnce` needs), and the host's memory holds the stream from the position
where the call began (`CallInv`, `PlaybackInv`).

**SchedulingGraphProofs**, for every set of components, all connections and every
order of the search: `TypeCorrect` and `SchedulesAreValid`. The invariant: a
vertex is finished after everything that depends on it (`DependentsFirst`),
vertices are discovered and finished once (`Once`), and the schedule is the
reverse of the finished ones (`ReverseOrder`). `RejectionsAreJustified`
(`OnlyLoopsRejected`) needs, on top of it, `LoopInv`: the vertices under
discovery are a path (`PathOnStack`), so that a back edge closes a cycle
(`BackEdgeIsLoop`); a cycle of the dependency graph, which has no edge into the
source and none out of the sink, is a loop of components (`CycleIsLoop`); and
the test of the number of sorted vertices never fails (`AllSorted`).
`ScheduleImplemented` (`OrderIfPossible`) puts the two together to the refinement of
`ComponentSchedule`: what is delivered is one of the orders of the components
(`ValidIsOrder`), and where there is a loop no order exists, because the last of the
components on the loop in an order would have another one after it (`LoopHasNoOrder`;
this needs a finite number of components, which `GraphAssumption` says).

**FlowConstructionProofs**, for every hierarchy of components with finitely many ports
(`HierarchyAssumption`, which also says that what is registered connects ports that
exist; `ConnectionAssumption`: and that a connection is a pair), any sample types with
any sizes of samples and channels, and every order of ports and walks:

* `TypeCorrect`;
* `SignalsKept` (`SignalsComplete`) and `OneParameterSource` (`ParameterSource`). The
  invariant of the walks, `MapInv`: the ports on a walk are a chain of connections
  (`Trail`) from its receiver back to where it is; whatever reaches that place is the
  only thing that reaches the receiver (`Sourced` for audio, since the checks admit
  one sender per channel and level; for parameters only `Reaches`); and no receiver is
  forgotten (`AudioCovered`, `ParameterCovered`). That a chain exists means that each
  set of placeholders closed under connections is passed through; this is the
  definition `Reaches` of the property, and `ReachedThrough` and `ReachedOnlyThrough`
  are its rules for one step forward and back. Parameter ports with one registered
  connection get one direct one (`ParameterOnce`);
* `MemoryApart` (`BuffersValid`). `BufferInv` keeps, for each sample type, that the
  sending ports placed so far share the channels 0 to n - 1 of the pool without gap or
  overlap (`LaidOut`), that a receiving port that has been placed reads at the offsets
  of its senders, or behind a routing component that does (`Received`), and that the
  pool has as many bytes as the channels of the sample types done (`PoolOK`). The
  size of a union of disjoint sets does the rest: `AssignBuffers` finds the
  size of the pool that the first loop has counted, so that its check of the size never
  fails (`BuffersAssigned`), and the place of a channel in the pool of its type is an
  address at which it meets no other (`PlacesApart`, `OccupiedApart`). That the stride
  of a port in samples leads to this place needs the port to have the type of the loop
  that placed it, as every sending port has (`TypeOfPort`) and a receiving port only if
  the types agree, which is why the theorem says nothing of the others;
* `SamplesOfThisPeriod` (`FreshInputs`), which puts everything together for the signals
  between ports of the same type. `MemoryOK`:
  the channels whose component has run in this period, routing components included,
  hold what they should pass on (`Origin`) from this period. A component stores only to
  channels of its own, which nobody else's addresses meet (`AddressesDiffer`,
  `StoredApart`), and what it finds there has its own type (`LoadedFromSender`); what it reads is the memory of its sender or of a routing
  component, with a final connection from there (`ConnectionsWired`), and the schedule
  puts the other end of that connection before it (`SendersRan`);
* `OnlyDefectsRejected` (`RejectedForCause`). What has been registered never changes, so
  a defect stays one (`DefectsUnchanged`); for each step that rejects there is a lemma
  that finds the defect in the flow. A check of a composite fails by a defect of the
  composite (`IntegrityCause`). A walk of an audio connection fails only on a loop of
  placeholders, which the trail of the walk contains (`AudioWalkCause`); a walk of a
  parameter connection that is longer than the number of entries passes one twice
  (`LongWalk`, by the pigeonhole principle), so that there is a loop of placeholders
  (`ParameterWalkCause`). Unequal sample types are those of two signals of the input
  (`SampleTypeCause`), and what the protocol objects refuse is a second sender of a
  parameter input or a second receiver of a message queue (`ProtocolCause`). The last
  step rejects a flow for which no schedule exists (`ScheduleCause`): if there is no
  loop, the longest beginning of an order can always be extended, so that a schedule
  exists (`SortedWithoutLoop`); and since a routing component has only the senders of
  the input before it and the input after it, a loop through routing components is
  still one when they are left out (`LoopWithoutRouting`). The remaining step that
  could reject, the check of the size of the pool, never does (`BuffersAssigned`).

**UdpSenderProofs**, for every set of messages, in both modes: `TypeCorrect`,
`OneOperationPending` and `HandlersEndFirst` (invariants) and `LinkImplemented`,
the refinement of `MessageLink`. To `TypeOK`, which says that each submitted message
is waiting or sent, and `OnePending`, the invariant adds that a handler runs only
for an operation that has ended and while the component exists
(`HandlerInOperation`), and that synchronous mode does not use the internal buffer
(`NothingInternal`). There is a lemma for each operation that says what it does to
the sequence of waiting messages: it leaves the sequence alone (`MoveKeeps`,
`StartKeeps`, `FinishKeeps`), adds a message at its end (`SubmitAdds`) or sends
the first one (`SendNextSends`, `CompleteSendSends`). Both the count of messages
and the refinement follow from them.

**ReverbRenderingProofs**, for any scenes, any number of channels and any limit of
updates per period: `TypeCorrectness`, `AllChannelsAccounted`, `UpdatesArrive`,
`RoutingFollowsAllocation` and `ReverbFollowsObject` (invariants) and `AllocationStable`,
the refinement of `ChannelAllocation`. For the allocator, the two merges of `setObjects()`
have the invariants one would write beside the loops: all ids met so far are behind
the iterator of the map, the keys before it are requested (`RemovePass`), or are
exactly the ids met (`InsertPass`); the lookup table and the stack of unused channels
divide the channels between them (`Accounted`). For the renderer: after the loop of the
calculator, what it believes sent is what the objects ask for (`ChannelsCalculated`,
`Calculated`), and `UpdatesArrive` connects that belief with the convolver through
the two queues. Until the routing has been taken over the published table must be the
one of the objects (`RoutingPublished`), which is why the stale entries of the table
that was published two periods ago matter.

`CommonProofs` has what several of them use: facts about sequences, about the message
queue (`EnqueuedLast`, `NextFirst`, `MovedAcross`) and about least and greatest numbers.

The assumptions on constants are what the code's types and constructors guarantee, and
the bounds of the instances may be any numbers. `AllocatorAssumption` says that
`InvalidObjectId` is greater than all identifiers; in the code it is the greatest value
of the type, `UINT_MAX`, and in the instance for TLC a small number. The model uses it
for the end of the lookup table, too. `RoutingNameAssumption` gives routing components
names of their own; the code appends `_inputrouting` to the name of the port.
`std::sort` is modelled by what it guarantees, a sorted sequence with the same elements.

Only model-checked are:

* liveness (`EventuallyRendered`, `EveryDatagramDecoded`, `EveryCallReturns`,
  `Decided`, `Constructed`, `EventuallySent`, `EventuallyAllRendered`) - the prover
  handles neither liveness under fairness nor `ENABLED`;
* what the runs that expect a violation show, and `DelayVector`, whose one property is
  among these.

No module uses a RECURSIVE operator. One fold of the community modules occurs, in
`DecodedSceneVisible`, which only TLC evaluates; sizes are cardinalities where one
would sum up, since sums are defined by recursion and nothing can be proved of them here.

## 5. What is not modelled, and the plan

Floating-point kernels (filters, transforms, panning, reverberation) are out of
TLC's reach; host wrappers, option parsing and file input are glue; vendored
libraries are no part of the framework. Within the modelled components:

* `RuntimeProfiler` and its replacement while the flow runs, which the hazards
  describe: unsynchronised reads of floating-point statistics.
* The JACK interface and the audio lifecycle (registration, start, stop), and the
  parameter exchange mutex together with Python's interpreter lock.
* Of the delay lines: reading at fractional positions. `GainVector`, a component
  of its own, starts each transition from the target of the one before, whether
  that has been reached or not.
* Of `ReverbObjectRenderer`: the discrete reflections, which are computed anew in
  every period, and the signal processing.
* Connecting and disconnecting of ports when a flow is destroyed.
* The listener position of `PanningCalculator`.

Next, in this order:

1. A module for the lifecycle of the audio interface with the parameter exchange mutex
   and Python's interpreter lock, and one for `RuntimeProfiler`.
2. The composition of `FlowConstruction` and `ParameterExchange`: the flow of the
   latter, which `FlowAssumption` and `ScheduleAssumption` describe, as the one that the
   constructor of the former has built.
