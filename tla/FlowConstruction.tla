-------------------------- MODULE FlowConstruction --------------------------
(***************************************************************************)
(* A signal flow from the registered connections to the signals: the       *)
(* constructor of rrl::AudioSignalFlow checks and flattens the connections *)
(* (ConnectionMaps), sets up the parameter connections, assigns memory to  *)
(* the audio ports (AudioBuffers) and makes a schedule; process() then     *)
(* executes the schedule once per period.                                  *)
(***************************************************************************)
EXTENDS AudioBuffers, ProcessingOrders

CONSTANT MaxPeriods   \* bound: the number of periods processed

ASSUME BoundAssumption == MaxPeriods \in Nat

VARIABLES
  schedule,   \* mProcessingSchedule
  position,   \* the component that process() executes next
  period,     \* the number of the period, counted from 1
  memory      \* the signal pool: what is stored at an address

runVars == <<schedule, position, period, memory>>
vars == <<flow, phase, mapVars, bufferVars, runVars>>

\* A sample is the channel that produced it and the period; this is the rest.
Silence == Empty

Init ==
  /\ flow \in Flows
  /\ phase = "connected"
  /\ pending = {} /\ walk = NoWalk /\ audioFlat = {} /\ parameterFlat = <<>>
  /\ sendOffsets = [t \in ToSet(SampleTypes) |-> Empty]
  /\ receiveOffsets = [t \in ToSet(SampleTypes) |-> Empty]
  /\ nextOffset = 0 /\ typeIndex = 1
  /\ routings = Empty /\ finalConnections = {} /\ poolSize = 0 /\ buffers = Empty
  /\ schedule = <<>> /\ position = 1 /\ period = 0 /\ memory = Empty

-----------------------------------------------------------------------------
(* initialiseParameterInfrastructure(): a protocol object for each group of *)
(* connected ports takes one sender, and a message queue one receiver.     *)

OneSender == \A i, j \in DOMAIN parameterFlat :
  parameterFlat[i][2] = parameterFlat[j][2] => parameterFlat[i][1] = parameterFlat[j][1]

OneReceiver == \A i, j \in DOMAIN parameterFlat :
  /\ parameterFlat[i][1] = parameterFlat[j][1]
  /\ flow.protocol[parameterFlat[i][1]] = "MessageQueue"
  => parameterFlat[i][2] = parameterFlat[j][2]

\* mutant: connecting a second sender to a protocol object does not fail
ProtocolsConnectUnchecked == IsInjective(parameterFlat) /\ OneReceiver

\* The graph of connected ports refuses double connections.
ProtocolsConnect == IsInjective(parameterFlat) /\ OneSender /\ OneReceiver

Components == Atomic \cup {Routing(p) : p \in DOMAIN routings}

\* Pairs of components of which the second one has to run after the first one.
Dependencies(audio, parameters) ==
  {d \in {<<k[1][1][1], k[2][1][1]>> : k \in audio} \cup {<<k[1][1], k[2][1]>> : k \in parameters} :
     TopLevel \notin {d[1], d[2]}}

\* The result of SchedulingGraph, as ComponentSchedule promises it.
Schedules ==
  Orders(Components, Dependencies(finalConnections, ToSet(parameterFlat)))

InitialiseParameterInfrastructure ==
  /\ phase = "parameterInfrastructure"
  /\ phase' = IF ProtocolsConnect THEN "schedule" ELSE "rejected"
  /\ UNCHANGED <<flow, mapVars, bufferVars, runVars>>

InitialiseSchedule ==
  /\ phase = "schedule"
  /\ IF Schedules = {}
     THEN phase' = "rejected" /\ UNCHANGED schedule
     ELSE phase' = "idle" /\ schedule' \in Schedules
  /\ UNCHANGED <<flow, mapVars, bufferVars, position, period, memory>>

-----------------------------------------------------------------------------
(* process()                                                               *)

\* mutant: the samples of all types have the size of the first one
StrideBytesUniform(q) == buffers[q].stride * SampleSize[SampleTypes[1]]

\* channelStrideBytes()
StrideBytes(q) == buffers[q].stride * SampleSize[PortType(q)]

Address(channel) == buffers[channel[1]].base + channel[2] * StrideBytes(channel[1])

Stored(channel) == IF Address(channel) \in DOMAIN memory THEN memory[Address(channel)] ELSE Silence

\* A port that finds samples of another type takes their bytes for something else.
Load(channel) ==
  LET sample == Stored(channel)
  IN IF sample # Silence /\ flow.sampleType[sample[1][1]] = PortType(channel[1])
     THEN sample ELSE Silence

\* The memory after the samples of some channels have been stored.
Store(samples) ==
  LET written == {Address(c) : c \in DOMAIN samples}
  IN [a \in DOMAIN memory \cup written |->
        IF a \in written THEN samples[CHOOSE c \in DOMAIN samples : Address(c) = a] ELSE memory[a]]

CaptureChannels == Channels({p \in AudioPort : p[1] = TopLevel /\ p \in Input})

BeginPeriod ==
  /\ phase = "idle"
  /\ period < MaxPeriods
  /\ phase' = "process"
  /\ period' = period + 1
  /\ position' = 1
  /\ memory' = Store([c \in CaptureChannels |-> <<c, period + 1>>])
  /\ UNCHANGED <<flow, mapVars, bufferVars, schedule>>

Process(c) ==
  memory' = Store([s \in Channels({p \in AudioPort : p[1] = c /\ p \notin Input}) |-> <<s, period>>])

\* SignalRoutingInternal::process() copies channels.
CopyChannels(p) ==
  memory' = Store([s \in {<<RoutingOut(p), i - 1>> : i \in DOMAIN routings[p].inputs} |->
                     Load(<<RoutingIn(p), routings[p].inputs[s[2] + 1]>>)])

ExecuteComponent ==
  /\ phase = "process"
  /\ position <= Len(schedule)
  /\ LET c == schedule[position]
     IN \/ c \in Atomic /\ Process(c)
        \/ \E p \in DOMAIN routings : c = Routing(p) /\ CopyChannels(p)
  /\ position' = position + 1
  /\ UNCHANGED <<flow, phase, mapVars, bufferVars, schedule, period>>

EndPeriod ==
  /\ phase = "process"
  /\ position > Len(schedule)
  /\ phase' = "idle"
  /\ UNCHANGED <<flow, mapVars, bufferVars, runVars>>

Construct ==
  \/ ResolveStep /\ UNCHANGED <<bufferVars, runVars>>
  \/ BufferStep /\ UNCHANGED runVars
  \/ InitialiseParameterInfrastructure
  \/ InitialiseSchedule

Next == Construct \/ BeginPeriod \/ ExecuteComponent \/ EndPeriod

\* The thread that constructs the flow goes on, and so does process() once it
\* has been called; nobody has to call it.
Spec == Init /\ [][Next]_vars /\ WF_vars(Construct) /\ WF_vars(ExecuteComponent \/ EndPeriod)

-----------------------------------------------------------------------------
(* What the registered connections mean: a sender and a receiver are        *)
(* connected if there is a chain of connections through placeholders.      *)

Reaches(connections, placeholders, s, r) ==
  \/ <<s, r>> \in connections
  \/ \A S \in SUBSET placeholders :
       (\A q \in placeholders :
          (<<s, q>> \in connections \/ \E p \in S : <<p, q>> \in connections) => q \in S)
       => \E p \in S : <<p, r>> \in connections

Placeholders(ports)     == {p \in ports : IsPlaceholderPort(p)}
ConcreteSenders(ports)  == {p \in ports : (p[1] = TopLevel) = (p \in Input)} \ Placeholders(ports)
ConcreteReceivers(ports) == (ports \ ConcreteSenders(ports)) \ Placeholders(ports)

AudioSenders   == Channels(ConcreteSenders(AudioPort))
AudioReceivers == Channels(ConcreteReceivers(AudioPort))

Signals ==
  LET connections == AudioConnections
      placeholders == Channels(Placeholders(AudioPort))
  IN {k \in AudioSenders \X AudioReceivers : Reaches(connections, placeholders, k[1], k[2])}

ParameterPaths ==
  LET connections == ParameterConnections
      placeholders == Placeholders(ParameterPort)
  IN {k \in ConcreteSenders(ParameterPort) \X ConcreteReceivers(ParameterPort) :
        Reaches(connections, placeholders, k[1], k[2])}

Accepted == phase \in {"idle", "process"}

-----------------------------------------------------------------------------
(* The variables have their types; the channels that a routing component    *)
(* copies lie within the input it has been created with.                   *)
TypeOK ==
  /\ flow.sampleType \in [AudioPort -> ToSet(SampleTypes)]
  /\ flow.protocol \in [ParameterPort -> Protocol]
  /\ phase \in {"connected", "audio", "parameters", "offsets", "parameterInfrastructure",
                "schedule", "idle", "process", "rejected"}
  /\ pending \subseteq AudioConnections \cup ParameterEntries
  /\ audioFlat \subseteq AudioSenders \X AudioReceivers
  /\ ToSet(parameterFlat) \subseteq
       ConcreteSenders(ParameterPort) \X ConcreteReceivers(ParameterPort)
  /\ nextOffset \in Nat /\ poolSize \in Nat
  /\ typeIndex \in 1 .. Len(SampleTypes) + 1
  /\ DOMAIN routings \subseteq AudioPort
  /\ \A p \in DOMAIN routings : \A i \in 1 .. Width[p] :
       routings[p].inputs[i] \in 0 .. routings[p].width - 1
  /\ ToSet(schedule) \subseteq Components
  /\ position \in 1 .. Len(schedule) + 1 /\ period \in 0 .. MaxPeriods

\* AudioConnectionMap::resolvePlaceholders() neither loses nor invents a signal:
\* with its result the constructor connects exactly the channels that the chains
\* of registered connections connect, each receiving channel to one sender and
\* each sending channel that is reached to a receiver.
SignalsComplete ==
  phase \in {"parameters", "offsets", "parameterInfrastructure", "schedule", "idle", "process"} =>
    /\ audioFlat = Signals
    /\ \A r \in AudioReceivers : \E s \in AudioSenders :
         \A t \in AudioSenders : <<t, r>> \in audioFlat <=> t = s

\* In a flow that runs, each parameter input has one sender, and a chain of
\* registered connections leads from the one to the other.  The checks of the
\* single levels do not count senders: the protocol objects do.
ParameterSource ==
  Accepted =>
    /\ ToSet(parameterFlat) \subseteq ParameterPaths
    /\ \A r \in ConcreteReceivers(ParameterPort) :
         \E i \in DOMAIN parameterFlat : \A j \in DOMAIN parameterFlat :
           parameterFlat[j][2] = r <=> j = i

\* The memory of a channel, as large as its port takes it to be.
Span(channel) ==
  Address(channel) .. Address(channel) + ChannelSize[PortType(channel[1])] - 1

TypesAgree(signal) == flow.sampleType[signal[1][1]] = flow.sampleType[signal[2][1]]

BufferSenders == AudioSenders \cup
  UNION {{<<RoutingOut(p), i>> : i \in 0 .. Width[p] - 1} : p \in DOMAIN routings}

\* initialiseAudioConnections() gives every channel that is written memory of its
\* own within the pool, over all sample types, and every channel that is read and
\* has the sample type of its sender memory within the pool.
BuffersValid ==
  phase \in {"parameterInfrastructure", "schedule", "idle", "process"} =>
    /\ \A c \in BufferSenders \cup {k[2] : k \in {l \in Signals : TypesAgree(l)}} :
         c[1] \in DOMAIN buffers /\ Span(c) \subseteq 0 .. poolSize - 1
    /\ \A c, d \in BufferSenders : c # d => Span(c) \cap Span(d) = {}

NextToRun == IF position <= Len(schedule) THEN schedule[position] ELSE TopLevel

\* In process(), the signal a component is about to read on an input that has the
\* sample type of its sender is what that sender has produced in the same period,
\* whatever offsets, routing components and schedule lie between them, and
\* whatever the types of other ports; and so are the samples that are returned at
\* the end of the period.
FreshInputs ==
  phase = "process" =>
    \A k \in Signals :
      k[2][1][1] = NextToRun /\ TypesAgree(k) => Load(k[2]) = <<k[1], period>>

\* checkConnectionIntegrityLocal() promises to refuse connections between ports of
\* different sample types: none is left in a flow that runs.
SampleTypesAgree == Accepted => \A k \in Signals : TypesAgree(k)

\* The registrations in a table of connections between some ports or channels.
Registered(table, senders, receivers) ==
  LET between == {k \in DOMAIN table : k[1] \in senders /\ k[2] \in receivers}
  IN UNION {{<<k, n>> : n \in 1 .. table[k]} : k \in between}

LocalDefect(c) ==
  LET sends == Channels(LocalSendPorts(c, AudioPort))
      receives == Channels(LocalReceivePorts(c, AudioPort))
      parameterSends == LocalSendPorts(c, ParameterPort)
      parameterReceives == LocalReceivePorts(c, ParameterPort)
      audio == flow.audio[c]
      parameter == flow.parameter[c]
  IN \/ \E k \in DOMAIN audio : k[1] \notin sends \/ k[2] \notin receives
     \/ \E r \in receives : Cardinality(Registered(audio, sends, {r})) # 1
     \/ \E s \in sends : Registered(audio, {s}, receives) = {}
     \/ \E k \in DOMAIN parameter :
          \/ k[1] \notin parameterSends \/ k[2] \notin parameterReceives
          \/ flow.protocol[k[1]] # flow.protocol[k[2]]
     \/ \E r \in parameterReceives : Registered(parameter, parameterSends, {r}) = {}
     \/ \E s \in parameterSends : Registered(parameter, {s}, parameterReceives) = {}

\* Some nodes each of which is preceded by one of them.
Loop(nodes, edges) ==
  \E S \in SUBSET nodes : S # {} /\ \A q \in S : \E p \in S : <<p, q>> \in edges

\* What may be wrong with a flow: a defect in one of the composites, a loop of
\* placeholders, an input whose signals have different sample types, a parameter
\* input with several connections, a message queue with several receivers, or
\* components that wait for each other.
FlowDefect ==
  \/ \E c \in Composite : LocalDefect(c)
  \/ Loop(Channels(Placeholders(AudioPort)), AudioConnections)
  \/ Loop(Placeholders(ParameterPort), ParameterConnections)
  \/ \E k, l \in Signals :
       k[2][1] = l[2][1] /\ flow.sampleType[k[1][1]] # flow.sampleType[l[1][1]]
  \/ \E r \in ConcreteReceivers(ParameterPort) :
       Cardinality({e \in ParameterEntries : e[1][2] = r}) > 1
  \/ \E k, l \in ParameterPaths :
       k[1] = l[1] /\ k[2] # l[2] /\ flow.protocol[k[1]] = "MessageQueue"
  \/ Loop(Atomic, Dependencies(Signals, ParameterPaths))

\* The constructor throws only if there is a reason in the flow.  In particular,
\* the routing components it has inserted itself are never the reason.
RejectedForCause == phase = "rejected" => FlowDefect

\* The constructor ends, with a flow that can run or with an exception: no walk
\* through placeholders goes round forever.
Constructed == <>(phase \in {"idle", "process", "rejected"})
=============================================================================
