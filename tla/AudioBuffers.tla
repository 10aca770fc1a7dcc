---------------------------- MODULE AudioBuffers ----------------------------
(***************************************************************************)
(* AudioSignalFlow::initialiseAudioConnections(): the memory for the audio *)
(* signals of a composite flow.  Each sending port gets channels of a      *)
(* pool; a receiving port uses the memory of its senders where that is one *)
(* contiguous range, and is preceded by a routing component that copies    *)
(* the channels together where it is not.                                  *)
(***************************************************************************)
EXTENDS ConnectionMaps, FiniteSetsExt

CONSTANTS
  SampleTypes,    \* the sample types, in the order of their identifiers
  SampleSize,     \* typeSize(): the bytes of a sample, by sample type
  ChannelSamples  \* channelSizeSamples: the samples of a channel and of the padding
                  \* that aligns the next one, by sample type

ASSUME SampleTypeAssumption ==
  /\ SampleTypes \in Seq(ToSet(SampleTypes)) /\ IsInjective(SampleTypes)
  /\ \A f \in Flows : f.sampleType \in [AudioPort -> ToSet(SampleTypes)]
  /\ SampleSize \in [ToSet(SampleTypes) -> Nat \ {0}]
  /\ ChannelSamples \in [ToSet(SampleTypes) -> Nat \ {0}]

\* No component has the name of a routing component.
ASSUME RoutingNameAssumption ==
  \A p \in AudioPort : <<p[1], p[2], "inputrouting">> \notin Component

VARIABLES
  sendOffsets,        \* allSendPortOffsets: for each sample type, of some ports
  receiveOffsets,     \* allReceivePortOffsets
  nextOffset,         \* sendPortOffset
  typeIndex,          \* the sample type the loop is at
  routings,           \* mInfrastructureComponents: for each receiving port that needs
                      \* one, its sample type, the width of its input and the
                      \* channels copied
  finalConnections,   \* tmpConnections
  poolSize,           \* totalAudioPoolSize
  buffers             \* base address of ports and their channel stride in samples

bufferVars == <<sendOffsets, receiveOffsets, nextOffset, typeIndex, routings,
                finalConnections, poolSize, buffers>>

Empty == <<>>

\* channelSizeBytes
ChannelSize == [t \in ToSet(SampleTypes) |-> ChannelSamples[t] * SampleSize[t]]

\* The routing component in front of a receiving port, and its ports.
Routing(p)    == <<p[1], p[2], "inputrouting">>
RoutingIn(p)  == <<Routing(p), "in">>
RoutingOut(p) == <<Routing(p), "out">>

\* The number of channels of any port, those of routing components included.
PortWidth(q) ==
  IF q \in AudioPort THEN Width[q]
  ELSE LET p == CHOOSE r \in DOMAIN routings : q \in {RoutingIn(r), RoutingOut(r)}
       IN IF q = RoutingIn(p) THEN routings[p].width ELSE Len(routings[p].inputs)

\* The sample type of any port; a routing component is made for one type.
PortType(q) ==
  IF q \in AudioPort THEN flow.sampleType[q]
  ELSE routings[CHOOSE r \in DOMAIN routings : q \in {RoutingIn(r), RoutingOut(r)}].type

CurrentType == SampleTypes[typeIndex]

\* Connections belong to the sample type of the sender.
Typed(t)        == {k \in audioFlat : flow.sampleType[k[1][1]] = t}
SendPorts(t)    == {k[1][1] : k \in Typed(t)}
ReceivePorts(t) == {k[2][1] : k \in Typed(t)}

\* The external ports come first; otherwise the order is that of the addresses.
TopLevelFirst(p, ports) == (\E q \in ports : q[1] = TopLevel) => p[1] = TopLevel

UnplacedSendPorts    == SendPorts(CurrentType) \ DOMAIN sendOffsets[CurrentType]
UnplacedReceivePorts == ReceivePorts(CurrentType) \ DOMAIN receiveOffsets[CurrentType]

InOffsets(ports) ==
  /\ phase = "offsets"
  /\ typeIndex <= Len(SampleTypes)
  /\ ports # {}

\* std::map::insert(): an entry that is there stays as it is.
MapInsert(map, key, value) ==
  [k \in DOMAIN map \cup {key} |-> IF k \in DOMAIN map THEN map[k] ELSE value]

PlaceSendPort(p) ==
  /\ InOffsets(UnplacedSendPorts)
  /\ p \in UnplacedSendPorts /\ TopLevelFirst(p, UnplacedSendPorts)
  /\ sendOffsets' = [sendOffsets EXCEPT ![CurrentType] = MapInsert(@, p, nextOffset)]
  /\ nextOffset' = nextOffset + Width[p]
  /\ UNCHANGED <<flow, phase, mapVars, receiveOffsets, typeIndex, routings, finalConnections,
                 poolSize, buffers>>

\* The connections of the current type that end at p.
LocalConnections(p) == {k \in Typed(CurrentType) : k[2][1] = p}

\* sendChannels() finds a sender of the current type for each channel.
SendersComplete(p) == Cardinality(LocalConnections(p)) = Width[p]

\* The offsets of the senders of p, by the channels of p.
SenderOffsets(p) ==
  [i \in 1 .. Width[p] |->
     LET s == (CHOOSE k \in LocalConnections(p) : k[2][2] = i - 1)[1]
     IN sendOffsets[CurrentType][s[1]] + s[2]]

\* mutant: gaps are not looked for
ContiguousUnchecked(offsets) == TRUE

ContiguousRange(offsets) ==
  \A i \in 1 .. Len(offsets) - 1 : offsets[i] + 1 = offsets[i + 1]

ReadyToReceive(p) ==
  /\ InOffsets(UnplacedReceivePorts)
  /\ UnplacedSendPorts = {}
  /\ p \in UnplacedReceivePorts /\ TopLevelFirst(p, UnplacedReceivePorts)

PlaceReceivePort(p) ==
  /\ ReadyToReceive(p)
  /\ SendersComplete(p)
  /\ ContiguousRange(SenderOffsets(p))
  /\ receiveOffsets' = [receiveOffsets EXCEPT ![CurrentType] =
                                             MapInsert(@, p, SenderOffsets(p)[1])]
  /\ finalConnections' = finalConnections \cup LocalConnections(p)
  /\ UNCHANGED <<flow, phase, mapVars, sendOffsets, nextOffset, typeIndex, routings,
                 poolSize, buffers>>

RoutingWidthShort(inputs) == Max(ToSet(inputs))   \* mutant: off by one

\* The routing component spans all channels it copies.
RoutingWidth(inputs) == Max(ToSet(inputs)) + 1

\* The sending channel at an offset.
ChannelAt(offset) ==
  CHOOSE s \in Channels(SendPorts(CurrentType)) :
    sendOffsets[CurrentType][s[1]] + s[2] = offset

\* mutant: all channels in the range of the routing component become connections
UsedInputsAll(inputs) == 0 .. Max(ToSet(inputs))

\* WORKAROUND_CYCLIC_DEPENDENCIES: channels in the range of the routing component
\* that it does not copy are not connected to it.
UsedInputs(inputs) == ToSet(inputs)

InsertRouting(p) ==
  /\ ReadyToReceive(p)
  /\ SendersComplete(p)
  /\ ~ ContiguousRange(SenderOffsets(p))
  /\ LET offsets == SenderOffsets(p)
         minIndex == Min(ToSet(offsets))
         inputs == [i \in DOMAIN offsets |-> offsets[i] - minIndex]
     IN /\ finalConnections' = finalConnections
             \cup {<<ChannelAt(minIndex + n), <<RoutingIn(p), n>>>> : n \in UsedInputs(inputs)}
             \cup {<<<<RoutingOut(p), i>>, <<p, i>>>> : i \in 0 .. Width[p] - 1}
        /\ sendOffsets' = [sendOffsets EXCEPT ![CurrentType] =
                                                MapInsert(@, RoutingOut(p), nextOffset)]
        /\ receiveOffsets' = [receiveOffsets EXCEPT ![CurrentType] =
                                MapInsert(MapInsert(@, RoutingIn(p), minIndex), p, nextOffset)]
        /\ routings' = MapInsert(routings, p, [type |-> CurrentType, inputs |-> inputs,
                                              width |-> RoutingWidth(inputs)])
        /\ nextOffset' = nextOffset + Width[p]
  /\ UNCHANGED <<flow, phase, mapVars, typeIndex, poolSize, buffers>>

\* The senders of p have different sample types.
RefuseSenders(p) ==
  /\ ReadyToReceive(p)
  /\ ~ SendersComplete(p)
  /\ phase' = "rejected"
  /\ UNCHANGED <<flow, mapVars, bufferVars>>

EndType ==
  /\ phase = "offsets"
  /\ typeIndex <= Len(SampleTypes)
  /\ UnplacedSendPorts = {} /\ UnplacedReceivePorts = {}
  /\ poolSize' = poolSize + nextOffset * ChannelSize[CurrentType]
  /\ nextOffset' = 0
  /\ typeIndex' = typeIndex + 1
  /\ UNCHANGED <<flow, phase, mapVars, sendOffsets, receiveOffsets, routings, finalConnections,
                 buffers>>

\* typedChannelCount: the second loop counts the channels of the sending ports.
PoolChannels(t) ==
  UNION {{<<q, i>> : i \in 0 .. PortWidth(q) - 1} : q \in DOMAIN sendOffsets[t]}

\* poolOffsetBytes, after the first n sample types: the number of their bytes.
PoolOffset(n) ==
  Cardinality(UNION {PoolChannels(SampleTypes[i]) \X (0 .. ChannelSize[SampleTypes[i]] - 1) :
                       i \in 1 .. n})

\* Where the channels of a sample type start.
TypeOffset(t) == PoolOffset((CHOOSE i \in DOMAIN SampleTypes : SampleTypes[i] = t) - 1)

\* The ports that are given memory in the loop for a sample type.
PlacedPorts(t) == DOMAIN sendOffsets[t] \cup DOMAIN receiveOffsets[t]

\* setBufferConfig() for a port, in the loop for the sample type of its senders.
\* The port turns the stride into bytes itself, with the size of its own samples.
BufferConfig(q) ==
  LET t == CHOOSE u \in ToSet(SampleTypes) : q \in PlacedPorts(u)
      offset == IF q \in DOMAIN sendOffsets[t] THEN sendOffsets[t][q] ELSE receiveOffsets[t][q]
  IN [base |-> TypeOffset(t) + ChannelSize[t] * offset, stride |-> ChannelSamples[t]]

AssignBuffers ==
  /\ phase = "offsets"
  /\ typeIndex > Len(SampleTypes)
  /\ buffers' = [q \in UNION {PlacedPorts(t) : t \in ToSet(SampleTypes)} |-> BufferConfig(q)]
  /\ phase' = IF PoolOffset(Len(SampleTypes)) = poolSize
              THEN "parameterInfrastructure" ELSE "rejected"
  /\ UNCHANGED <<flow, mapVars, sendOffsets, receiveOffsets, nextOffset, typeIndex, routings,
                 finalConnections, poolSize>>

BufferStep ==
  \/ \E t \in ToSet(SampleTypes) :
       \/ \E p \in SendPorts(t) : PlaceSendPort(p)
       \/ \E p \in ReceivePorts(t) : PlaceReceivePort(p) \/ InsertRouting(p) \/ RefuseSenders(p)
  \/ EndType
  \/ AssignBuffers
=============================================================================
