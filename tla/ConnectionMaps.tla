--------------------------- MODULE ConnectionMaps ---------------------------
(***************************************************************************)
(* The first part of the constructor of rrl::AudioSignalFlow: the          *)
(* connections that the composite components of a hierarchical flow have   *)
(* registered are checked level by level (integrity_checking.cpp), and     *)
(* chains of connections through ports of composite components, the        *)
(* placeholders, are replaced by direct connections                        *)
(* (audio_connection_map.cpp, parameter_connection_map.cpp).               *)
(***************************************************************************)
EXTENDS Integers, Sequences, FiniteSets, SequencesExt

CONSTANTS
  Atomic,          \* the atomic components, each by its path from the top level
  Composite,       \* the composite components; the path of the top level is empty
  AudioPort,       \* audio ports: <<component, name>>
  ParameterPort,   \* parameter ports: <<component, name>>
  Input,           \* the ports that are inputs of their component
  Width,           \* the number of channels of each audio port
  Flows            \* the flows considered: the tables of registered connections
                   \* of each composite, the sample type of each audio port and
                   \* the protocol of each parameter port

TopLevel  == <<>>
Component == Atomic \cup Composite
Protocol  == {"DoubleBuffering", "MessageQueue"}

\* A channel is a port and an index; a connection is <<sender, receiver>>, and a
\* table maps the connections to the number of times they have been registered.
Channels(ports) == UNION {{<<p, i>> : i \in 0 .. Width[p] - 1} : p \in ports}

ASSUME HierarchyAssumption ==
  /\ TopLevel \in Composite /\ Atomic \cap Composite = {}
  /\ \A c \in Component \ {TopLevel} : Front(c) \in Composite
  /\ IsFiniteSet(Component) /\ IsFiniteSet(AudioPort \cup ParameterPort)
  /\ \A p \in AudioPort \cup ParameterPort : p = <<p[1], p[2]>> /\ p[1] \in Component
  /\ AudioPort \cap ParameterPort = {} /\ Input \subseteq AudioPort \cup ParameterPort
  /\ Width \in [AudioPort -> Nat]
  /\ \A f \in Flows : \A c \in Composite :
       /\ \A k \in DOMAIN f.audio[c] :
            {k[1], k[2]} \subseteq Channels(AudioPort) /\ f.audio[c][k] \in Nat \ {0}
       /\ \A k \in DOMAIN f.parameter[c] :
            {k[1], k[2]} \subseteq ParameterPort /\ f.parameter[c][k] \in Nat \ {0}
  /\ \A f \in Flows : f.protocol \in [ParameterPort -> Protocol]

\* The keys of the tables are pairs.
ASSUME ConnectionAssumption ==
  \A f \in Flows : \A c \in Composite :
    /\ \A k \in DOMAIN f.audio[c] : k = <<k[1], k[2]>>
    /\ \A k \in DOMAIN f.parameter[c] : k = <<k[1], k[2]>>

VARIABLES
  flow,           \* what the components have registered
  phase,          \* how far the constructor is, or what the audio thread does
  pending,        \* the connections resolvePlaceholders() has still to look at
  walk,           \* its walk from a receiver back to the sender, or NoWalk
  audioFlat,      \* flatAudioConnections
  parameterFlat   \* flatParameterConnections: a multimap, as a sequence

mapVars == <<pending, walk, audioFlat, parameterFlat>>

-----------------------------------------------------------------------------
(* PortLookup, without recursion: seen from inside a composite, its own     *)
(* inputs send and its own outputs receive.                                *)

Children(c) == {d \in Component \ {TopLevel} : Front(d) = c}

LocalSendPorts(c, ports) ==
  {p \in ports : \/ p[1] = c /\ p \in Input
                 \/ p[1] \in Children(c) /\ p \notin Input}

LocalReceivePorts(c, ports) ==
  {p \in ports : \/ p[1] = c /\ p \notin Input
                 \/ p[1] \in Children(c) /\ p \in Input}

IsPlaceholderPort(p) == p[1] \in Composite \ {TopLevel}

\* mutant: a receive channel may have several senders
CheckAudioSendersOnly(c) ==
  LET table == flow.audio[c]
      sends == Channels(LocalSendPorts(c, AudioPort))
      receives == Channels(LocalReceivePorts(c, AudioPort))
  IN /\ DOMAIN table \subseteq sends \X receives
     /\ \A r \in receives : \E s \in sends : <<s, r>> \in DOMAIN table
     /\ \A s \in sends : \E r \in receives : <<s, r>> \in DOMAIN table

\* Each receive channel has exactly one connection and each send channel at
\* least one.  The check of the sample types compares a port with itself.
CheckAudioConnectionsLocal(c) ==
  LET table == flow.audio[c]
      sends == Channels(LocalSendPorts(c, AudioPort))
      receives == Channels(LocalReceivePorts(c, AudioPort))
  IN /\ DOMAIN table \subseteq sends \X receives
     /\ \A r \in receives : \E s \in sends :
          /\ <<s, r>> \in DOMAIN table
          /\ table[<<s, r>>] = 1
          /\ \A t \in sends \ {s} : <<t, r>> \notin DOMAIN table
     /\ \A s \in sends : \E r \in receives : <<s, r>> \in DOMAIN table

\* Every port is used; how many senders a receiver has is not looked at.
CheckParameterConnectionsLocal(c) ==
  LET table == DOMAIN flow.parameter[c]
      sends == LocalSendPorts(c, ParameterPort)
      receives == LocalReceivePorts(c, ParameterPort)
  IN /\ table \subseteq sends \X receives
     /\ \A k \in table : flow.protocol[k[1]] = flow.protocol[k[2]]
     /\ {k[1] : k \in table} = sends
     /\ {k[2] : k \in table} = receives

\* fillRecursive() collects the tables of all levels.
AudioConnections     == UNION {DOMAIN flow.audio[c] : c \in Composite}
ParameterConnections == UNION {DOMAIN flow.parameter[c] : c \in Composite}

\* The entries of the multimap of parameter connections.
Copies(k) == flow.parameter[CHOOSE c \in Composite : k \in DOMAIN flow.parameter[c]][k]
ParameterEntries == UNION {{<<k, n>> : n \in 1 .. Copies(k)} : k \in ParameterConnections}

CheckConnectionIntegrity ==
  /\ phase = "connected"
  /\ IF \A c \in Composite : CheckAudioConnectionsLocal(c) /\ CheckParameterConnectionsLocal(c)
     THEN phase' = "audio" /\ pending' = AudioConnections
     ELSE phase' = "rejected" /\ pending' = pending
  /\ UNCHANGED <<flow, walk, audioFlat, parameterFlat>>

-----------------------------------------------------------------------------
(* resolvePlaceholders().  The connections are taken in the order of the    *)
(* addresses of their ports.  One walk does not change what another one     *)
(* reads: a fixed order stands for all of them.                            *)

NoWalk  == <<>>
Nowhere == <<>>

\* What a search for a connection that ends at "receiver" may find.
Found(connections, receiver) ==
  LET senders == {k[1] : k \in {c \in connections : c[2] = receiver}}
  IN IF senders = {} THEN {Nowhere} ELSE senders

\* The walk for "receiver", which came by the placeholders "trace", goes on to
\* whatever is connected to the last of them.
WalkOn(connections, receiver, trace) ==
  \E s \in Found(connections, Last(trace)) :
    IF s = Nowhere
    THEN phase' = "rejected" /\ walk' = NoWalk
    ELSE phase' = phase /\ walk' = [receiver |-> receiver, trace |-> trace, sender |-> s]

Throw == phase' = "rejected" /\ walk' = NoWalk

LookAtAudioConnection ==
  /\ phase = "audio" /\ walk = NoWalk /\ pending # {}
  /\ LET k == CHOOSE c \in pending : TRUE
     IN /\ pending' = pending \ {k}
        /\ \/ /\ IsPlaceholderPort(k[2][1])
              /\ UNCHANGED <<phase, walk, audioFlat>>
           \/ /\ ~ IsPlaceholderPort(k[2][1])
              /\ ~ IsPlaceholderPort(k[1][1])
              /\ audioFlat' = audioFlat \cup {k}
              /\ UNCHANGED <<phase, walk>>
           \/ /\ ~ IsPlaceholderPort(k[2][1])
              /\ IsPlaceholderPort(k[1][1])
              /\ WalkOn(AudioConnections, k[2], <<k[1]>>)
              /\ UNCHANGED audioFlat
  /\ UNCHANGED <<flow, parameterFlat>>

\* mutant: the walk does not look for a loop
FollowAudioUnchecked ==
  /\ phase = "audio" /\ walk # NoWalk
  /\ IsPlaceholderPort(walk.sender[1])
  /\ \E s \in Found(AudioConnections, walk.sender) : walk' = [walk EXCEPT !.sender = s]
  /\ UNCHANGED <<flow, phase, pending, audioFlat, parameterFlat>>

\* A further step back; a sender that has been met before closes a loop.
FollowAudio ==
  /\ phase = "audio" /\ walk # NoWalk
  /\ IsPlaceholderPort(walk.sender[1])
  /\ LET trace == Append(walk.trace, walk.sender)
     IN IF Found(AudioConnections, walk.sender) \cap ToSet(trace) # {}
        THEN Throw
        ELSE WalkOn(AudioConnections, walk.receiver, trace)
  /\ UNCHANGED <<flow, pending, audioFlat, parameterFlat>>

ArriveAudio ==
  /\ phase = "audio" /\ walk # NoWalk
  /\ ~ IsPlaceholderPort(walk.sender[1])
  /\ audioFlat' = audioFlat \cup {<<walk.sender, walk.receiver>>}
  /\ walk' = NoWalk
  /\ UNCHANGED <<flow, phase, pending, parameterFlat>>

EndAudio ==
  /\ phase = "audio" /\ walk = NoWalk /\ pending = {}
  /\ phase' = "parameters"
  /\ pending' = ParameterEntries
  /\ UNCHANGED <<flow, walk, audioFlat, parameterFlat>>

LookAtParameterConnection ==
  /\ phase = "parameters" /\ walk = NoWalk /\ pending # {}
  /\ LET entry == CHOOSE c \in pending : TRUE
         k == entry[1]
     IN /\ pending' = pending \ {entry}
        /\ \/ /\ IsPlaceholderPort(k[2])
              /\ UNCHANGED <<phase, walk, parameterFlat>>
           \/ /\ ~ IsPlaceholderPort(k[2])
              /\ ~ IsPlaceholderPort(k[1])
              /\ parameterFlat' = Append(parameterFlat, k)
              /\ UNCHANGED <<phase, walk>>
           \/ /\ ~ IsPlaceholderPort(k[2])
              /\ IsPlaceholderPort(k[1])
              /\ WalkOn(ParameterConnections, k[2], <<k[1]>>)
              /\ UNCHANGED parameterFlat
  /\ UNCHANGED <<flow, audioFlat>>

\* The length of a walk is limited by the number of connections.
FollowParameter ==
  /\ phase = "parameters" /\ walk # NoWalk
  /\ IsPlaceholderPort(walk.sender)
  /\ IF Len(walk.trace) + 1 >= Cardinality(ParameterEntries)
     THEN Throw
     ELSE WalkOn(ParameterConnections, walk.receiver, Append(walk.trace, walk.sender))
  /\ UNCHANGED <<flow, pending, audioFlat, parameterFlat>>

ArriveParameter ==
  /\ phase = "parameters" /\ walk # NoWalk
  /\ ~ IsPlaceholderPort(walk.sender)
  /\ parameterFlat' = Append(parameterFlat, <<walk.sender, walk.receiver>>)
  /\ walk' = NoWalk
  /\ UNCHANGED <<flow, phase, pending, audioFlat>>

EndParameters ==
  /\ phase = "parameters" /\ walk = NoWalk /\ pending = {}
  /\ phase' = "offsets"
  /\ UNCHANGED <<flow, mapVars>>

ResolveStep ==
  \/ CheckConnectionIntegrity
  \/ LookAtAudioConnection \/ FollowAudio \/ ArriveAudio \/ EndAudio
  \/ LookAtParameterConnection \/ FollowParameter \/ ArriveParameter \/ EndParameters
=============================================================================
