----------------------- MODULE FlowConstructionProofs -----------------------
(***************************************************************************)
(* The construction of a signal flow and its execution, for any hierarchy  *)
(* of components, any ports and any registered connections.                *)
(***************************************************************************)
EXTENDS FlowConstruction, CommonProofs

-----------------------------------------------------------------------------
(* Chains of connections.                                                  *)

\* What reaches a placeholder reaches whatever is connected to it.
LEMMA ReachedThrough ==
  ASSUME NEW C, NEW P, NEW s, NEW p \in P, NEW r, <<p, r>> \in C, Reaches(C, P, s, p)
  PROVE  Reaches(C, P, s, r)
<1> SUFFICES ASSUME NEW S \in SUBSET P,
                    \A q \in P : (<<s, q>> \in C \/ \E x \in S : <<x, q>> \in C) => q \in S
             PROVE  \E x \in S : <<x, r>> \in C
  BY DEF Reaches
<1>1. <<s, p>> \in C \/ \E x \in S : <<x, p>> \in C
  BY DEF Reaches
<1>2. p \in S
  BY <1>1
<1> QED
  BY <1>2

\* If a placeholder is all that is connected to a receiver, the receiver is
\* reached by what reaches the placeholder.
LEMMA ReachedOnlyThrough ==
  ASSUME NEW C, NEW P, NEW s, s \notin P, NEW p \in P, NEW r,
         \A x : <<x, r>> \in C => x = p, Reaches(C, P, s, r)
  PROVE  Reaches(C, P, s, p)
<1> SUFFICES ASSUME <<s, p>> \notin C, NEW S \in SUBSET P,
                    \A q \in P : (<<s, q>> \in C \/ \E x \in S : <<x, q>> \in C) => q \in S
             PROVE  \E x \in S : <<x, p>> \in C
  BY DEF Reaches
<1>1. ASSUME \A x \in S : <<x, p>> \notin C
      PROVE  FALSE
  <2> DEFINE T == S \ {p}
  <2>1. ASSUME NEW q \in P, <<s, q>> \in C \/ \E x \in T : <<x, q>> \in C
        PROVE  q \in T
    <3>1. q \in S
      BY <2>1
    <3>2. q # p
      BY <1>1, <2>1
    <3> QED
      BY <3>1, <3>2
  <2>2. <<s, r>> \notin C
    OBVIOUS
  <2>3. \E x \in T : <<x, r>> \in C
    BY <2>1, <2>2 DEF Reaches
  <2> QED
    BY <2>3
<1> QED
  BY <1>1

\* If only one sender is connected to a receiver, no other one reaches it.
LEMMA ReachedDirectly ==
  ASSUME NEW C, NEW P, NEW s, NEW t, t \notin P, NEW r,
         \A x : <<x, r>> \in C => x = t, Reaches(C, P, s, r)
  PROVE  s = t
<1>1. \A x \in P : <<x, r>> \notin C
  OBVIOUS
<1>2. <<s, r>> \in C
  BY <1>1 DEF Reaches
<1> QED
  BY <1>2

-----------------------------------------------------------------------------
(* The levels of the hierarchy.                                            *)

\* The composite inside which a port receives.
Level(p) == IF p \in Input THEN Front(p[1]) ELSE p[1]

AnyPort == AudioPort \cup ParameterPort

LEMMA ReceivesOnOneLevel ==
  ASSUME NEW ports \in SUBSET AnyPort, NEW p \in ports
  PROVE  /\ \A c \in Composite : p \in LocalReceivePorts(c, ports) =>
              c = Level(p) /\ p \in ConcreteReceivers(ports) \cup Placeholders(ports)
         /\ p \in ConcreteReceivers(ports) \cup Placeholders(ports) =>
              Level(p) \in Composite /\ p \in LocalReceivePorts(Level(p), ports)
<1>1. /\ p[1] \in Component /\ TopLevel \in Composite /\ Atomic \cap Composite = {}
      /\ \A c \in Component \ {TopLevel} : Front(c) \in Composite
      /\ Component = Atomic \cup Composite
  BY HierarchyAssumption DEF Component, AnyPort
<1>2. p \in Placeholders(ports) <=> p[1] \in Composite \ {TopLevel}
  BY DEF Placeholders, IsPlaceholderPort
<1>3. p \in ConcreteSenders(ports) <=>
        p[1] \notin Composite \ {TopLevel} /\ (p[1] = TopLevel <=> p \in Input)
  BY <1>2 DEF ConcreteSenders
<1>4. p \in ConcreteReceivers(ports) <=>
        p[1] \notin Composite \ {TopLevel} /\ ~ (p[1] = TopLevel <=> p \in Input)
  BY <1>2, <1>3 DEF ConcreteReceivers
<1>5. ASSUME NEW c \in Composite
      PROVE  p \in LocalReceivePorts(c, ports) <=>
               \/ p[1] = c /\ p \notin Input
               \/ p[1] # TopLevel /\ Front(p[1]) = c /\ p \in Input
  BY <1>1 DEF LocalReceivePorts, Children
<1>6. ASSUME NEW c \in Composite, p \in LocalReceivePorts(c, ports)
      PROVE  c = Level(p) /\ p \in ConcreteReceivers(ports) \cup Placeholders(ports)
  BY <1>1, <1>2, <1>4, <1>5, <1>6 DEF Level
<1>7. ASSUME p \in ConcreteReceivers(ports) \cup Placeholders(ports)
      PROVE  Level(p) \in Composite /\ p \in LocalReceivePorts(Level(p), ports)
  <2>1. CASE p \in Input
    <3>1. p[1] # TopLevel
      BY <1>2, <1>4, <1>7, <2>1
    <3> QED
      BY <1>1, <1>5, <2>1, <3>1 DEF Level
  <2>2. CASE p \notin Input
    <3>1. p[1] \in Composite
      BY <1>1, <1>2, <1>4, <1>7, <2>2
    <3> QED
      BY <1>1, <1>5, <2>2, <3>1 DEF Level
  <2> QED
    BY <2>1, <2>2
<1> QED
  BY <1>6, <1>7

LEMMA SendsOnLevel ==
  ASSUME NEW ports \in SUBSET AnyPort, NEW c \in Composite, NEW p \in LocalSendPorts(c, ports)
  PROVE  p \in ConcreteSenders(ports) \cup Placeholders(ports)
<1>1. /\ p[1] \in Component /\ TopLevel \in Composite /\ Atomic \cap Composite = {}
      /\ Component = Atomic \cup Composite /\ p \in ports
  BY HierarchyAssumption DEF Component, AnyPort, LocalSendPorts
<1>2. p \in Placeholders(ports) <=> p[1] \in Composite \ {TopLevel}
  BY <1>1 DEF Placeholders, IsPlaceholderPort
<1>3. p \in ConcreteSenders(ports) <=>
        p[1] \notin Composite \ {TopLevel} /\ (p[1] = TopLevel <=> p \in Input)
  BY <1>1, <1>2 DEF ConcreteSenders
<1>4. \/ p[1] = c /\ p \in Input
      \/ p[1] # TopLevel /\ Front(p[1]) = c /\ p \notin Input
  BY DEF LocalSendPorts, Children
<1> QED
  BY <1>1, <1>2, <1>3, <1>4

\* Concrete ports are no placeholders.
LEMMA ConcretePorts ==
  ASSUME NEW ports
  PROVE  /\ \A p \in ConcreteSenders(ports) \cup ConcreteReceivers(ports) :
              p \in ports /\ p \notin Placeholders(ports) /\ ~ IsPlaceholderPort(p)
         /\ \A p \in Placeholders(ports) : p \in ports /\ IsPlaceholderPort(p)
         /\ ConcreteSenders(ports) \cap ConcreteReceivers(ports) = {}
BY DEF ConcreteSenders, ConcreteReceivers, Placeholders

\* The channels of some ports, each with the port and the index.
LEMMA ChannelsOfPorts ==
  ASSUME NEW ports, NEW c
  PROVE  c \in Channels(ports) <=>
           /\ c = <<c[1], c[2]>> /\ c[1] \in ports /\ c[2] \in 0 .. Width[c[1]] - 1
BY DEF Channels

-----------------------------------------------------------------------------
(* Connections that have passed the checks of the single levels.           *)

AudioPlaceholders     == Channels(Placeholders(AudioPort))
ParameterPlaceholders == Placeholders(ParameterPort)
ParameterSenders      == ConcreteSenders(ParameterPort)
ParameterReceivers    == ConcreteReceivers(ParameterPort)

Checked ==
  \A c \in Composite : CheckAudioConnectionsLocal(c) /\ CheckParameterConnectionsLocal(c)

\* Every channel that receives inside some composite has one connection.
LEMMA CheckedAudio ==
  ASSUME Checked
  PROVE  /\ \A k \in AudioConnections :
              /\ k = <<k[1], k[2]>>
              /\ k[1] \in AudioSenders \cup AudioPlaceholders
              /\ k[2] \in AudioReceivers \cup AudioPlaceholders
         /\ \A r \in AudioReceivers \cup AudioPlaceholders :
              \E s : <<s, r>> \in AudioConnections
                     /\ \A t : <<t, r>> \in AudioConnections => t = s
<1> DEFINE table(c)    == flow.audio[c]
           sends(c)    == Channels(LocalSendPorts(c, AudioPort))
           receives(c) == Channels(LocalReceivePorts(c, AudioPort))
<1>1. ASSUME NEW c \in Composite
      PROVE  /\ DOMAIN table(c) \subseteq sends(c) \X receives(c)
             /\ \A r \in receives(c) : \E s \in sends(c) :
                  /\ <<s, r>> \in DOMAIN table(c)
                  /\ \A t \in sends(c) \ {s} : <<t, r>> \notin DOMAIN table(c)
  BY DEF Checked, CheckAudioConnectionsLocal
<1>2. AudioPort \in SUBSET AnyPort
  BY DEF AnyPort
<1>3. \A k : k \in AudioConnections <=> \E c \in Composite : k \in DOMAIN table(c)
  BY DEF AudioConnections
<1> HIDE DEF table
<1>4. ASSUME NEW c \in Composite, NEW k \in DOMAIN table(c)
      PROVE  /\ k = <<k[1], k[2]>>
             /\ k[1] \in AudioSenders \cup AudioPlaceholders
             /\ k[2] \in AudioReceivers \cup AudioPlaceholders
             /\ k[2] \in receives(c) /\ c = Level(k[2][1])
  <2>1. k = <<k[1], k[2]>> /\ k[1] \in sends(c) /\ k[2] \in receives(c)
    BY <1>1
  <2>2. /\ k[1] = <<k[1][1], k[1][2]>> /\ k[1][1] \in LocalSendPorts(c, AudioPort)
        /\ k[1][2] \in 0 .. Width[k[1][1]] - 1
        /\ k[2] = <<k[2][1], k[2][2]>> /\ k[2][1] \in LocalReceivePorts(c, AudioPort)
        /\ k[2][2] \in 0 .. Width[k[2][1]] - 1
    BY <2>1, ChannelsOfPorts
  <2>3. k[1][1] \in ConcreteSenders(AudioPort) \cup Placeholders(AudioPort)
    BY <1>2, <2>2, SendsOnLevel
  <2>4. k[2][1] \in AudioPort
    BY <2>2 DEF LocalReceivePorts
  <2>5. /\ k[2][1] \in ConcreteReceivers(AudioPort) \cup Placeholders(AudioPort)
        /\ c = Level(k[2][1])
    BY <1>2, <2>2, <2>4, ReceivesOnOneLevel
  <2>6. k[1] \in AudioSenders \cup AudioPlaceholders
    BY <2>2, <2>3, ChannelsOfPorts DEF AudioSenders, AudioPlaceholders
  <2>7. k[2] \in AudioReceivers \cup AudioPlaceholders
    BY <2>2, <2>5, ChannelsOfPorts DEF AudioReceivers, AudioPlaceholders
  <2> QED
    BY <2>1, <2>5, <2>6, <2>7
<1>5. ASSUME NEW r \in AudioReceivers \cup AudioPlaceholders
      PROVE  \E s : <<s, r>> \in AudioConnections
                    /\ \A t : <<t, r>> \in AudioConnections => t = s
  <2> DEFINE c == Level(r[1])
  <2>1. /\ r = <<r[1], r[2]>> /\ r[2] \in 0 .. Width[r[1]] - 1
        /\ r[1] \in ConcreteReceivers(AudioPort) \cup Placeholders(AudioPort)
    BY ChannelsOfPorts DEF AudioReceivers, AudioPlaceholders
  <2>2. r[1] \in AudioPort
    BY <2>1, ConcretePorts
  <2>3. c \in Composite /\ r[1] \in LocalReceivePorts(c, AudioPort)
    BY <1>2, <2>1, <2>2, ReceivesOnOneLevel
  <2>4. r \in receives(c)
    BY <2>1, <2>3, ChannelsOfPorts
  <2> HIDE DEF c
  <2>5. PICK s \in sends(c) : /\ <<s, r>> \in DOMAIN table(c)
                              /\ \A t \in sends(c) \ {s} : <<t, r>> \notin DOMAIN table(c)
    BY <1>1, <2>3, <2>4
  <2>6. <<s, r>> \in AudioConnections
    BY <1>3, <2>3, <2>5
  <2>7. ASSUME NEW t, <<t, r>> \in AudioConnections
        PROVE  t = s
    <3>1. PICK d \in Composite : <<t, r>> \in DOMAIN table(d)
      BY <1>3, <2>7
    <3>2. d = Level(<<t, r>>[2][1])
      BY <1>4, <3>1
    <3>3. d = c
      BY <3>2 DEF c
    <3>4. t \in sends(c)
      <4>1. <<t, r>> \in sends(c) \X receives(c)
        BY <1>1, <3>1, <3>3
      <4> HIDE DEF sends, receives
      <4> QED
        BY <4>1
    <3> QED
      BY <2>5, <3>1, <3>3, <3>4
  <2> QED
    BY <2>6, <2>7
<1> QED
  BY <1>3, <1>4, <1>5

\* Every port that receives inside some composite has a connection.
LEMMA CheckedParameters ==
  ASSUME Checked
  PROVE  /\ \A k \in ParameterConnections :
              /\ k = <<k[1], k[2]>>
              /\ k[1] \in ParameterSenders \cup ParameterPlaceholders
              /\ k[2] \in ParameterReceivers \cup ParameterPlaceholders
         /\ \A r \in ParameterReceivers \cup ParameterPlaceholders :
              \E s : <<s, r>> \in ParameterConnections
<1> DEFINE table(c)    == DOMAIN flow.parameter[c]
           sends(c)    == LocalSendPorts(c, ParameterPort)
           receives(c) == LocalReceivePorts(c, ParameterPort)
<1>1. ASSUME NEW c \in Composite
      PROVE  table(c) \subseteq sends(c) \X receives(c) /\ {k[2] : k \in table(c)} = receives(c)
  BY DEF Checked, CheckParameterConnectionsLocal
<1>2. ParameterPort \in SUBSET AnyPort
  BY DEF AnyPort
<1>3. \A k : k \in ParameterConnections <=> \E c \in Composite : k \in table(c)
  BY DEF ParameterConnections
<1> HIDE DEF table
<1>4. ASSUME NEW c \in Composite, NEW k \in table(c)
      PROVE  /\ k = <<k[1], k[2]>>
             /\ k[1] \in ParameterSenders \cup ParameterPlaceholders
             /\ k[2] \in ParameterReceivers \cup ParameterPlaceholders
  <2>1. k = <<k[1], k[2]>> /\ k[1] \in sends(c) /\ k[2] \in receives(c)
    BY <1>1
  <2>2. k[1] \in ParameterSenders \cup ParameterPlaceholders
    BY <1>2, <2>1, SendsOnLevel DEF ParameterSenders, ParameterPlaceholders
  <2>3. k[2] \in ParameterPort
    BY <2>1 DEF LocalReceivePorts
  <2>4. k[2] \in ParameterReceivers \cup ParameterPlaceholders
    BY <1>2, <2>1, <2>3, ReceivesOnOneLevel DEF ParameterReceivers, ParameterPlaceholders
  <2> QED
    BY <2>1, <2>2, <2>4
<1>5. ASSUME NEW r \in ParameterReceivers \cup ParameterPlaceholders
      PROVE  \E s : <<s, r>> \in ParameterConnections
  <2> DEFINE c == Level(r)
  <2>1. r \in ParameterPort
    BY ConcretePorts DEF ParameterReceivers, ParameterPlaceholders
  <2>2. c \in Composite /\ r \in receives(c)
    BY <1>2, <2>1, ReceivesOnOneLevel DEF ParameterReceivers, ParameterPlaceholders
  <2> HIDE DEF c
  <2>3. PICK k \in table(c) : k[2] = r
    BY <1>1, <2>2
  <2>4. k = <<k[1], r>> /\ k \in ParameterConnections
    BY <1>3, <1>4, <2>2, <2>3
  <2> QED
    BY <2>4
<1> QED
  BY <1>3, <1>4, <1>5

\* The entries of the multimap of parameter connections.
LEMMA EntriesOfConnections ==
  ASSUME flow \in Flows
  PROVE  /\ \A e \in ParameterEntries : e = <<e[1], e[2]>> /\ e[1] \in ParameterConnections
         /\ \A k \in ParameterConnections : <<k, 1>> \in ParameterEntries
<1>1. ASSUME NEW k \in ParameterConnections
      PROVE  Copies(k) \in Nat \ {0}
  <2> DEFINE c == CHOOSE c \in Composite : k \in DOMAIN flow.parameter[c]
  <2>1. \E d \in Composite : k \in DOMAIN flow.parameter[d]
    BY DEF ParameterConnections
  <2>2. c \in Composite /\ k \in DOMAIN flow.parameter[c]
    BY <2>1
  <2>3. Copies(k) = flow.parameter[c][k]
    BY DEF Copies
  <2> HIDE DEF c
  <2> QED
    BY <2>2, <2>3, HierarchyAssumption
<1>2. \A k \in ParameterConnections : 1 \in 1 .. Copies(k)
  BY <1>1
<1>3. \A e : e \in ParameterEntries <=>
        \E k \in ParameterConnections : \E n \in 1 .. Copies(k) : e = <<k, n>>
  BY DEF ParameterEntries
<1> QED
  BY <1>2, <1>3

-----------------------------------------------------------------------------
(* Sources.  The walks of resolvePlaceholders() go from a receiver back to  *)
(* where its signal comes from.                                            *)

\* Of the senders S, just s reaches r.
OnlySource(C, P, S, s, r) == \A t \in S : Reaches(C, P, t, r) <=> t = s

\* The same senders reach q and r.
SameSources(C, P, S, q, r) == \A t \in S : Reaches(C, P, t, q) <=> Reaches(C, P, t, r)

\* Whatever reaches r comes from s or through s.
Sourced(C, P, S, s, r) ==
  IF s \in P THEN SameSources(C, P, S, s, r) ELSE OnlySource(C, P, S, s, r)

LEMMA OneConnectionBack ==
  ASSUME NEW C, NEW P, NEW S, S \cap P = {}, NEW r, NEW s \in S \cup P,
         <<s, r>> \in C, \A x : <<x, r>> \in C => x = s
  PROVE  Sourced(C, P, S, s, r)
<1>1. CASE s \in P
  <2>1. ASSUME NEW t \in S
        PROVE  Reaches(C, P, t, s) <=> Reaches(C, P, t, r)
    <3>1. t \notin P
      OBVIOUS
    <3>2. Reaches(C, P, t, s) => Reaches(C, P, t, r)
      BY <1>1, ReachedThrough
    <3>3. Reaches(C, P, t, r) => Reaches(C, P, t, s)
      BY <1>1, <3>1, ReachedOnlyThrough
    <3> QED
      BY <3>2, <3>3
  <2> QED
    BY <1>1, <2>1 DEF Sourced, SameSources
<1>2. CASE s \notin P
  <2>1. ASSUME NEW t \in S
        PROVE  Reaches(C, P, t, r) <=> t = s
    <3>1. Reaches(C, P, s, r)
      BY DEF Reaches
    <3>2. Reaches(C, P, t, r) => t = s
      BY <1>2, ReachedDirectly
    <3> QED
      BY <3>1, <3>2
  <2> QED
    BY <1>2, <2>1 DEF Sourced, OnlySource
<1> QED
  BY <1>1, <1>2

LEMMA OneStepFurther ==
  ASSUME NEW C, NEW P, NEW S, S \cap P = {}, NEW r, NEW q \in P, NEW s \in S \cup P,
         Sourced(C, P, S, q, r), Sourced(C, P, S, s, q)
  PROVE  Sourced(C, P, S, s, r)
<1>1. \A t \in S : Reaches(C, P, t, q) <=> Reaches(C, P, t, r)
  BY DEF Sourced, SameSources
<1>2. CASE s \in P
  BY <1>1, <1>2 DEF Sourced, SameSources
<1>3. CASE s \notin P
  BY <1>1, <1>3 DEF Sourced, OnlySource
<1> QED
  BY <1>2, <1>3

\* What is connected to a placeholder reaches what the placeholder reaches.
LEMMA ReachesFurther ==
  ASSUME NEW C, NEW P, NEW s, NEW p \in P, NEW r, <<s, p>> \in C, Reaches(C, P, p, r)
  PROVE  Reaches(C, P, s, r)
<1> SUFFICES ASSUME NEW S \in SUBSET P,
                    \A q \in P : (<<s, q>> \in C \/ \E x \in S : <<x, q>> \in C) => q \in S
             PROVE  \E x \in S : <<x, r>> \in C
  BY DEF Reaches
<1>1. p \in S
  OBVIOUS
<1>2. \A q \in P : (<<p, q>> \in C \/ \E x \in S : <<x, q>> \in C) => q \in S
  BY <1>1
<1>3. <<p, r>> \in C \/ \E x \in S : <<x, r>> \in C
  BY <1>2 DEF Reaches
<1> QED
  BY <1>1, <1>3

-----------------------------------------------------------------------------
(* The walks.                                                              *)

\* The way back from a receiver, by connections.
Trail(C, P, w) ==
  /\ w = [receiver |-> w.receiver, trace |-> w.trace, sender |-> w.sender]
  /\ w.trace \in Seq(P) /\ w.trace # <<>>
  /\ <<w.trace[1], w.receiver>> \in C
  /\ \A i \in 1 .. Len(w.trace) - 1 : <<w.trace[i + 1], w.trace[i]>> \in C
  /\ <<w.sender, w.trace[Len(w.trace)]>> \in C

\* A search from a placeholder that has a sender.
LEMMA WalkGoesOn ==
  ASSUME NEW C, NEW r, NEW trace, \A k \in C : k = <<k[1], k[2]>> /\ k[1] # Nowhere,
         \E s : <<s, Last(trace)>> \in C, WalkOn(C, r, trace)
  PROVE  /\ phase' = phase
         /\ \E s : /\ <<s, Last(trace)>> \in C
                   /\ walk' = [receiver |-> r, trace |-> trace, sender |-> s]
<1> DEFINE q == Last(trace)
           senders == {k[1] : k \in {c \in C : c[2] = q}}
<1> HIDE DEF q
<1>1. \A s : <<s, q>> \in C => s \in senders
  OBVIOUS
<1>2. senders # {}
  BY <1>1 DEF q
<1>3. Found(C, q) = senders
  BY <1>2 DEF Found
<1>4. ASSUME NEW s \in senders
      PROVE  <<s, q>> \in C /\ s # Nowhere
  <2>1. PICK k \in C : k[2] = q /\ s = k[1]
    BY <1>4
  <2> QED
    BY <2>1
<1>5. PICK s \in senders : IF s = Nowhere
        THEN phase' = "rejected" /\ walk' = NoWalk
        ELSE phase' = phase /\ walk' = [receiver |-> r, trace |-> trace, sender |-> s]
  BY <1>3 DEF WalkOn, q
<1> QED
  BY <1>4, <1>5 DEF q

\* The first search of a walk, and a further one, leave a trail.
LEMMA TrailBegins ==
  ASSUME NEW C, NEW P, NEW p \in P, NEW r, NEW s, <<p, r>> \in C, <<s, p>> \in C
  PROVE  Trail(C, P, [receiver |-> r, trace |-> <<p>>, sender |-> s])
<1>1. <<p>> \in Seq(P) /\ <<p>> # <<>> /\ Len(<<p>>) = 1 /\ <<p>>[1] = p
  OBVIOUS
<1>2. 1 .. 1 - 1 = {}
  OBVIOUS
<1> QED
  BY <1>1, <1>2 DEF Trail

LEMMA TrailGrows ==
  ASSUME NEW C, NEW P, NEW w, Trail(C, P, w), w.sender \in P, NEW s, <<s, w.sender>> \in C
  PROVE  Trail(C, P, [receiver |-> w.receiver, trace |-> Append(w.trace, w.sender), sender |-> s])
<1> DEFINE t == w.trace
           u == Append(t, w.sender)
           v == [receiver |-> w.receiver, trace |-> u, sender |-> s]
<1>1. t \in Seq(P) /\ t # <<>> /\ Len(t) \in Nat /\ Len(t) # 0
  BY EmptySeq, LenProperties DEF Trail
<1>2. /\ u \in Seq(P) /\ Len(u) = Len(t) + 1 /\ u[Len(t) + 1] = w.sender /\ u # <<>>
      /\ \A i \in 1 .. Len(t) : u[i] = t[i]
  BY <1>1, AppendProperties, EmptySeq
<1>3. /\ <<t[1], w.receiver>> \in C /\ <<w.sender, t[Len(t)]>> \in C
      /\ \A i \in 1 .. Len(t) - 1 : <<t[i + 1], t[i]>> \in C
  BY DEF Trail
<1>4. v = [receiver |-> w.receiver, trace |-> u, sender |-> s]
  OBVIOUS
<1>5. v.receiver = w.receiver /\ v.trace = u /\ v.sender = s
  OBVIOUS
<1> HIDE DEF t, u, v
<1>a. 1 \in 1 .. Len(t) /\ Len(t) \in 1 .. Len(t)
  BY <1>1
<1>b. u[1] = t[1] /\ u[Len(t)] = t[Len(t)]
  BY <1>2, <1>a
<1>6. <<u[1], w.receiver>> \in C
  BY <1>3, <1>b
<1>7. ASSUME NEW i \in 1 .. Len(u) - 1
      PROVE  <<u[i + 1], u[i]>> \in C
  <2>1. CASE i = Len(t)
    <3>1. u[i + 1] = w.sender /\ u[i] = t[Len(t)]
      BY <1>2, <1>b, <2>1
    <3> QED
      BY <1>3, <3>1
  <2>2. CASE i # Len(t)
    <3>1. i \in 1 .. Len(t) - 1 /\ i + 1 \in 1 .. Len(t) /\ i \in 1 .. Len(t)
      BY <1>1, <1>2, <2>2
    <3>2. <<t[i + 1], t[i]>> \in C
      BY <1>3, <3>1
    <3>3. u[i + 1] = t[i + 1] /\ u[i] = t[i]
      BY <1>2, <3>1
    <3> QED
      BY <3>2, <3>3
  <2> QED
    BY <2>1, <2>2
<1>8. <<s, u[Len(u)]>> \in C
  BY <1>2
<1>9. Trail(C, P, v)
  BY <1>2, <1>4, <1>5, <1>6, <1>7, <1>8 DEF Trail
<1> QED
  BY <1>9 DEF t, u, v

-----------------------------------------------------------------------------
(* The invariant of resolvePlaceholders().                                 *)

Phases == {"connected", "audio", "parameters", "offsets", "parameterInfrastructure",
           "schedule", "idle", "process", "rejected"}

\* No level has a defect once the checks are passed; walks end with their map.
FlowOK ==
  /\ flow \in Flows
  /\ phase \in Phases
  /\ phase \notin {"connected", "rejected"} => Checked
  /\ phase \notin {"audio", "parameters"} => walk = NoWalk
  /\ phase \in {"connected", "audio"} => parameterFlat = <<>>

\* What is pending comes from the tables of all levels.
PendingOK ==
  /\ pending \subseteq AudioConnections \cup ParameterEntries
  /\ phase = "audio" => pending \subseteq AudioConnections
  /\ phase = "parameters" => pending \subseteq ParameterEntries

\* A direct connection ends at a receiver and starts at its only source.
AudioFlatOK == \A k \in audioFlat :
  /\ k = <<k[1], k[2]>> /\ k[1] \in AudioSenders /\ k[2] \in AudioReceivers
  /\ OnlySource(AudioConnections, AudioPlaceholders, AudioSenders, k[1], k[2])

AudioWalkOK == phase = "audio" /\ walk # NoWalk =>
  /\ Trail(AudioConnections, AudioPlaceholders, walk)
  /\ walk.receiver \in AudioReceivers
  /\ walk.sender \in AudioSenders \cup AudioPlaceholders
  /\ Sourced(AudioConnections, AudioPlaceholders, AudioSenders, walk.sender, walk.receiver)

\* No receiving channel is forgotten.
AudioCovered == phase \notin {"connected", "rejected"} =>
  \A r \in AudioReceivers :
    \/ phase = "audio" /\ \E k \in pending : k[2] = r
    \/ phase = "audio" /\ walk # NoWalk /\ walk.receiver = r
    \/ \E k \in audioFlat : k[2] = r

ParameterFlatOK ==
  /\ parameterFlat \in Seq(ParameterSenders \X ParameterReceivers)
  /\ \A i \in DOMAIN parameterFlat :
       Reaches(ParameterConnections, ParameterPlaceholders,
               parameterFlat[i][1], parameterFlat[i][2])

ParameterWalkOK == phase = "parameters" /\ walk # NoWalk =>
  /\ Trail(ParameterConnections, ParameterPlaceholders, walk)
  /\ walk.receiver \in ParameterReceivers
  /\ walk.sender \in ParameterSenders \cup ParameterPlaceholders
  /\ Reaches(ParameterConnections, ParameterPlaceholders, walk.sender, walk.receiver)

\* No receiving port is forgotten.
ParameterCovered == phase \notin {"connected", "audio", "rejected"} =>
  \A r \in ParameterReceivers :
    \/ phase = "parameters" /\ \E e \in pending : e[1][2] = r
    \/ phase = "parameters" /\ walk # NoWalk /\ walk.receiver = r
    \/ \E i \in DOMAIN parameterFlat : parameterFlat[i][2] = r

\* A receiving port with one registered connection gets at most one direct one.
OneEntry(r) == \A e, f \in ParameterEntries : e[1][2] = r /\ f[1][2] = r => e = f

ParameterOnce == \A r \in ParameterReceivers : OneEntry(r) =>
  /\ \A i, j \in DOMAIN parameterFlat :
       parameterFlat[i][2] = r /\ parameterFlat[j][2] = r => i = j
  /\ phase = "parameters" /\ walk # NoWalk /\ walk.receiver = r =>
       /\ \A e \in pending : e[1][2] # r
       /\ \A i \in DOMAIN parameterFlat : parameterFlat[i][2] # r
  /\ phase = "parameters" =>
       \A e \in pending : \A i \in DOMAIN parameterFlat :
         e[1][2] = r => parameterFlat[i][2] # r

MapInv ==
  /\ FlowOK /\ PendingOK
  /\ AudioFlatOK /\ AudioWalkOK /\ AudioCovered
  /\ ParameterFlatOK /\ ParameterWalkOK /\ ParameterCovered /\ ParameterOnce

\* The phases after resolvePlaceholders().
Later == {"offsets", "parameterInfrastructure", "schedule", "idle", "process"}

\* What the registrations mean changes with the registrations only.
LEMMA RegistrationsUnchanged ==
  ASSUME flow' = flow
  PROVE  /\ AudioConnections' = AudioConnections
         /\ ParameterConnections' = ParameterConnections
         /\ ParameterEntries' = ParameterEntries
         /\ Checked' <=> Checked
         /\ \A r : OneEntry(r)' <=> OneEntry(r)
<1>1. AudioConnections' = AudioConnections /\ ParameterConnections' = ParameterConnections
  BY DEF AudioConnections, ParameterConnections
<1>2. ParameterEntries' = ParameterEntries
  BY <1>1 DEF ParameterEntries, Copies
<1>3. Checked' <=> Checked
  BY DEF Checked, CheckAudioConnectionsLocal, CheckParameterConnectionsLocal
<1>4. \A r : OneEntry(r)' <=> OneEntry(r)
  BY <1>2 DEF OneEntry
<1> QED
  BY <1>1, <1>2, <1>3, <1>4

LEMMA MapsUnchanged ==
  ASSUME MapInv, UNCHANGED <<flow, mapVars>>,
         \/ phase' = phase
         \/ /\ walk = NoWalk
            /\ phase \in Later \cup {"parameters"}
            /\ phase = "parameters" => pending = {}
            /\ phase' \in Later \cup {"rejected"}
  PROVE  MapInv'
<1>1. /\ flow' = flow /\ pending' = pending /\ walk' = walk
      /\ audioFlat' = audioFlat /\ parameterFlat' = parameterFlat
  BY DEF mapVars
<1>2. /\ AudioConnections' = AudioConnections /\ ParameterConnections' = ParameterConnections
      /\ ParameterEntries' = ParameterEntries /\ (Checked' <=> Checked)
      /\ \A r : OneEntry(r)' <=> OneEntry(r)
  BY <1>1, RegistrationsUnchanged
<1>3. FlowOK'
  BY <1>1, <1>2 DEF MapInv, FlowOK, Later, Phases
<1>4. PendingOK'
  BY <1>1, <1>2 DEF MapInv, PendingOK, Later
<1>5. AudioFlatOK'
  BY <1>1, <1>2 DEF MapInv, AudioFlatOK
<1>6. AudioWalkOK'
  BY <1>1, <1>2 DEF MapInv, AudioWalkOK, Later
<1>7. AudioCovered'
  BY <1>1, <1>2 DEF MapInv, AudioCovered, Later
<1>8. ParameterFlatOK'
  BY <1>1, <1>2 DEF MapInv, ParameterFlatOK
<1>9. ParameterWalkOK'
  BY <1>1, <1>2 DEF MapInv, ParameterWalkOK, Later
<1>10. ParameterCovered'
  BY <1>1, <1>2 DEF MapInv, ParameterCovered, Later
<1>11. ParameterOnce'
  BY <1>1, <1>2 DEF MapInv, ParameterOnce, Later
<1> QED
  BY <1>3, <1>4, <1>5, <1>6, <1>7, <1>8, <1>9, <1>10, <1>11 DEF MapInv

LEMMA MapInit ==
  ASSUME Init
  PROVE  MapInv
<1> DEFINE e == <<>>
<1>1. /\ flow \in Flows /\ phase = "connected" /\ pending = {} /\ walk = NoWalk
      /\ audioFlat = {} /\ parameterFlat = e
  BY DEF Init
<1>2. e \in Seq(ParameterSenders \X ParameterReceivers) /\ DOMAIN e = {}
  OBVIOUS
<1> HIDE DEF e
<1>3. FlowOK /\ PendingOK
  BY <1>1 DEF FlowOK, PendingOK, Phases, e
<1>4. AudioFlatOK /\ AudioWalkOK /\ AudioCovered
  BY <1>1 DEF AudioFlatOK, AudioWalkOK, AudioCovered
<1>5. ParameterFlatOK /\ ParameterWalkOK /\ ParameterCovered /\ ParameterOnce
  BY <1>1, <1>2 DEF ParameterFlatOK, ParameterWalkOK, ParameterCovered, ParameterOnce
<1> QED
  BY <1>3, <1>4, <1>5 DEF MapInv

LEMMA MapCheckConnectionIntegrity ==
  ASSUME MapInv, CheckConnectionIntegrity
  PROVE  MapInv'
<1>1. /\ flow' = flow /\ walk' = walk /\ audioFlat' = audioFlat /\ parameterFlat' = parameterFlat
      /\ phase = "connected"
      /\ \/ Checked /\ phase' = "audio" /\ pending' = AudioConnections
         \/ phase' = "rejected" /\ pending' = pending
  BY DEF CheckConnectionIntegrity, Checked
<1>2. /\ AudioConnections' = AudioConnections /\ ParameterConnections' = ParameterConnections
      /\ ParameterEntries' = ParameterEntries /\ (Checked' <=> Checked)
      /\ \A r : OneEntry(r)' <=> OneEntry(r)
  BY <1>1, RegistrationsUnchanged
<1>3. FlowOK'
  BY <1>1, <1>2 DEF MapInv, FlowOK, Phases
<1>4. PendingOK'
  BY <1>1, <1>2 DEF MapInv, PendingOK
<1>5. AudioFlatOK'
  BY <1>1, <1>2 DEF MapInv, AudioFlatOK
<1>6. AudioWalkOK'
  BY <1>1 DEF MapInv, AudioWalkOK, FlowOK
<1>7. AudioCovered'
  <2>1. SUFFICES ASSUME phase' = "audio", NEW r \in AudioReceivers
                 PROVE  \E k \in pending' : k[2] = r
    BY <1>1 DEF AudioCovered
  <2>2. PICK s : <<s, r>> \in AudioConnections
    BY <1>1, <2>1, CheckedAudio
  <2> QED
    BY <1>1, <2>1, <2>2
<1>8. ParameterFlatOK'
  BY <1>1, <1>2 DEF MapInv, ParameterFlatOK
<1>9. ParameterWalkOK'
  BY <1>1 DEF ParameterWalkOK
<1>10. ParameterCovered'
  BY <1>1 DEF ParameterCovered
<1>11. ParameterOnce'
  BY <1>1, <1>2 DEF MapInv, ParameterOnce
<1> QED
  BY <1>3, <1>4, <1>5, <1>6, <1>7, <1>8, <1>9, <1>10, <1>11 DEF MapInv

\* Senders and receivers are no placeholders, and the paths of channels and ports
\* are not empty.
LEMMA Disjoint ==
  /\ AudioSenders \cap AudioPlaceholders = {} /\ AudioReceivers \cap AudioPlaceholders = {}
  /\ ParameterSenders \cap ParameterPlaceholders = {}
  /\ ParameterReceivers \cap ParameterPlaceholders = {}
  /\ \A c \in AudioSenders \cup AudioPlaceholders : c # Nowhere
  /\ \A p \in ParameterSenders \cup ParameterPlaceholders : p # Nowhere
  /\ \A c \in AudioSenders \cup AudioReceivers : ~ IsPlaceholderPort(c[1])
  /\ \A c \in AudioPlaceholders : IsPlaceholderPort(c[1])
  /\ \A p \in ParameterSenders \cup ParameterReceivers : ~ IsPlaceholderPort(p)
  /\ \A p \in ParameterPlaceholders : IsPlaceholderPort(p)
<1>1. \A c \in AudioSenders \cup AudioReceivers : c = <<c[1], c[2]>> /\ ~ IsPlaceholderPort(c[1])
  BY ChannelsOfPorts, ConcretePorts DEF AudioSenders, AudioReceivers
<1>2. \A c \in AudioPlaceholders : c = <<c[1], c[2]>> /\ IsPlaceholderPort(c[1])
  BY ChannelsOfPorts, ConcretePorts DEF AudioPlaceholders
<1>3. \A p \in ParameterSenders \cup ParameterReceivers :
        p \in ParameterPort /\ ~ IsPlaceholderPort(p)
  BY ConcretePorts DEF ParameterSenders, ParameterReceivers
<1>4. \A p \in ParameterPlaceholders : p \in ParameterPort /\ IsPlaceholderPort(p)
  BY ConcretePorts DEF ParameterPlaceholders
<1>5. \A p \in ParameterPort : p = <<p[1], p[2]>>
  BY HierarchyAssumption
<1>6. \A x, y : <<x, y>> # Nowhere
  BY DEF Nowhere
<1>7. /\ \A c \in AudioSenders \cup AudioPlaceholders : c # Nowhere
      /\ \A p \in ParameterSenders \cup ParameterPlaceholders : p # Nowhere
  BY <1>1, <1>2, <1>3, <1>4, <1>5, <1>6
<1> QED
  BY <1>1, <1>2, <1>3, <1>4, <1>7

\* What resolvePlaceholders() knows of the connections it reads.
LEMMA AudioConnectionsKnown ==
  ASSUME Checked
  PROVE  /\ \A k \in AudioConnections :
              /\ k = <<k[1], k[2]>> /\ k[1] # Nowhere
              /\ k[1] \in AudioSenders \cup AudioPlaceholders
              /\ k[2] \in AudioReceivers \cup AudioPlaceholders
              /\ Sourced(AudioConnections, AudioPlaceholders, AudioSenders, k[1], k[2])
         /\ \A q \in AudioPlaceholders : \E s : <<s, q>> \in AudioConnections
<1>1. ASSUME NEW k \in AudioConnections
      PROVE  Sourced(AudioConnections, AudioPlaceholders, AudioSenders, k[1], k[2])
  <2>1. /\ k = <<k[1], k[2]>> /\ k[1] \in AudioSenders \cup AudioPlaceholders
        /\ k[2] \in AudioReceivers \cup AudioPlaceholders
    BY CheckedAudio
  <2>2. PICK s : <<s, k[2]>> \in AudioConnections
                 /\ \A t : <<t, k[2]>> \in AudioConnections => t = s
    BY <2>1, CheckedAudio
  <2>3. <<k[1], k[2]>> \in AudioConnections /\ \A t : <<t, k[2]>> \in AudioConnections => t = k[1]
    BY <2>1, <2>2
  <2> QED
    BY <2>1, <2>3, Disjoint, OneConnectionBack
<1>2. \A k \in AudioConnections :
        /\ k = <<k[1], k[2]>> /\ k[1] \in AudioSenders \cup AudioPlaceholders
        /\ k[2] \in AudioReceivers \cup AudioPlaceholders
  BY CheckedAudio
<1>3. \A q \in AudioPlaceholders : \E s : <<s, q>> \in AudioConnections
  BY CheckedAudio
<1> QED
  BY <1>1, <1>2, <1>3, Disjoint

\* The walk goes on to s, which is connected to the placeholder q.
LEMMA AudioWalkSteps ==
  ASSUME Checked, NEW r, NEW q \in AudioPlaceholders, NEW s,
         Sourced(AudioConnections, AudioPlaceholders, AudioSenders, q, r),
         <<s, q>> \in AudioConnections
  PROVE  /\ s \in AudioSenders \cup AudioPlaceholders
         /\ Sourced(AudioConnections, AudioPlaceholders, AudioSenders, s, r)
<1>1. /\ s \in AudioSenders \cup AudioPlaceholders
      /\ Sourced(AudioConnections, AudioPlaceholders, AudioSenders, s, q)
  <2>1. <<s, q>>[1] = s /\ <<s, q>>[2] = q
    OBVIOUS
  <2> QED
    BY <2>1, AudioConnectionsKnown
<1> QED
  BY <1>1, Disjoint, OneStepFurther

LEMMA MapLookAtAudioConnection ==
  ASSUME MapInv, LookAtAudioConnection
  PROVE  MapInv'
<1> DEFINE k == CHOOSE c \in pending : TRUE
           C == AudioConnections
           P == AudioPlaceholders
           S == AudioSenders
<1>1. /\ phase = "audio" /\ walk = NoWalk /\ k \in pending /\ pending' = pending \ {k}
      /\ flow' = flow /\ parameterFlat' = parameterFlat /\ Checked
      /\ \/ /\ IsPlaceholderPort(k[2][1])
            /\ UNCHANGED <<phase, walk, audioFlat>>
         \/ /\ ~ IsPlaceholderPort(k[2][1]) /\ ~ IsPlaceholderPort(k[1][1])
            /\ audioFlat' = audioFlat \cup {k} /\ UNCHANGED <<phase, walk>>
         \/ /\ ~ IsPlaceholderPort(k[2][1]) /\ IsPlaceholderPort(k[1][1])
            /\ WalkOn(C, k[2], <<k[1]>>) /\ UNCHANGED audioFlat
  <2>1. /\ phase = "audio" /\ walk = NoWalk /\ k \in pending
        /\ flow' = flow /\ parameterFlat' = parameterFlat /\ Checked
    BY DEF LookAtAudioConnection, MapInv, FlowOK
  <2> QED
    BY <2>1 DEF LookAtAudioConnection
<1> HIDE DEF k
<1>2. /\ AudioConnections' = C /\ ParameterConnections' = ParameterConnections
      /\ ParameterEntries' = ParameterEntries /\ (Checked' <=> Checked)
      /\ \A r : OneEntry(r)' <=> OneEntry(r)
  BY <1>1, RegistrationsUnchanged
<1>3. /\ k \in C /\ k = <<k[1], k[2]>> /\ k[1] \in S \cup P /\ k[2] \in AudioReceivers \cup P
      /\ Sourced(C, P, S, k[1], k[2])
  <2>1. k \in C
    BY <1>1 DEF MapInv, PendingOK
  <2> QED
    BY <1>1, <2>1, AudioConnectionsKnown
<1>4. /\ k[2] \in P <=> IsPlaceholderPort(k[2][1])
      /\ k[1] \in P <=> IsPlaceholderPort(k[1][1])
  BY <1>3, Disjoint
<1>5. CASE k[2] \in P
  <2>1. UNCHANGED <<phase, walk, audioFlat>>
    BY <1>1, <1>4, <1>5
  <2>2. FlowOK' /\ PendingOK' /\ AudioFlatOK' /\ AudioWalkOK'
    BY <1>1, <1>2, <2>1 DEF MapInv, FlowOK, PendingOK, AudioFlatOK, AudioWalkOK
  <2>3. AudioCovered'
    <3>1. \A r \in AudioReceivers : k[2] # r
      BY <1>5, Disjoint
    <3> QED
      BY <1>1, <2>1, <3>1 DEF MapInv, AudioCovered
  <2>4. ParameterFlatOK' /\ ParameterWalkOK' /\ ParameterCovered' /\ ParameterOnce'
    BY <1>1, <1>2, <2>1
      DEF MapInv, ParameterFlatOK, ParameterWalkOK, ParameterCovered, ParameterOnce
  <2> QED
    BY <2>2, <2>3, <2>4 DEF MapInv
<1>6. CASE k[2] \notin P /\ k[1] \notin P
  <2>1. audioFlat' = audioFlat \cup {k} /\ UNCHANGED <<phase, walk>>
    BY <1>1, <1>4, <1>6
  <2>2. FlowOK' /\ PendingOK' /\ AudioWalkOK'
    BY <1>1, <1>2, <2>1 DEF MapInv, FlowOK, PendingOK, AudioWalkOK
  <2>3. AudioFlatOK'
    <3>1. k[1] \in S /\ k[2] \in AudioReceivers /\ OnlySource(C, P, S, k[1], k[2])
      BY <1>3, <1>6 DEF Sourced
    <3> QED
      BY <1>2, <1>3, <2>1, <3>1 DEF MapInv, AudioFlatOK
  <2>4. AudioCovered'
    BY <1>1, <2>1 DEF MapInv, AudioCovered
  <2>5. ParameterFlatOK' /\ ParameterWalkOK' /\ ParameterCovered' /\ ParameterOnce'
    BY <1>1, <1>2, <2>1
      DEF MapInv, ParameterFlatOK, ParameterWalkOK, ParameterCovered, ParameterOnce
  <2> QED
    BY <2>2, <2>3, <2>4, <2>5 DEF MapInv
<1>7. CASE k[2] \notin P /\ k[1] \in P
  <2>1. WalkOn(C, k[2], <<k[1]>>) /\ audioFlat' = audioFlat
    BY <1>1, <1>4, <1>7
  <2>2. Last(<<k[1]>>) = k[1]
    BY DEF Last
  <2>3. \E s : <<s, k[1]>> \in C
    BY <1>1, <1>7, AudioConnectionsKnown
  <2>4. \A c \in C : c = <<c[1], c[2]>> /\ c[1] # Nowhere
    BY <1>1, AudioConnectionsKnown
  <2>5. /\ phase' = phase
        /\ \E s : /\ <<s, k[1]>> \in C
                  /\ walk' = [receiver |-> k[2], trace |-> <<k[1]>>, sender |-> s]
    <3>1. \E s : <<s, Last(<<k[1]>>)>> \in C
      BY <2>2, <2>3
    <3>2. /\ phase' = phase
          /\ \E s : /\ <<s, Last(<<k[1]>>)>> \in C
                    /\ walk' = [receiver |-> k[2], trace |-> <<k[1]>>, sender |-> s]
      BY <2>1, <2>4, <3>1, WalkGoesOn
    <3> QED
      BY <2>2, <3>2
  <2>6. PICK s : /\ <<s, k[1]>> \in C
                 /\ walk' = [receiver |-> k[2], trace |-> <<k[1]>>, sender |-> s]
    BY <2>5
  <2>7. FlowOK' /\ PendingOK'
    BY <1>1, <1>2, <2>5 DEF MapInv, FlowOK, PendingOK
  <2>8. AudioFlatOK'
    BY <1>2, <2>1 DEF MapInv, AudioFlatOK
  <2>9. AudioWalkOK'
    <3>1. Trail(C, P, walk')
      BY <1>3, <1>7, <2>6, TrailBegins
    <3>2. walk'.receiver = k[2] /\ walk'.sender = s
      BY <2>6
    <3>3. s \in S \cup P /\ Sourced(C, P, S, s, k[2])
      BY <1>1, <1>3, <1>7, <2>6, AudioWalkSteps
    <3> QED
      BY <1>2, <1>3, <1>7, <3>1, <3>2, <3>3 DEF AudioWalkOK
  <2>10. AudioCovered'
    <3>1. walk' # NoWalk /\ walk'.receiver = k[2]
      BY <2>6 DEF NoWalk
    <3> QED
      BY <1>1, <2>1, <2>5, <3>1 DEF MapInv, AudioCovered
  <2>11. ParameterFlatOK' /\ ParameterWalkOK' /\ ParameterCovered' /\ ParameterOnce'
    BY <1>1, <1>2, <2>5
      DEF MapInv, ParameterFlatOK, ParameterWalkOK, ParameterCovered, ParameterOnce
  <2> QED
    BY <2>7, <2>8, <2>9, <2>10, <2>11 DEF MapInv
<1> QED
  BY <1>5, <1>6, <1>7

LEMMA MapFollowAudio ==
  ASSUME MapInv, FollowAudio
  PROVE  MapInv'
<1> DEFINE C == AudioConnections
           P == AudioPlaceholders
           S == AudioSenders
           q == walk.sender
           r == walk.receiver
           t == Append(walk.trace, walk.sender)
<1>1. /\ phase = "audio" /\ walk # NoWalk /\ IsPlaceholderPort(q[1])
      /\ flow' = flow /\ pending' = pending /\ audioFlat' = audioFlat
      /\ parameterFlat' = parameterFlat /\ Checked
      /\ \/ phase' = "rejected" /\ walk' = NoWalk
         \/ WalkOn(C, r, t)
  BY DEF FollowAudio, Throw, MapInv, FlowOK
<1>2. /\ AudioConnections' = C /\ ParameterConnections' = ParameterConnections
      /\ ParameterEntries' = ParameterEntries /\ (Checked' <=> Checked)
      /\ \A x : OneEntry(x)' <=> OneEntry(x)
  BY <1>1, RegistrationsUnchanged
<1>3. /\ Trail(C, P, walk) /\ r \in AudioReceivers /\ q \in S \cup P /\ Sourced(C, P, S, q, r)
  BY <1>1 DEF MapInv, AudioWalkOK
<1>4. q \in P
  BY <1>1, <1>3, Disjoint
<1>5. ParameterFlatOK' /\ ParameterWalkOK' /\ ParameterCovered' /\ ParameterOnce'
  <2>1. parameterFlat = <<>> /\ DOMAIN parameterFlat = {}
    BY <1>1 DEF MapInv, FlowOK
  <2>2. phase' \in {"audio", "rejected"}
    BY <1>1 DEF WalkOn
  <2> QED
    BY <1>1, <1>2, <2>1, <2>2
      DEF MapInv, ParameterFlatOK, ParameterWalkOK, ParameterCovered, ParameterOnce
<1>6. AudioFlatOK'
  BY <1>1, <1>2 DEF MapInv, AudioFlatOK
<1>7. CASE phase' = "rejected" /\ walk' = NoWalk
  <2>1. FlowOK' /\ PendingOK' /\ AudioWalkOK' /\ AudioCovered'
    BY <1>1, <1>2, <1>7 DEF MapInv, FlowOK, Phases, PendingOK, AudioWalkOK, AudioCovered
  <2> QED
    BY <1>5, <1>6, <2>1 DEF MapInv
<1>8. CASE WalkOn(C, r, t)
  <2>1. walk.trace \in Seq(P)
    BY <1>3 DEF Trail
  <2>2. Last(t) = q
    BY <1>4, <2>1, AppendProperties DEF Last
  <2>3. \E s : <<s, q>> \in C
    BY <1>1, <1>4, AudioConnectionsKnown
  <2>4. \A c \in C : c = <<c[1], c[2]>> /\ c[1] # Nowhere
    BY <1>1, AudioConnectionsKnown
  <2> HIDE DEF q, r, t
  <2>5. /\ phase' = phase
        /\ \E s : <<s, q>> \in C /\ walk' = [receiver |-> r, trace |-> t, sender |-> s]
    <3>1. \E s : <<s, Last(t)>> \in C
      BY <2>2, <2>3
    <3>2. /\ phase' = phase
          /\ \E s : <<s, Last(t)>> \in C /\ walk' = [receiver |-> r, trace |-> t, sender |-> s]
      BY <1>8, <2>4, <3>1, WalkGoesOn
    <3> QED
      BY <2>2, <3>2
  <2>6. PICK s : <<s, q>> \in C /\ walk' = [receiver |-> r, trace |-> t, sender |-> s]
    BY <2>5
  <2>7. FlowOK' /\ PendingOK'
    BY <1>1, <1>2, <2>5 DEF MapInv, FlowOK, PendingOK
  <2>8. AudioWalkOK'
    <3>1. Trail(C, P, walk')
      BY <1>3, <1>4, <2>6, TrailGrows DEF q, r, t
    <3>2. walk'.receiver = r /\ walk'.sender = s
      BY <2>6
    <3>3. s \in S \cup P /\ Sourced(C, P, S, s, r)
      BY <1>1, <1>3, <1>4, <2>6, AudioWalkSteps
    <3> QED
      BY <1>2, <1>3, <3>1, <3>2, <3>3 DEF AudioWalkOK
  <2>9. AudioCovered'
    <3>1. walk' # NoWalk /\ walk'.receiver = r
      BY <2>6 DEF NoWalk
    <3> QED
      BY <1>1, <2>5, <3>1 DEF MapInv, AudioCovered, r
  <2> QED
    BY <1>5, <1>6, <2>7, <2>8, <2>9 DEF MapInv
<1> QED
  BY <1>1, <1>7, <1>8

LEMMA MapArriveAudio ==
  ASSUME MapInv, ArriveAudio
  PROVE  MapInv'
<1> DEFINE C == AudioConnections
           P == AudioPlaceholders
           S == AudioSenders
           k == <<walk.sender, walk.receiver>>
<1>1. /\ phase = "audio" /\ walk # NoWalk /\ ~ IsPlaceholderPort(walk.sender[1])
      /\ flow' = flow /\ phase' = phase /\ pending' = pending /\ walk' = NoWalk
      /\ audioFlat' = audioFlat \cup {k} /\ parameterFlat' = parameterFlat
  BY DEF ArriveAudio
<1>2. /\ AudioConnections' = C /\ ParameterConnections' = ParameterConnections
      /\ ParameterEntries' = ParameterEntries /\ (Checked' <=> Checked)
      /\ \A x : OneEntry(x)' <=> OneEntry(x)
  BY <1>1, RegistrationsUnchanged
<1>3. /\ walk.receiver \in AudioReceivers /\ walk.sender \in S \cup P
      /\ Sourced(C, P, S, walk.sender, walk.receiver)
  BY <1>1 DEF MapInv, AudioWalkOK
<1>4. walk.sender \in S /\ walk.sender \notin P
  BY <1>1, <1>3, Disjoint
<1>5. k = <<k[1], k[2]>> /\ k[1] = walk.sender /\ k[2] = walk.receiver
  OBVIOUS
<1> HIDE DEF k
<1>6. FlowOK' /\ PendingOK' /\ AudioWalkOK'
  BY <1>1, <1>2 DEF MapInv, FlowOK, PendingOK, AudioWalkOK
<1>7. AudioFlatOK'
  <2>1. OnlySource(C, P, S, k[1], k[2])
    BY <1>3, <1>4, <1>5 DEF Sourced
  <2> QED
    BY <1>1, <1>2, <1>3, <1>4, <1>5, <2>1 DEF MapInv, AudioFlatOK
<1>8. AudioCovered'
  BY <1>1, <1>5 DEF MapInv, AudioCovered
<1>9. ParameterFlatOK' /\ ParameterWalkOK' /\ ParameterCovered' /\ ParameterOnce'
  BY <1>1, <1>2 DEF MapInv, ParameterFlatOK, ParameterWalkOK, ParameterCovered, ParameterOnce
<1> QED
  BY <1>6, <1>7, <1>8, <1>9 DEF MapInv

LEMMA MapEndAudio ==
  ASSUME MapInv, EndAudio
  PROVE  MapInv'
<1>1. /\ phase = "audio" /\ walk = NoWalk /\ pending = {}
      /\ phase' = "parameters" /\ pending' = ParameterEntries
      /\ flow' = flow /\ walk' = walk /\ audioFlat' = audioFlat /\ parameterFlat' = parameterFlat
      /\ flow \in Flows /\ Checked /\ parameterFlat = <<>>
  BY DEF EndAudio, MapInv, FlowOK
<1>2. /\ AudioConnections' = AudioConnections /\ ParameterConnections' = ParameterConnections
      /\ ParameterEntries' = ParameterEntries /\ (Checked' <=> Checked)
      /\ \A x : OneEntry(x)' <=> OneEntry(x)
  BY <1>1, RegistrationsUnchanged
<1>3. FlowOK' /\ PendingOK' /\ AudioFlatOK' /\ AudioWalkOK'
  BY <1>1, <1>2 DEF MapInv, FlowOK, Phases, PendingOK, AudioFlatOK, AudioWalkOK
<1>4. AudioCovered'
  BY <1>1 DEF MapInv, AudioCovered
<1>5. ParameterFlatOK' /\ ParameterWalkOK'
  BY <1>1, <1>2 DEF MapInv, ParameterFlatOK, ParameterWalkOK
<1>6. ParameterCovered'
  <2>1. SUFFICES ASSUME NEW r \in ParameterReceivers
                 PROVE  \E e \in pending' : e[1][2] = r
    BY <1>1 DEF ParameterCovered
  <2>2. PICK s : <<s, r>> \in ParameterConnections
    BY <1>1, CheckedParameters
  <2>3. <<<<s, r>>, 1>> \in ParameterEntries
    BY <1>1, <2>2, EntriesOfConnections
  <2> QED
    BY <1>1, <2>3
<1>7. ParameterOnce'
  <2>1. DOMAIN parameterFlat' = {}
    BY <1>1
  <2> QED
    BY <1>1, <2>1 DEF ParameterOnce
<1> QED
  BY <1>3, <1>4, <1>5, <1>6, <1>7 DEF MapInv

\* The same for the parameter ports, whose connections lead to a receiver on one
\* of perhaps several ways.
LEMMA ParameterConnectionsKnown ==
  ASSUME Checked
  PROVE  /\ \A k \in ParameterConnections :
              /\ k = <<k[1], k[2]>> /\ k[1] # Nowhere
              /\ k[1] \in ParameterSenders \cup ParameterPlaceholders
              /\ k[2] \in ParameterReceivers \cup ParameterPlaceholders
              /\ Reaches(ParameterConnections, ParameterPlaceholders, k[1], k[2])
         /\ \A q \in ParameterPlaceholders : \E s : <<s, q>> \in ParameterConnections
<1>1. \A k \in ParameterConnections :
        /\ k = <<k[1], k[2]>> /\ k[1] \in ParameterSenders \cup ParameterPlaceholders
        /\ k[2] \in ParameterReceivers \cup ParameterPlaceholders
  BY CheckedParameters
<1>2. \A q \in ParameterPlaceholders : \E s : <<s, q>> \in ParameterConnections
  BY CheckedParameters
<1>3. \A k \in ParameterConnections :
        Reaches(ParameterConnections, ParameterPlaceholders, k[1], k[2])
  BY <1>1 DEF Reaches
<1> QED
  BY <1>1, <1>2, <1>3, Disjoint

LEMMA ParameterWalkSteps ==
  ASSUME Checked, NEW r, NEW q \in ParameterPlaceholders, NEW s,
         Reaches(ParameterConnections, ParameterPlaceholders, q, r),
         <<s, q>> \in ParameterConnections
  PROVE  /\ s \in ParameterSenders \cup ParameterPlaceholders
         /\ Reaches(ParameterConnections, ParameterPlaceholders, s, r)
<1>1. s \in ParameterSenders \cup ParameterPlaceholders
  <2>1. <<s, q>>[1] = s
    OBVIOUS
  <2> QED
    BY <2>1, ParameterConnectionsKnown
<1> QED
  BY <1>1, ReachesFurther

\* The audio connections are complete and stay as they are.
LEMMA AudioMapComplete ==
  ASSUME MapInv, phase \notin {"connected", "audio", "rejected"},
         flow' = flow, audioFlat' = audioFlat, phase' # "audio"
  PROVE  AudioFlatOK' /\ AudioWalkOK' /\ AudioCovered'
<1>1. AudioConnections' = AudioConnections
  BY RegistrationsUnchanged
<1> QED
  BY <1>1 DEF MapInv, AudioFlatOK, AudioWalkOK, AudioCovered

\* A direct connection is added to the multimap.
LEMMA FlatParameterAdded ==
  ASSUME ParameterFlatOK, flow' = flow,
         NEW k, k = <<k[1], k[2]>>, k[1] \in ParameterSenders, k[2] \in ParameterReceivers,
         Reaches(ParameterConnections, ParameterPlaceholders, k[1], k[2]),
         parameterFlat' = Append(parameterFlat, k)
  PROVE  /\ ParameterFlatOK'
         /\ DOMAIN parameterFlat = 1 .. Len(parameterFlat) /\ Len(parameterFlat) \in Nat
         /\ DOMAIN parameterFlat' = 1 .. Len(parameterFlat) + 1
         /\ parameterFlat'[Len(parameterFlat) + 1] = k
         /\ \A i \in DOMAIN parameterFlat : parameterFlat'[i] = parameterFlat[i]
<1>1. k \in ParameterSenders \X ParameterReceivers
  BY ONLY k = <<k[1], k[2]>>, k[1] \in ParameterSenders, k[2] \in ParameterReceivers
<1> DEFINE p == parameterFlat
           n == Len(p)
           T == ParameterSenders \X ParameterReceivers
<1>2. p \in Seq(T)
  BY DEF ParameterFlatOK
<1>3. n \in Nat /\ DOMAIN p = 1 .. n
  BY <1>2, LenProperties
<1>4. parameterFlat' = Append(p, k) /\ k \in T
  BY <1>1
<1> HIDE DEF p, T
<1>5. /\ Append(p, k) \in Seq(T) /\ DOMAIN Append(p, k) = 1 .. n + 1
      /\ Append(p, k)[n + 1] = k /\ \A i \in 1 .. n : Append(p, k)[i] = p[i]
  BY <1>2, <1>3, <1>4, AppendProperties, LenProperties
<1> HIDE DEF n
<1>6. ParameterConnections' = ParameterConnections
  BY RegistrationsUnchanged
<1>7. \A i \in DOMAIN p : Reaches(ParameterConnections, ParameterPlaceholders, p[i][1], p[i][2])
  BY DEF ParameterFlatOK, p
<1>8. ASSUME NEW i \in 1 .. n + 1
      PROVE  Reaches(ParameterConnections, ParameterPlaceholders,
                     Append(p, k)[i][1], Append(p, k)[i][2])
  <2>1. i \in 1 .. n \/ i = n + 1
    BY <1>3
  <2> QED
    BY <1>3, <1>5, <1>7, <2>1
<1>9. ParameterFlatOK'
  BY <1>4, <1>5, <1>6, <1>8 DEF ParameterFlatOK, T
<1> QED
  BY <1>3, <1>4, <1>5, <1>9 DEF p, n

LEMMA MapLookAtParameterConnection ==
  ASSUME MapInv, LookAtParameterConnection
  PROVE  MapInv'
<1> DEFINE e == CHOOSE c \in pending : TRUE
           k == e[1]
           C == ParameterConnections
           P == ParameterPlaceholders
<1>1. /\ phase = "parameters" /\ walk = NoWalk /\ e \in pending /\ pending' = pending \ {e}
      /\ flow' = flow /\ audioFlat' = audioFlat /\ Checked /\ flow \in Flows
      /\ \/ /\ IsPlaceholderPort(k[2])
            /\ UNCHANGED <<phase, walk, parameterFlat>>
         \/ /\ ~ IsPlaceholderPort(k[2]) /\ ~ IsPlaceholderPort(k[1])
            /\ parameterFlat' = Append(parameterFlat, k) /\ UNCHANGED <<phase, walk>>
         \/ /\ ~ IsPlaceholderPort(k[2]) /\ IsPlaceholderPort(k[1])
            /\ WalkOn(C, k[2], <<k[1]>>) /\ UNCHANGED parameterFlat
  <2>1. /\ phase = "parameters" /\ walk = NoWalk /\ e \in pending
        /\ flow' = flow /\ audioFlat' = audioFlat /\ Checked /\ flow \in Flows
    BY DEF LookAtParameterConnection, MapInv, FlowOK
  <2> QED
    BY <2>1 DEF LookAtParameterConnection
<1> HIDE DEF e
<1>2. /\ AudioConnections' = AudioConnections /\ ParameterConnections' = C
      /\ ParameterEntries' = ParameterEntries /\ (Checked' <=> Checked)
      /\ \A x : OneEntry(x)' <=> OneEntry(x)
  BY <1>1, RegistrationsUnchanged
<1>3. e \in ParameterEntries /\ k \in C
  <2>1. e \in ParameterEntries
    BY <1>1 DEF MapInv, PendingOK
  <2> QED
    BY <1>1, <2>1, EntriesOfConnections
<1>4. /\ k = <<k[1], k[2]>> /\ k[1] \in ParameterSenders \cup P
      /\ k[2] \in ParameterReceivers \cup P /\ Reaches(C, P, k[1], k[2])
  BY <1>1, <1>3, ParameterConnectionsKnown
<1>5. (k[2] \in P <=> IsPlaceholderPort(k[2])) /\ (k[1] \in P <=> IsPlaceholderPort(k[1]))
  BY <1>4, Disjoint
<1>6. \A r \in ParameterReceivers : OneEntry(r) /\ k[2] = r =>
        \A f \in pending' : f[1][2] # r
  BY <1>1, <1>3 DEF OneEntry, MapInv, PendingOK
<1>7. CASE k[2] \in P
  <2>1. UNCHANGED <<phase, walk, parameterFlat>>
    BY <1>1, <1>5, <1>7
  <2>2. FlowOK' /\ PendingOK' /\ ParameterFlatOK' /\ ParameterWalkOK'
    BY <1>1, <1>2, <2>1 DEF MapInv, FlowOK, PendingOK, ParameterFlatOK, ParameterWalkOK
  <2>3. ParameterCovered'
    <3>1. \A r \in ParameterReceivers : k[2] # r
      BY <1>7, Disjoint
    <3> QED
      BY <1>1, <2>1, <3>1 DEF MapInv, ParameterCovered
  <2>4. ParameterOnce'
    BY <1>1, <1>2, <2>1 DEF MapInv, ParameterOnce
  <2> QED
    BY <1>1, <2>1, <2>2, <2>3, <2>4, AudioMapComplete DEF MapInv
<1>8. CASE k[2] \notin P /\ k[1] \notin P
  <2>1. parameterFlat' = Append(parameterFlat, k) /\ UNCHANGED <<phase, walk>>
    BY <1>1, <1>5, <1>8
  <2>2. FlowOK' /\ PendingOK' /\ ParameterWalkOK'
    BY <1>1, <1>2, <2>1 DEF MapInv, FlowOK, PendingOK, ParameterWalkOK
  <2> DEFINE n == Len(parameterFlat)
  <2>3. /\ ParameterFlatOK'
        /\ DOMAIN parameterFlat = 1 .. n /\ n \in Nat
        /\ DOMAIN parameterFlat' = 1 .. n + 1 /\ parameterFlat'[n + 1] = k
        /\ \A i \in DOMAIN parameterFlat : parameterFlat'[i] = parameterFlat[i]
    <3>1. ParameterFlatOK
      BY DEF MapInv
    <3> QED
      BY <1>1, <1>4, <1>8, <2>1, <3>1, FlatParameterAdded
  <2> HIDE DEF n
  <2>4. ParameterCovered'
    <3>1. n + 1 \in DOMAIN parameterFlat' /\ \A i \in DOMAIN parameterFlat : i \in DOMAIN parameterFlat'
      BY <2>3
    <3> QED
      BY <1>1, <2>1, <2>3, <3>1 DEF MapInv, ParameterCovered
  <2>5. ParameterOnce'
    <3>1. \A i \in DOMAIN parameterFlat' :
            \/ i \in DOMAIN parameterFlat /\ parameterFlat'[i] = parameterFlat[i]
            \/ i = n + 1 /\ parameterFlat'[i] = k
      BY <2>3
    <3>2. ASSUME NEW r \in ParameterReceivers, OneEntry(r)
          PROVE  /\ \A i, j \in DOMAIN parameterFlat :
                      parameterFlat[i][2] = r /\ parameterFlat[j][2] = r => i = j
                 /\ \A f \in pending : \A i \in DOMAIN parameterFlat :
                      f[1][2] = r => parameterFlat[i][2] # r
                 /\ k[2] = r => \A i \in DOMAIN parameterFlat : parameterFlat[i][2] # r
                 /\ k[2] = r => \A f \in pending' : f[1][2] # r
      BY <1>1, <1>6, <3>2 DEF MapInv, ParameterOnce
    <3>3. ASSUME NEW r \in ParameterReceivers, OneEntry(r)
          PROVE  /\ \A i, j \in DOMAIN parameterFlat' :
                      parameterFlat'[i][2] = r /\ parameterFlat'[j][2] = r => i = j
                 /\ \A f \in pending' : \A i \in DOMAIN parameterFlat' :
                      f[1][2] = r => parameterFlat'[i][2] # r
      BY <1>1, <3>1, <3>2, <3>3
    <3> QED
      BY <1>1, <1>2, <2>1, <3>3 DEF ParameterOnce
  <2> QED
    BY <1>1, <2>1, <2>2, <2>3, <2>4, <2>5, AudioMapComplete DEF MapInv
<1>9. CASE k[2] \notin P /\ k[1] \in P
  <2>1. WalkOn(C, k[2], <<k[1]>>) /\ parameterFlat' = parameterFlat
    BY <1>1, <1>5, <1>9
  <2>2. Last(<<k[1]>>) = k[1]
    BY DEF Last
  <2>3. \E s : <<s, k[1]>> \in C
    BY <1>1, <1>9, ParameterConnectionsKnown
  <2>4. \A c \in C : c = <<c[1], c[2]>> /\ c[1] # Nowhere
    BY <1>1, ParameterConnectionsKnown
  <2>5. /\ phase' = phase
        /\ \E s : /\ <<s, k[1]>> \in C
                  /\ walk' = [receiver |-> k[2], trace |-> <<k[1]>>, sender |-> s]
    <3>1. \E s : <<s, Last(<<k[1]>>)>> \in C
      BY <2>2, <2>3
    <3>2. /\ phase' = phase
          /\ \E s : /\ <<s, Last(<<k[1]>>)>> \in C
                    /\ walk' = [receiver |-> k[2], trace |-> <<k[1]>>, sender |-> s]
      BY <2>1, <2>4, <3>1, WalkGoesOn
    <3> QED
      BY <2>2, <3>2
  <2>6. PICK s : /\ <<s, k[1]>> \in C
                 /\ walk' = [receiver |-> k[2], trace |-> <<k[1]>>, sender |-> s]
    BY <2>5
  <2>7. walk' # NoWalk /\ walk'.receiver = k[2] /\ walk'.sender = s
    BY <2>6 DEF NoWalk
  <2>8. FlowOK' /\ PendingOK' /\ ParameterFlatOK'
    BY <1>1, <1>2, <2>1, <2>5 DEF MapInv, FlowOK, PendingOK, ParameterFlatOK
  <2>9. ParameterWalkOK'
    <3>1. Trail(C, P, walk')
      BY <1>3, <1>4, <1>9, <2>6, TrailBegins
    <3>2. s \in ParameterSenders \cup P /\ Reaches(C, P, s, k[2])
      BY <1>1, <1>4, <1>9, <2>6, ParameterWalkSteps
    <3> QED
      BY <1>2, <1>4, <1>9, <2>7, <3>1, <3>2 DEF ParameterWalkOK
  <2>10. ParameterCovered'
    BY <1>1, <2>1, <2>5, <2>7 DEF MapInv, ParameterCovered
  <2>11. ParameterOnce'
    BY <1>1, <1>2, <1>6, <2>1, <2>5, <2>7 DEF MapInv, ParameterOnce
  <2> QED
    BY <1>1, <2>5, <2>8, <2>9, <2>10, <2>11, AudioMapComplete DEF MapInv
<1> QED
  BY <1>7, <1>8, <1>9

LEMMA MapFollowParameter ==
  ASSUME MapInv, FollowParameter
  PROVE  MapInv'
<1> DEFINE C == ParameterConnections
           P == ParameterPlaceholders
           q == walk.sender
           r == walk.receiver
           t == Append(walk.trace, walk.sender)
<1>1. /\ phase = "parameters" /\ walk # NoWalk /\ IsPlaceholderPort(q)
      /\ flow' = flow /\ pending' = pending /\ audioFlat' = audioFlat
      /\ parameterFlat' = parameterFlat /\ Checked
      /\ \/ phase' = "rejected" /\ walk' = NoWalk
         \/ WalkOn(C, r, t)
  BY DEF FollowParameter, Throw, MapInv, FlowOK
<1>2. /\ AudioConnections' = AudioConnections /\ ParameterConnections' = C
      /\ ParameterEntries' = ParameterEntries /\ (Checked' <=> Checked)
      /\ \A x : OneEntry(x)' <=> OneEntry(x)
  BY <1>1, RegistrationsUnchanged
<1>3. /\ Trail(C, P, walk) /\ r \in ParameterReceivers /\ q \in ParameterSenders \cup P
      /\ Reaches(C, P, q, r)
  BY <1>1 DEF MapInv, ParameterWalkOK
<1>4. q \in P
  BY <1>1, <1>3, Disjoint
<1>5. phase' \in {"parameters", "rejected"} /\ AudioFlatOK' /\ AudioWalkOK' /\ AudioCovered'
  <2>1. phase' \in {"parameters", "rejected"}
    BY <1>1 DEF WalkOn
  <2> QED
    BY <1>1, <2>1, AudioMapComplete
<1>6. ParameterFlatOK' /\ PendingOK'
  BY <1>1, <1>2, <1>5 DEF MapInv, ParameterFlatOK, PendingOK
<1>7. CASE phase' = "rejected" /\ walk' = NoWalk
  <2>1. FlowOK' /\ ParameterWalkOK' /\ ParameterCovered'
    BY <1>1, <1>2, <1>7 DEF MapInv, FlowOK, Phases, ParameterWalkOK, ParameterCovered
  <2>2. ParameterOnce'
    BY <1>1, <1>2, <1>7 DEF MapInv, ParameterOnce
  <2> QED
    BY <1>5, <1>6, <2>1, <2>2 DEF MapInv
<1>8. CASE WalkOn(C, r, t)
  <2>1. walk.trace \in Seq(P)
    BY <1>3 DEF Trail
  <2>2. Last(t) = q
    BY <1>4, <2>1, AppendProperties DEF Last
  <2>3. \E s : <<s, q>> \in C
    BY <1>1, <1>4, ParameterConnectionsKnown
  <2>4. \A c \in C : c = <<c[1], c[2]>> /\ c[1] # Nowhere
    BY <1>1, ParameterConnectionsKnown
  <2> HIDE DEF q, r, t
  <2>5. /\ phase' = phase
        /\ \E s : <<s, q>> \in C /\ walk' = [receiver |-> r, trace |-> t, sender |-> s]
    <3>1. \E s : <<s, Last(t)>> \in C
      BY <2>2, <2>3
    <3>2. /\ phase' = phase
          /\ \E s : <<s, Last(t)>> \in C /\ walk' = [receiver |-> r, trace |-> t, sender |-> s]
      BY <1>8, <2>4, <3>1, WalkGoesOn
    <3> QED
      BY <2>2, <3>2
  <2>6. PICK s : <<s, q>> \in C /\ walk' = [receiver |-> r, trace |-> t, sender |-> s]
    BY <2>5
  <2>7. walk' # NoWalk /\ walk'.receiver = r /\ walk'.sender = s
    BY <2>6 DEF NoWalk
  <2>8. FlowOK'
    BY <1>1, <1>2, <2>5 DEF MapInv, FlowOK
  <2>9. ParameterWalkOK'
    <3>1. Trail(C, P, walk')
      BY <1>3, <1>4, <2>6, TrailGrows DEF q, r, t
    <3>2. s \in ParameterSenders \cup P /\ Reaches(C, P, s, r)
      BY <1>1, <1>3, <1>4, <2>6, ParameterWalkSteps
    <3> QED
      BY <1>2, <1>3, <2>7, <3>1, <3>2 DEF ParameterWalkOK
  <2>10. ParameterCovered'
    BY <1>1, <2>5, <2>7 DEF MapInv, ParameterCovered, r
  <2>11. ParameterOnce'
    BY <1>1, <1>2, <2>5, <2>7 DEF MapInv, ParameterOnce, r
  <2> QED
    BY <1>5, <1>6, <2>8, <2>9, <2>10, <2>11 DEF MapInv
<1> QED
  BY <1>1, <1>7, <1>8

LEMMA MapArriveParameter ==
  ASSUME MapInv, ArriveParameter
  PROVE  MapInv'
<1> DEFINE C == ParameterConnections
           P == ParameterPlaceholders
           k == <<walk.sender, walk.receiver>>
           n == Len(parameterFlat)
<1>1. /\ phase = "parameters" /\ walk # NoWalk /\ ~ IsPlaceholderPort(walk.sender)
      /\ flow' = flow /\ phase' = phase /\ pending' = pending /\ walk' = NoWalk
      /\ audioFlat' = audioFlat /\ parameterFlat' = Append(parameterFlat, k)
  BY DEF ArriveParameter
<1>2. /\ AudioConnections' = AudioConnections /\ ParameterConnections' = C
      /\ ParameterEntries' = ParameterEntries /\ (Checked' <=> Checked)
      /\ \A x : OneEntry(x)' <=> OneEntry(x)
  BY <1>1, RegistrationsUnchanged
<1>3. /\ walk.receiver \in ParameterReceivers /\ walk.sender \in ParameterSenders \cup P
      /\ Reaches(C, P, walk.sender, walk.receiver)
  BY <1>1 DEF MapInv, ParameterWalkOK
<1>4. walk.sender \in ParameterSenders
  BY <1>1, <1>3, Disjoint
<1>5. k = <<k[1], k[2]>> /\ k[1] = walk.sender /\ k[2] = walk.receiver
  OBVIOUS
<1> HIDE DEF k
<1>6. /\ ParameterFlatOK'
      /\ DOMAIN parameterFlat = 1 .. n /\ n \in Nat
      /\ DOMAIN parameterFlat' = 1 .. n + 1 /\ parameterFlat'[n + 1] = k
      /\ \A i \in DOMAIN parameterFlat : parameterFlat'[i] = parameterFlat[i]
  <2>1. ParameterFlatOK
    BY DEF MapInv
  <2> QED
    BY <1>1, <1>3, <1>4, <1>5, <2>1, FlatParameterAdded
<1> HIDE DEF n
<1>7. FlowOK' /\ PendingOK' /\ ParameterWalkOK'
  BY <1>1, <1>2 DEF MapInv, FlowOK, PendingOK, ParameterWalkOK
<1>8. ParameterCovered'
  <2>1. n + 1 \in DOMAIN parameterFlat' /\ \A i \in DOMAIN parameterFlat : i \in DOMAIN parameterFlat'
    BY <1>6
  <2> QED
    BY <1>1, <1>5, <1>6, <2>1 DEF MapInv, ParameterCovered
<1>9. ParameterOnce'
  <2>1. \A i \in DOMAIN parameterFlat' :
          \/ i \in DOMAIN parameterFlat /\ parameterFlat'[i] = parameterFlat[i]
          \/ i = n + 1 /\ parameterFlat'[i] = k
    BY <1>6
  <2>2. ASSUME NEW r \in ParameterReceivers, OneEntry(r)
        PROVE  /\ \A i, j \in DOMAIN parameterFlat :
                    parameterFlat[i][2] = r /\ parameterFlat[j][2] = r => i = j
               /\ \A f \in pending : \A i \in DOMAIN parameterFlat :
                    f[1][2] = r => parameterFlat[i][2] # r
               /\ k[2] = r => \A i \in DOMAIN parameterFlat : parameterFlat[i][2] # r
               /\ k[2] = r => \A f \in pending : f[1][2] # r
    BY <1>1, <1>5, <2>2 DEF MapInv, ParameterOnce
  <2>3. ASSUME NEW r \in ParameterReceivers, OneEntry(r)
        PROVE  /\ \A i, j \in DOMAIN parameterFlat' :
                    parameterFlat'[i][2] = r /\ parameterFlat'[j][2] = r => i = j
               /\ \A f \in pending' : \A i \in DOMAIN parameterFlat' :
                    f[1][2] = r => parameterFlat'[i][2] # r
    BY <1>1, <2>1, <2>2, <2>3
  <2> QED
    BY <1>1, <1>2, <2>3 DEF ParameterOnce
<1> QED
  BY <1>1, <1>6, <1>7, <1>8, <1>9, AudioMapComplete DEF MapInv

\* The steps after resolvePlaceholders() leave its result alone.
LEMMA StepsAfterMaps ==
  ASSUME MapInv,
         \/ BufferStep \/ InitialiseParameterInfrastructure \/ InitialiseSchedule
         \/ BeginPeriod \/ ExecuteComponent \/ EndPeriod
  PROVE  /\ UNCHANGED <<flow, mapVars>> /\ walk = NoWalk
         /\ phase \in Later /\ phase' \in Later \cup {"rejected"}
<1>1. ASSUME BufferStep
      PROVE  UNCHANGED <<flow, mapVars>> /\ phase = "offsets" /\ phase' \in Later \cup {"rejected"}
  <2>1. ASSUME NEW p, PlaceSendPort(p)
        PROVE  UNCHANGED <<flow, mapVars>> /\ phase = "offsets" /\ phase' = phase
    BY <2>1 DEF PlaceSendPort, InOffsets
  <2>2. ASSUME NEW p, PlaceReceivePort(p)
        PROVE  UNCHANGED <<flow, mapVars>> /\ phase = "offsets" /\ phase' = phase
    BY <2>2 DEF PlaceReceivePort, ReadyToReceive, InOffsets
  <2>3. ASSUME NEW p, InsertRouting(p)
        PROVE  UNCHANGED <<flow, mapVars>> /\ phase = "offsets" /\ phase' = phase
    BY <2>3 DEF InsertRouting, ReadyToReceive, InOffsets
  <2>4. ASSUME NEW p, RefuseSenders(p)
        PROVE  UNCHANGED <<flow, mapVars>> /\ phase = "offsets" /\ phase' = "rejected"
    BY <2>4 DEF RefuseSenders, ReadyToReceive, InOffsets
  <2>5. ASSUME EndType
        PROVE  UNCHANGED <<flow, mapVars>> /\ phase = "offsets" /\ phase' = phase
    BY <2>5 DEF EndType
  <2>6. ASSUME AssignBuffers
        PROVE  UNCHANGED <<flow, mapVars>> /\ phase = "offsets" /\ phase' \in Later \cup {"rejected"}
    BY <2>6 DEF AssignBuffers, Later
  <2>7. \/ \E p : PlaceSendPort(p) \/ PlaceReceivePort(p) \/ InsertRouting(p) \/ RefuseSenders(p)
        \/ EndType \/ AssignBuffers
    BY <1>1 DEF BufferStep
  <2> QED
    BY <2>1, <2>2, <2>3, <2>4, <2>5, <2>6, <2>7 DEF Later
<1>2. ASSUME InitialiseParameterInfrastructure
      PROVE  /\ UNCHANGED <<flow, mapVars>> /\ phase \in Later
             /\ phase' \in Later \cup {"rejected"}
  BY <1>2 DEF InitialiseParameterInfrastructure, Later
<1>3. ASSUME InitialiseSchedule
      PROVE  /\ UNCHANGED <<flow, mapVars>> /\ phase \in Later
             /\ phase' \in Later \cup {"rejected"}
  BY <1>3 DEF InitialiseSchedule, Later
<1>4. ASSUME BeginPeriod \/ ExecuteComponent \/ EndPeriod
      PROVE  UNCHANGED <<flow, mapVars>> /\ phase \in Later /\ phase' \in Later
  BY <1>4 DEF BeginPeriod, ExecuteComponent, EndPeriod, Later
<1>5. /\ UNCHANGED <<flow, mapVars>> /\ phase \in Later /\ phase' \in Later \cup {"rejected"}
  BY <1>1, <1>2, <1>3, <1>4 DEF Later
<1>6. walk = NoWalk
  BY <1>5 DEF MapInv, FlowOK, Later
<1> QED
  BY <1>5, <1>6

LEMMA MapInductive ==
  ASSUME MapInv, [Next]_vars
  PROVE  MapInv'
<1>1. CASE CheckConnectionIntegrity
  BY <1>1, MapCheckConnectionIntegrity
<1>2. CASE LookAtAudioConnection
  BY <1>2, MapLookAtAudioConnection
<1>3. CASE FollowAudio
  BY <1>3, MapFollowAudio
<1>4. CASE ArriveAudio
  BY <1>4, MapArriveAudio
<1>5. CASE EndAudio
  BY <1>5, MapEndAudio
<1>6. CASE LookAtParameterConnection
  BY <1>6, MapLookAtParameterConnection
<1>7. CASE FollowParameter
  BY <1>7, MapFollowParameter
<1>8. CASE ArriveParameter
  BY <1>8, MapArriveParameter
<1>9. CASE EndParameters
  <2>1. /\ phase = "parameters" /\ walk = NoWalk /\ pending = {} /\ phase' = "offsets"
        /\ UNCHANGED <<flow, mapVars>>
    BY <1>9 DEF EndParameters
  <2> QED
    BY <2>1, MapsUnchanged DEF Later
<1>10. CASE \/ BufferStep \/ InitialiseParameterInfrastructure \/ InitialiseSchedule
            \/ BeginPeriod \/ ExecuteComponent \/ EndPeriod
  <2>1. /\ UNCHANGED <<flow, mapVars>> /\ walk = NoWalk
        /\ phase \in Later /\ phase' \in Later \cup {"rejected"}
    BY <1>10, StepsAfterMaps
  <2>2. phase # "parameters"
    BY <2>1 DEF Later
  <2> QED
    BY <2>1, <2>2, MapsUnchanged
<1>11. CASE UNCHANGED vars
  BY <1>11, MapsUnchanged DEF vars
<1> QED
  BY <1>1, <1>2, <1>3, <1>4, <1>5, <1>6, <1>7, <1>8, <1>9, <1>10, <1>11
    DEF Next, Construct, ResolveStep

\* The direct connections are the signals.
LEMMA FlatIsSignals ==
  ASSUME MapInv, phase \notin {"connected", "audio", "rejected"}
  PROVE  audioFlat = Signals
<1>1. \A k : k \in Signals <=>
        /\ k = <<k[1], k[2]>> /\ k[1] \in AudioSenders /\ k[2] \in AudioReceivers
        /\ Reaches(AudioConnections, AudioPlaceholders, k[1], k[2])
  BY DEF Signals, AudioPlaceholders
<1>2. ASSUME NEW k \in audioFlat
      PROVE  k \in Signals
  BY <1>1, <1>2 DEF MapInv, AudioFlatOK, OnlySource
<1>3. ASSUME NEW k \in Signals
      PROVE  k \in audioFlat
  <2>1. PICK l \in audioFlat : l[2] = k[2]
    BY <1>1, <1>3 DEF MapInv, AudioCovered
  <2>2. l = <<l[1], l[2]>> /\ l[1] = k[1]
    BY <1>1, <1>3, <2>1 DEF MapInv, AudioFlatOK, OnlySource
  <2> QED
    BY <1>1, <2>1, <2>2
<1> QED
  BY <1>2, <1>3

\* One direct connection ends at each receiving channel.
LEMMA OneConnectionEach ==
  ASSUME MapInv, phase \notin {"connected", "audio", "rejected"}, NEW r \in AudioReceivers
  PROVE  \E s \in AudioSenders : /\ <<s, r>> \in audioFlat
                                 /\ \A k \in audioFlat : k[2] = r => k = <<s, r>>
<1>1. PICK k \in audioFlat : k[2] = r
  BY DEF MapInv, AudioCovered
<1>2. k = <<k[1], r>> /\ k[1] \in AudioSenders
  BY <1>1 DEF MapInv, AudioFlatOK
<1>3. ASSUME NEW l \in audioFlat, l[2] = r
      PROVE  l = <<k[1], r>>
  BY <1>1, <1>2, <1>3 DEF MapInv, AudioFlatOK, OnlySource
<1> QED
  BY <1>1, <1>2, <1>3

LEMMA MapSignals ==
  ASSUME MapInv
  PROVE  SignalsComplete
<1> SUFFICES ASSUME phase \in {"parameters"} \cup Later
             PROVE  /\ audioFlat = Signals
                    /\ \A r \in AudioReceivers : \E s \in AudioSenders :
                         \A t \in AudioSenders : <<t, r>> \in audioFlat <=> t = s
  BY DEF SignalsComplete, Later
<1>1. phase \notin {"connected", "audio", "rejected"}
  BY DEF Later
<1>2. audioFlat = Signals
  BY <1>1, FlatIsSignals
<1>3. ASSUME NEW r \in AudioReceivers
      PROVE  \E s \in AudioSenders : \A t \in AudioSenders : <<t, r>> \in audioFlat <=> t = s
  <2>1. PICK s \in AudioSenders : /\ <<s, r>> \in audioFlat
                                  /\ \A k \in audioFlat : k[2] = r => k = <<s, r>>
    BY <1>1, OneConnectionEach
  <2>2. ASSUME NEW t \in AudioSenders, <<t, r>> \in audioFlat
        PROVE  t = s
    <3>1. <<t, r>>[2] = r
      OBVIOUS
    <3>2. <<t, r>> = <<s, r>>
      BY <2>1, <2>2, <3>1
    <3> QED
      BY <3>2
  <2> QED
    BY <2>1, <2>2
<1> QED
  BY <1>2, <1>3

-----------------------------------------------------------------------------
(* The invariant of initialiseAudioConnections().                          *)

Types == ToSet(SampleTypes)

\* The number of channels of a port, those of the outputs of routing components
\* included, which have as many as the port behind them.
WidthOf(q) == IF q \in AudioPort THEN Width[q] ELSE Width[<<q[1][1], q[1][2]>>]

\* The channels of some sending ports, and where one of them is in the pool.
ChannelsIn(ports) == UNION {{<<q, i>> : i \in 0 .. WidthOf(q) - 1} : q \in ports}
Place(offsets, c) == offsets[c[1]] + c[2]

\* The ports that have been placed share n channels without gaps and overlaps.
LaidOut(offsets, n) ==
  /\ IsFiniteSet(ChannelsIn(DOMAIN offsets)) /\ n = Cardinality(ChannelsIn(DOMAIN offsets))
  /\ \A q \in DOMAIN offsets : offsets[q] \in Nat /\ WidthOf(q) \in Nat
  /\ \A c \in ChannelsIn(DOMAIN offsets) : Place(offsets, c) < n
  /\ \A c, d \in ChannelsIn(DOMAIN offsets) : Place(offsets, c) = Place(offsets, d) => c = d

Taken(t) == Cardinality(ChannelsIn(DOMAIN sendOffsets[t]))

OffsetsOK ==
  /\ typeIndex \in 1 .. Len(SampleTypes) + 1
  /\ sendOffsets = [t \in Types |-> sendOffsets[t]]
  /\ receiveOffsets = [t \in Types |-> receiveOffsets[t]]
  /\ \A t \in Types : /\ LaidOut(sendOffsets[t], Taken(t))
                      /\ \A q \in DOMAIN receiveOffsets[t] : receiveOffsets[t][q] \in Nat
  /\ nextOffset \in Nat /\ (typeIndex <= Len(SampleTypes) => nextOffset = Taken(CurrentType))

RoutingsOK ==
  /\ DOMAIN routings \subseteq ConcreteReceivers(AudioPort)
  /\ \A p \in DOMAIN routings :
       /\ routings[p].width \in Nat
       /\ routings[p].inputs \in [1 .. Width[p] -> 0 .. routings[p].width - 1]
       /\ routings[p].type \in Types /\ p \in DOMAIN receiveOffsets[routings[p].type]

\* All connections of a receiving port that has been placed are of one type.
OneType(t, p) == \A k \in audioFlat : k[2][1] = p => k \in Typed(t)

\* Which ports have been placed.
PlacedOK == \A t \in Types :
  /\ \A q \in DOMAIN sendOffsets[t] :
       \/ q \in SendPorts(t)
       \/ \E p \in DOMAIN routings : q = RoutingOut(p) /\ p \in DOMAIN receiveOffsets[t]
  /\ \A q \in DOMAIN receiveOffsets[t] :
       \/ q \in ReceivePorts(t) /\ OneType(t, q)
       \/ \E p \in DOMAIN routings : q = RoutingIn(p) /\ p \in DOMAIN receiveOffsets[t]
  /\ \A p \in DOMAIN routings : p \in DOMAIN receiveOffsets[t] =>
       RoutingIn(p) \in DOMAIN receiveOffsets[t] /\ RoutingOut(p) \in DOMAIN sendOffsets[t]

\* One sample type is done after the other.
ProgressOK == \A j \in DOMAIN SampleTypes :
  LET t == SampleTypes[j]
  IN /\ j > typeIndex => DOMAIN sendOffsets[t] = {} /\ DOMAIN receiveOffsets[t] = {}
     /\ j < typeIndex => /\ SendPorts(t) \subseteq DOMAIN sendOffsets[t]
                         /\ ReceivePorts(t) \subseteq DOMAIN receiveOffsets[t]

\* A receiving port that has been placed reads where its senders write, or behind
\* a routing component that reads there; f and g are the offsets of sending and
\* receiving ports, R the routing components and F the final connections.
Received(k, f, g, R, F) ==
  LET p == k[2][1]
  IN p \in DOMAIN g =>
       /\ k[1][1] \in DOMAIN f
       /\ p \notin DOMAIN R => g[p] + k[2][2] = Place(f, k[1]) /\ k \in F
       /\ p \in DOMAIN R =>
            LET i == R[p].inputs[k[2][2] + 1]
            IN /\ g[p] = f[RoutingOut(p)]
               /\ g[RoutingIn(p)] + i = Place(f, k[1])
               /\ <<k[1], <<RoutingIn(p), i>>>> \in F
               /\ <<<<RoutingOut(p), k[2][2]>>, k[2]>> \in F

ReceivedOK == \A t \in Types : \A k \in Typed(t) :
  Received(k, sendOffsets[t], receiveOffsets[t], routings, finalConnections)

\* Every final connection is a direct one or leads to or from a routing component.
FinalOK == \A c \in finalConnections :
  \/ c \in audioFlat
  \/ \E k \in audioFlat : /\ k[2][1] \in DOMAIN routings
                          /\ c[1] = k[1] /\ c[2][1] = RoutingIn(k[2][1])
  \/ \E p \in DOMAIN routings : c[1][1] = RoutingOut(p) /\ c[2][1] = p

\* The bytes of the pool that belong to the first n sample types.
BytesUpTo(offsets, n) ==
  UNION {ChannelsIn(DOMAIN offsets[SampleTypes[i]]) \X (0 .. ChannelSize[SampleTypes[i]] - 1) :
           i \in 1 .. n}

PoolOK == /\ IsFiniteSet(BytesUpTo(sendOffsets, typeIndex - 1))
          /\ poolSize = Cardinality(BytesUpTo(sendOffsets, typeIndex - 1))

BufferInv == OffsetsOK /\ RoutingsOK /\ PlacedOK /\ ProgressOK /\ ReceivedOK /\ FinalOK /\ PoolOK

\* Nothing has been placed before resolvePlaceholders() is done.
Early == {"connected", "audio", "parameters"}

NothingPlaced ==
  /\ sendOffsets = [t \in Types |-> Empty] /\ receiveOffsets = [t \in Types |-> Empty]
  /\ nextOffset = 0 /\ typeIndex = 1 /\ routings = Empty /\ finalConnections = {} /\ poolSize = 0

\* Afterwards the ports have their buffers b: the channels of the ports with the
\* offsets f and g, behind those of the sample types before.
Assigned(b, f, g) == \A n \in 1 .. Len(SampleTypes) :
  LET t == SampleTypes[n]
  IN \A q \in DOMAIN f[t] \cup DOMAIN g[t] :
       /\ q \in DOMAIN b /\ b[q].stride = ChannelSamples[t]
       /\ b[q].base = Cardinality(BytesUpTo(f, n - 1))
                        + ChannelSize[t] * (IF q \in DOMAIN f[t] THEN f[t][q] ELSE g[t][q])

AssignedOK == phase \in Later \ {"offsets"} =>
  typeIndex = Len(SampleTypes) + 1 /\ Assigned(buffers, sendOffsets, receiveOffsets)

-----------------------------------------------------------------------------
(* The channels of the pool.                                               *)

LEMMA ChannelsInPorts ==
  ASSUME NEW ports, NEW c
  PROVE  c \in ChannelsIn(ports) <=>
           c = <<c[1], c[2]>> /\ c[1] \in ports /\ c[2] \in 0 .. WidthOf(c[1]) - 1
BY DEF ChannelsIn

\* A port has as many channels as its width says.
LEMMA ChannelsOfPort ==
  ASSUME NEW q, NEW w \in Nat
  PROVE  /\ IsFiniteSet({<<q, i>> : i \in 0 .. w - 1})
         /\ Cardinality({<<q, i>> : i \in 0 .. w - 1}) = w
<1> DEFINE I == 0 .. w - 1
           T == {<<q, i>> : i \in I}
           f == [i \in I |-> <<q, i>>]
<1>1. f \in Bijection(I, T)
  <2>1. f \in [I -> T]
    OBVIOUS
  <2>2. \A i, j \in I : f[i] = f[j] => i = j
    OBVIOUS
  <2>3. \A c \in T : \E i \in I : f[i] = c
    OBVIOUS
  <2> QED
    BY <2>1, <2>2, <2>3 DEF Bijection, Injection, Surjection, IsInjective
<1>2. IsFiniteSet(I) /\ Cardinality(I) = w
  BY FS_Interval
<1>3. ExistsBijection(I, T)
  BY <1>1 DEF ExistsBijection
<1> QED
  BY <1>2, <1>3, FS_Bijection

\* A further port is placed behind the others.
LEMMA PlacedBehind ==
  ASSUME NEW f, NEW n \in Nat, LaidOut(f, n), NEW q, q \notin DOMAIN f,
         WidthOf(q) \in Nat, NEW m \in Nat, m = n + WidthOf(q)
  PROVE  /\ DOMAIN MapInsert(f, q, n) = DOMAIN f \cup {q}
         /\ MapInsert(f, q, n)[q] = n /\ \A p \in DOMAIN f : MapInsert(f, q, n)[p] = f[p]
         /\ LaidOut(MapInsert(f, q, n), m)
<1> DEFINE g == MapInsert(f, q, n)
           w == WidthOf(q)
           C == ChannelsIn(DOMAIN f)
           D == {<<q, i>> : i \in 0 .. w - 1}
<1>1. DOMAIN g = DOMAIN f \cup {q} /\ g[q] = n /\ \A p \in DOMAIN f : g[p] = f[p]
  BY DEF MapInsert
<1>2. /\ IsFiniteSet(C) /\ n = Cardinality(C)
      /\ \A p \in DOMAIN f : f[p] \in Nat /\ WidthOf(p) \in Nat
      /\ \A c \in C : f[c[1]] + c[2] < n
      /\ \A c, d \in C : f[c[1]] + c[2] = f[d[1]] + d[2] => c = d
  BY DEF LaidOut, Place
<1>3. n \in Nat
  BY <1>2, FS_CardinalityType
<1>4. IsFiniteSet(D) /\ Cardinality(D) = w
  BY ChannelsOfPort
<1>5. \A c \in C : c[1] \in DOMAIN f /\ c[2] \in 0 .. WidthOf(c[1]) - 1
  BY ChannelsInPorts
<1>6. C \cap D = {}
  BY <1>5
<1>7. ChannelsIn(DOMAIN g) = C \cup D
  BY <1>1 DEF ChannelsIn
<1> HIDE DEF g, C, w
<1>8. IsFiniteSet(C \cup D) /\ Cardinality(C \cup D) = n + w
  <2>1. Cardinality(C \cap D) = 0
    BY <1>6, FS_EmptySet
  <2> HIDE DEF D
  <2>2. IsFiniteSet(C \cup D) /\ Cardinality(C \cup D) = Cardinality(C) + Cardinality(D) - 0
    BY <1>2, <1>4, <2>1, FS_Union
  <2>3. w \in Nat
    BY DEF w
  <2> QED
    BY <1>2, <1>3, <1>4, <2>2, <2>3
<1>9. \A c \in C : g[c[1]] + c[2] = f[c[1]] + c[2] /\ f[c[1]] + c[2] \in Nat
  BY <1>1, <1>2, <1>5
<1>10. \A c \in D : c[1] = q /\ g[c[1]] + c[2] = n + c[2] /\ c[2] \in 0 .. w - 1 /\ c = <<q, c[2]>>
  BY <1>1
<1>11. \A p \in DOMAIN g : g[p] \in Nat /\ WidthOf(p) \in Nat
  BY <1>1, <1>2, <1>3
<1>12. \A c \in C \cup D : g[c[1]] + c[2] < n + w
  <2>1. w \in Nat
    BY DEF w
  <2>2. ASSUME NEW c \in C
        PROVE  g[c[1]] + c[2] < n + w
    BY <1>2, <1>3, <1>9, <2>1
  <2>3. ASSUME NEW c \in D
        PROVE  g[c[1]] + c[2] < n + w
    <3>1. g[c[1]] + c[2] = n + c[2] /\ c[2] \in 0 .. w - 1
      BY <1>10
    <3> QED
      BY <1>3, <2>1, <3>1
  <2> QED
    BY <2>2, <2>3
<1>13. ASSUME NEW c \in C \cup D, NEW d \in C \cup D, g[c[1]] + c[2] = g[d[1]] + d[2]
       PROVE  c = d
  <2>1. CASE c \in C /\ d \in C
    BY <1>2, <1>9, <1>13, <2>1
  <2>2. CASE c \in C /\ d \in D
    BY <1>2, <1>3, <1>9, <1>10, <1>13, <2>2
  <2>3. CASE c \in D /\ d \in C
    BY <1>2, <1>3, <1>9, <1>10, <1>13, <2>3
  <2>4. CASE c \in D /\ d \in D
    <3>1. n + c[2] = n + d[2] /\ c[2] \in Int /\ d[2] \in Int
      BY <1>10, <1>13, <2>4
    <3>2. c[2] = d[2]
      BY <1>3, <3>1
    <3> QED
      BY <1>10, <2>4, <3>2
  <2> QED
    BY <2>1, <2>2, <2>3, <2>4
<1>14. LaidOut(g, n + w)
  BY <1>7, <1>8, <1>11, <1>12, <1>13 DEF LaidOut, Place
<1> QED
  BY <1>1, <1>3, <1>14 DEF g, w

-----------------------------------------------------------------------------
(* Sample types and ports.                                                 *)

LEMMA SampleTypeFacts ==
  /\ Len(SampleTypes) \in Nat /\ DOMAIN SampleTypes = 1 .. Len(SampleTypes)
  /\ \A j \in 1 .. Len(SampleTypes) : SampleTypes[j] \in Types
  /\ \A t \in Types : \E j \in 1 .. Len(SampleTypes) : SampleTypes[j] = t
  /\ \A i, j \in 1 .. Len(SampleTypes) : SampleTypes[i] = SampleTypes[j] => i = j
  /\ \A t \in Types : /\ ChannelSize[t] \in Nat \ {0}
                      /\ ChannelSize[t] = ChannelSamples[t] * SampleSize[t]
<1>1. SampleTypes \in Seq(Types) /\ IsInjective(SampleTypes)
  BY SampleTypeAssumption DEF Types
<1>2. Len(SampleTypes) \in Nat /\ DOMAIN SampleTypes = 1 .. Len(SampleTypes)
  BY <1>1, LenProperties
<1>3. Types = {SampleTypes[j] : j \in DOMAIN SampleTypes}
  BY DEF Types, ToSet
<1>4. \A i, j \in DOMAIN SampleTypes : SampleTypes[i] = SampleTypes[j] => i = j
  BY <1>1 DEF IsInjective
<1>5. \A t \in Types : ChannelSize[t] = ChannelSamples[t] * SampleSize[t]
  BY DEF ChannelSize, Types
<1>6. \A t \in Types : ChannelSamples[t] \in Nat \ {0} /\ SampleSize[t] \in Nat \ {0}
  BY SampleTypeAssumption DEF Types
<1>7. \A m, n \in Nat \ {0} : m * n \in Nat \ {0}
  OBVIOUS
<1>8. \A t \in Types : ChannelSize[t] \in Nat \ {0}
  BY <1>5, <1>6, <1>7
<1> QED
  BY <1>2, <1>3, <1>4, <1>5, <1>8

LEMMA RoutingPorts ==
  ASSUME NEW p \in AudioPort
  PROVE  /\ RoutingIn(p) \notin AudioPort /\ RoutingOut(p) \notin AudioPort
         /\ WidthOf(p) = Width[p] /\ WidthOf(RoutingOut(p)) = Width[p] /\ Width[p] \in Nat
         /\ \A q \in AudioPort : /\ RoutingIn(p) # RoutingOut(q)
                                 /\ RoutingIn(p) = RoutingIn(q) => p = q
                                 /\ RoutingOut(p) = RoutingOut(q) => p = q
<1>1. \A q \in AudioPort : q = <<q[1], q[2]>> /\ q[1] \in Component
  BY HierarchyAssumption
<1>2. Routing(p) \notin Component
  BY RoutingNameAssumption DEF Routing
<1>3. RoutingIn(p)[1] = Routing(p) /\ RoutingOut(p)[1] = Routing(p)
  BY DEF RoutingIn, RoutingOut
<1>4. RoutingIn(p) \notin AudioPort /\ RoutingOut(p) \notin AudioPort
  BY <1>1, <1>2, <1>3
<1>5. Width[p] \in Nat
  BY HierarchyAssumption
<1>6. Routing(p)[1] = p[1] /\ Routing(p)[2] = p[2]
  BY DEF Routing
<1>7. WidthOf(p) = Width[p] /\ WidthOf(RoutingOut(p)) = Width[p]
  BY <1>1, <1>3, <1>4, <1>6 DEF WidthOf
<1>8. \A q \in AudioPort : Routing(p) = Routing(q) => p = q
  BY <1>1 DEF Routing
<1>9. ASSUME NEW q \in AudioPort
      PROVE  /\ RoutingIn(p) # RoutingOut(q)
             /\ RoutingIn(p) = RoutingIn(q) => p = q
             /\ RoutingOut(p) = RoutingOut(q) => p = q
  <2>1. /\ RoutingIn(p)[2] = "in" /\ RoutingOut(q)[2] = "out"
        /\ RoutingIn(q)[1] = Routing(q) /\ RoutingOut(q)[1] = Routing(q)
    BY DEF RoutingIn, RoutingOut
  <2> QED
    BY <1>3, <1>8, <2>1
<1> QED
  BY <1>4, <1>5, <1>7, <1>9

\* The ports of the direct connections.
LEMMA ConnectedPorts ==
  ASSUME MapInv, NEW k \in audioFlat
  PROVE  /\ k = <<k[1], k[2]>>
         /\ k[1] = <<k[1][1], k[1][2]>> /\ k[2] = <<k[2][1], k[2][2]>>
         /\ k[1][1] \in ConcreteSenders(AudioPort) /\ k[2][1] \in ConcreteReceivers(AudioPort)
         /\ k[1][1] \in AudioPort /\ k[2][1] \in AudioPort /\ k[1][1] # k[2][1]
         /\ k[1][2] \in 0 .. Width[k[1][1]] - 1 /\ k[2][2] \in 0 .. Width[k[2][1]] - 1
         /\ flow.sampleType[k[1][1]] \in Types
         /\ \A l \in audioFlat : l[2] = k[2] => l = k
<1>1. /\ k = <<k[1], k[2]>> /\ k[1] \in AudioSenders /\ k[2] \in AudioReceivers
      /\ \A t \in AudioSenders :
           Reaches(AudioConnections, AudioPlaceholders, t, k[2]) <=> t = k[1]
  BY DEF MapInv, AudioFlatOK, OnlySource
<1>2. /\ k[1] = <<k[1][1], k[1][2]>> /\ k[1][1] \in ConcreteSenders(AudioPort)
      /\ k[1][2] \in 0 .. Width[k[1][1]] - 1
      /\ k[2] = <<k[2][1], k[2][2]>> /\ k[2][1] \in ConcreteReceivers(AudioPort)
      /\ k[2][2] \in 0 .. Width[k[2][1]] - 1
  BY <1>1, ChannelsOfPorts DEF AudioSenders, AudioReceivers
<1>3. k[1][1] \in AudioPort /\ k[2][1] \in AudioPort /\ k[1][1] # k[2][1]
  BY <1>2, ConcretePorts
<1>4. flow.sampleType[k[1][1]] \in Types
  <2>1. flow \in Flows
    BY DEF MapInv, FlowOK
  <2>2. flow.sampleType \in [AudioPort -> Types]
    BY <2>1, SampleTypeAssumption DEF Types
  <2> QED
    BY <1>3, <2>2
<1>5. ASSUME NEW l \in audioFlat, l[2] = k[2]
      PROVE  l = k
  <2>1. /\ l = <<l[1], l[2]>> /\ l[1] \in AudioSenders
        /\ Reaches(AudioConnections, AudioPlaceholders, l[1], l[2])
    BY DEF MapInv, AudioFlatOK, OnlySource
  <2> QED
    BY <1>1, <1>5, <2>1
<1> QED
  BY <1>1, <1>2, <1>3, <1>4, <1>5

\* If as many channels of a port have senders of the current type as it has
\* channels, then all of them have one.
LEMMA ChannelsFilled ==
  ASSUME MapInv, NEW p \in AudioPort, SendersComplete(p)
  PROVE  /\ \A i \in 0 .. Width[p] - 1 : \E k \in LocalConnections(p) : k[2] = <<p, i>>
         /\ OneType(CurrentType, p)
<1> DEFINE L == LocalConnections(p)
           I == 0 .. Width[p] - 1
           f == [k \in L |-> k[2][2]]
<1>1. Width[p] \in Nat
  BY RoutingPorts
<1>2. L \subseteq audioFlat /\ L \subseteq Typed(CurrentType) /\ \A k \in L : k[2][1] = p
  BY DEF LocalConnections, Typed
<1>3. \A k \in L : k[2] = <<p, k[2][2]>> /\ k[2][2] \in I
  BY <1>2, ConnectedPorts
<1>4. \A k, l \in L : k[2][2] = l[2][2] => k = l
  <2>1. \A k, l \in L : k[2][2] = l[2][2] => k[2] = l[2]
    BY <1>3
  <2> QED
    BY <1>2, <2>1, ConnectedPorts
<1> HIDE DEF L, I
<1>5. f \in Injection(L, I)
  BY <1>3, <1>4 DEF Injection, IsInjective
<1>6. IsFiniteSet(I) /\ Cardinality(I) = Width[p]
  BY <1>1, SizeOfRange DEF I
<1>7. Cardinality(L) = Cardinality(I)
  BY <1>6 DEF SendersComplete, L
<1>8. f \in Surjection(L, I)
  BY <1>5, <1>6, <1>7, FS_Injection
<1>9. ASSUME NEW i \in I
      PROVE  \E k \in L : k[2] = <<p, i>>
  <2>1. PICK k \in L : f[k] = i
    BY <1>8 DEF Surjection
  <2> QED
    BY <1>3, <2>1
<1>10. ASSUME NEW k \in audioFlat, k[2][1] = p
       PROVE  k \in Typed(CurrentType)
  <2>1. k[2] = <<p, k[2][2]>> /\ k[2][2] \in I
    BY <1>10, ConnectedPorts DEF I
  <2>2. PICK l \in L : l[2] = k[2]
    BY <1>9, <2>1
  <2>3. l = k
    BY <1>2, <2>2, ConnectedPorts
  <2> QED
    BY <1>2, <2>3
<1> QED
  BY <1>9, <1>10 DEF L, I, OneType

-----------------------------------------------------------------------------
(* The steps of initialiseAudioConnections().                              *)

LEMMA NothingPlacedYet == NothingPlaced => BufferInv
<1> SUFFICES ASSUME NothingPlaced
             PROVE  BufferInv
  OBVIOUS
<1>1. \A t \in Types : sendOffsets[t] = Empty /\ receiveOffsets[t] = Empty
  BY DEF NothingPlaced
<1>2. DOMAIN Empty = {}
  BY DEF Empty
<1>3. ChannelsIn({}) = {} /\ Cardinality({}) = 0 /\ IsFiniteSet({})
  BY FS_EmptySet DEF ChannelsIn
<1>4. \A t \in Types : Taken(t) = 0 /\ LaidOut(sendOffsets[t], Taken(t))
  BY <1>1, <1>2, <1>3 DEF Taken, LaidOut
<1>5. typeIndex = 1 /\ nextOffset = 0 /\ poolSize = 0 /\ finalConnections = {}
      /\ DOMAIN routings = {}
  BY <1>2 DEF NothingPlaced
<1>6. OffsetsOK
  <2>1. 1 \in 1 .. Len(SampleTypes) + 1
    BY SampleTypeFacts
  <2>2. 1 <= Len(SampleTypes) => CurrentType \in Types
    BY <1>5, SampleTypeFacts DEF CurrentType
  <2>3. /\ sendOffsets = [t \in Types |-> sendOffsets[t]]
        /\ receiveOffsets = [t \in Types |-> receiveOffsets[t]]
    BY DEF NothingPlaced
  <2> QED
    BY <1>1, <1>2, <1>4, <1>5, <2>1, <2>2, <2>3 DEF OffsetsOK
<1>7. RoutingsOK /\ PlacedOK /\ FinalOK
  BY <1>1, <1>2, <1>5 DEF RoutingsOK, PlacedOK, FinalOK
<1>8. ProgressOK
  <2>1. \A j \in DOMAIN SampleTypes : SampleTypes[j] \in Types /\ ~ (j < 1)
    BY SampleTypeFacts
  <2> QED
    BY <1>1, <1>2, <1>5, <2>1 DEF ProgressOK
<1>9. ReceivedOK
  BY <1>1, <1>2 DEF ReceivedOK, Received
<1>10. PoolOK
  <2>1. 1 - 1 = 0 /\ 1 .. 0 = {}
    OBVIOUS
  <2>2. BytesUpTo(sendOffsets, 0) = {}
    BY <2>1 DEF BytesUpTo
  <2> QED
    BY <1>3, <1>5, <2>1, <2>2 DEF PoolOK
<1> QED
  BY <1>6, <1>7, <1>8, <1>9, <1>10 DEF BufferInv

LEMMA BuffersUntouched ==
  ASSUME BufferInv, flow' = flow, audioFlat' = audioFlat,
         UNCHANGED <<sendOffsets, receiveOffsets, nextOffset, typeIndex, routings,
                     finalConnections, poolSize>>
  PROVE  BufferInv'
<1>1. OffsetsOK'
  BY DEF BufferInv, OffsetsOK, Taken, CurrentType
<1>2. \A t : (SendPorts(t))' = SendPorts(t) /\ (ReceivePorts(t))' = ReceivePorts(t)
             /\ (Typed(t))' = Typed(t)
  BY DEF SendPorts, ReceivePorts, Typed
<1>3. RoutingsOK' /\ FinalOK' /\ PoolOK'
  BY DEF BufferInv, RoutingsOK, FinalOK, PoolOK
<1>4. PlacedOK'
  BY <1>2 DEF BufferInv, PlacedOK, OneType
<1>5. ProgressOK'
  BY <1>2 DEF BufferInv, ProgressOK
<1>6. ReceivedOK'
  BY <1>2 DEF BufferInv, ReceivedOK
<1> QED
  BY <1>1, <1>3, <1>4, <1>5, <1>6 DEF BufferInv

\* A port is placed for one sample type only.
LEMMA PlacedForOneType ==
  ASSUME MapInv, BufferInv, NEW t \in Types, NEW u \in Types
  PROVE  /\ \A q \in DOMAIN sendOffsets[t] \cap DOMAIN sendOffsets[u] : t = u
         /\ \A q \in DOMAIN receiveOffsets[t] \cap DOMAIN receiveOffsets[u] : t = u
<1>1. DOMAIN routings \subseteq AudioPort
  BY ConcretePorts DEF BufferInv, RoutingsOK
<1>2. \A v \in Types : SendPorts(v) \subseteq AudioPort /\ ReceivePorts(v) \subseteq AudioPort
  BY ConnectedPorts DEF SendPorts, ReceivePorts, Typed
<1>3. ASSUME NEW q \in AudioPort, q \in DOMAIN receiveOffsets[t] \cap DOMAIN receiveOffsets[u]
      PROVE  t = u
  <2>1. /\ q \in ReceivePorts(t) /\ OneType(t, q)
        /\ q \in ReceivePorts(u) /\ OneType(u, q)
    BY <1>1, <1>3, RoutingPorts DEF BufferInv, PlacedOK
  <2>2. PICK k \in Typed(t) : k[2][1] = q
    BY <2>1 DEF ReceivePorts
  <2>3. k \in Typed(u)
    BY <2>1, <2>2 DEF OneType, Typed
  <2> QED
    BY <2>2, <2>3 DEF Typed
<1>4. ASSUME NEW q \in DOMAIN receiveOffsets[t] \cap DOMAIN receiveOffsets[u]
      PROVE  t = u
  <2>1. CASE q \in AudioPort
    BY <1>3, <2>1
  <2>2. CASE q \notin AudioPort
    <3>1. PICK p \in DOMAIN routings : q = RoutingIn(p) /\ p \in DOMAIN receiveOffsets[t]
      BY <1>2, <1>4, <2>2 DEF BufferInv, PlacedOK
    <3>2. PICK r \in DOMAIN routings : q = RoutingIn(r) /\ r \in DOMAIN receiveOffsets[u]
      BY <1>2, <1>4, <2>2 DEF BufferInv, PlacedOK
    <3>3. p = r /\ p \in AudioPort
      BY <1>1, <3>1, <3>2, RoutingPorts
    <3> QED
      BY <1>3, <3>1, <3>2, <3>3
  <2> QED
    BY <2>1, <2>2
<1>5. ASSUME NEW q \in DOMAIN sendOffsets[t] \cap DOMAIN sendOffsets[u]
      PROVE  t = u
  <2>1. CASE q \in AudioPort
    <3>1. q \in SendPorts(t) /\ q \in SendPorts(u)
      BY <1>1, <1>5, <2>1, RoutingPorts DEF BufferInv, PlacedOK
    <3> QED
      BY <3>1 DEF SendPorts, Typed
  <2>2. CASE q \notin AudioPort
    <3>1. PICK p \in DOMAIN routings : q = RoutingOut(p) /\ p \in DOMAIN receiveOffsets[t]
      BY <1>2, <1>5, <2>2 DEF BufferInv, PlacedOK
    <3>2. PICK r \in DOMAIN routings : q = RoutingOut(r) /\ r \in DOMAIN receiveOffsets[u]
      BY <1>2, <1>5, <2>2 DEF BufferInv, PlacedOK
    <3>3. p = r /\ p \in AudioPort
      BY <1>1, <3>1, <3>2, RoutingPorts
    <3> QED
      BY <1>3, <3>1, <3>2, <3>3
  <2> QED
    BY <2>1, <2>2
<1> QED
  BY <1>4, <1>5

\* The memory of finished sample types stays as it is.
LEMMA BytesUnchanged ==
  ASSUME NEW f, NEW g, NEW n \in Nat, n <= Len(SampleTypes),
         \A i \in 1 .. n : DOMAIN f[SampleTypes[i]] = DOMAIN g[SampleTypes[i]]
  PROVE  BytesUpTo(f, n) = BytesUpTo(g, n)
<1>1. \A i \in 1 .. n :
        ChannelsIn(DOMAIN f[SampleTypes[i]]) \X (0 .. ChannelSize[SampleTypes[i]] - 1)
        = ChannelsIn(DOMAIN g[SampleTypes[i]]) \X (0 .. ChannelSize[SampleTypes[i]] - 1)
  OBVIOUS
<1> QED
  BY <1>1 DEF BytesUpTo

\* The sample type the loop is at.
LEMMA AtType ==
  ASSUME BufferInv, typeIndex <= Len(SampleTypes)
  PROVE  /\ typeIndex \in 1 .. Len(SampleTypes) /\ CurrentType \in Types
         /\ nextOffset = Taken(CurrentType) /\ nextOffset \in Nat
         /\ LaidOut(sendOffsets[CurrentType], nextOffset)
         /\ \A j \in 1 .. Len(SampleTypes) : SampleTypes[j] = CurrentType <=> j = typeIndex
<1>1. /\ typeIndex \in 1 .. Len(SampleTypes) + 1 /\ nextOffset = Taken(CurrentType)
      /\ nextOffset \in Nat /\ \A t \in Types : LaidOut(sendOffsets[t], Taken(t))
  BY DEF BufferInv, OffsetsOK
<1>2. typeIndex \in 1 .. Len(SampleTypes)
  BY <1>1, SampleTypeFacts
<1>3. CurrentType \in Types
  BY <1>2, SampleTypeFacts DEF CurrentType
<1>4. \A j \in 1 .. Len(SampleTypes) : SampleTypes[j] = CurrentType <=> j = typeIndex
  BY <1>2, SampleTypeFacts DEF CurrentType
<1> QED
  BY <1>1, <1>2, <1>3, <1>4

LEMMA TypedUnchanged ==
  ASSUME flow' = flow, audioFlat' = audioFlat
  PROVE  \A t : /\ (Typed(t))' = Typed(t) /\ (SendPorts(t))' = SendPorts(t)
                /\ (ReceivePorts(t))' = ReceivePorts(t)
                /\ \A p : OneType(t, p)' <=> OneType(t, p)
BY DEF Typed, SendPorts, ReceivePorts, OneType

\* The next sending port of the current type is placed.
LEMMA SendOffsetAdded ==
  ASSUME BufferInv, typeIndex <= Len(SampleTypes), typeIndex' = typeIndex,
         NEW q, q \notin DOMAIN sendOffsets[CurrentType], WidthOf(q) \in Nat,
         sendOffsets' = [sendOffsets EXCEPT ![CurrentType] = MapInsert(@, q, nextOffset)],
         nextOffset' = nextOffset + WidthOf(q)
  PROVE  /\ sendOffsets' = [t \in Types |-> sendOffsets'[t]]
         /\ \A t \in Types : LaidOut(sendOffsets'[t], Taken(t)')
         /\ nextOffset' \in Nat /\ nextOffset' = Taken(CurrentType)'
         /\ DOMAIN sendOffsets'[CurrentType] = DOMAIN sendOffsets[CurrentType] \cup {q}
         /\ sendOffsets'[CurrentType][q] = nextOffset
         /\ \A t \in Types : \A p \in DOMAIN sendOffsets[t] :
              p \in DOMAIN sendOffsets'[t] /\ sendOffsets'[t][p] = sendOffsets[t][p]
         /\ \A t \in Types \ {CurrentType} : sendOffsets'[t] = sendOffsets[t]
         /\ BytesUpTo(sendOffsets', typeIndex - 1) = BytesUpTo(sendOffsets, typeIndex - 1)
<1> DEFINE c == CurrentType
           f == sendOffsets[c]
           g == MapInsert(f, q, nextOffset)
<1>1. /\ typeIndex \in 1 .. Len(SampleTypes) /\ c \in Types /\ nextOffset \in Nat
      /\ LaidOut(f, nextOffset)
      /\ \A j \in 1 .. Len(SampleTypes) : SampleTypes[j] = c <=> j = typeIndex
  BY AtType
<1>2. sendOffsets = [t \in Types |-> sendOffsets[t]] /\ \A t \in Types : LaidOut(sendOffsets[t], Taken(t))
  BY DEF BufferInv, OffsetsOK
<1>3. CurrentType' = c
  <2>1. SampleTypes' = SampleTypes
    OBVIOUS
  <2> QED
    BY <2>1 DEF CurrentType
<1>4. /\ DOMAIN g = DOMAIN f \cup {q} /\ g[q] = nextOffset /\ \A p \in DOMAIN f : g[p] = f[p]
      /\ LaidOut(g, nextOffset')
  <2>1. q \notin DOMAIN f /\ LaidOut(f, nextOffset) /\ WidthOf(q) \in Nat
    BY <1>1
  <2> HIDE DEF f, g
  <2>2. nextOffset \in Nat /\ nextOffset' \in Nat /\ nextOffset' = nextOffset + WidthOf(q)
    BY <1>1
  <2>3. LaidOut(g, nextOffset')
    BY <2>1, <2>2, PlacedBehind DEF g
  <2>4. DOMAIN g = DOMAIN f \cup {q} /\ g[q] = nextOffset /\ \A p \in DOMAIN f : g[p] = f[p]
    BY <2>1 DEF g, MapInsert
  <2> QED
    BY <2>3, <2>4
<1>5. sendOffsets' = [t \in Types |-> IF t = c THEN g ELSE sendOffsets[t]]
  BY <1>1, <1>2
<1> HIDE DEF g
<1>6. sendOffsets'[c] = g /\ \A t \in Types \ {c} : sendOffsets'[t] = sendOffsets[t]
  BY <1>1, <1>5
<1>7. sendOffsets' = [t \in Types |-> sendOffsets'[t]]
  BY <1>5
<1>8. \A t \in Types \ {c} : Taken(t)' = Taken(t)
  BY <1>6 DEF Taken
<1>10. \A t \in Types : LaidOut(sendOffsets'[t], Taken(t)')
  <2> SUFFICES ASSUME NEW t \in Types
               PROVE  LaidOut(sendOffsets'[t], Taken(t)')
    OBVIOUS
  <2>1. CASE t = c
    <3>1. Taken(t)' = nextOffset'
      <4>1. (DOMAIN sendOffsets[t])' = DOMAIN g
        BY <1>6, <2>1
      <4>2. Taken(t)' = Cardinality(ChannelsIn(DOMAIN g))
        BY <4>1 DEF Taken
      <4> QED
        BY <1>4, <4>2 DEF LaidOut
    <3> QED
      BY <1>4, <1>6, <2>1, <3>1
  <2>2. CASE t # c
    BY <1>2, <1>6, <1>8, <2>2
  <2> QED
    BY <2>1, <2>2
<1>11. nextOffset' \in Nat
  BY <1>1
<1>12. nextOffset' = Taken(CurrentType)'
  <2>1. Taken(CurrentType)' = Cardinality(ChannelsIn(DOMAIN sendOffsets'[CurrentType']))
    BY DEF Taken
  <2>2. Taken(CurrentType)' = Cardinality(ChannelsIn(DOMAIN g))
    BY <1>3, <1>6, <2>1
  <2> QED
    BY <1>4, <2>2 DEF LaidOut
<1>13. \A t \in Types : \A p \in DOMAIN sendOffsets[t] :
         p \in DOMAIN sendOffsets'[t] /\ sendOffsets'[t][p] = sendOffsets[t][p]
  BY <1>4, <1>6
<1>14. BytesUpTo(sendOffsets', typeIndex - 1) = BytesUpTo(sendOffsets, typeIndex - 1)
  <2>1. typeIndex - 1 \in Nat /\ typeIndex - 1 <= Len(SampleTypes)
    BY <1>1, SampleTypeFacts
  <2>2. ASSUME NEW i \in 1 .. typeIndex - 1
        PROVE  DOMAIN sendOffsets'[SampleTypes[i]] = DOMAIN sendOffsets[SampleTypes[i]]
    <3>1. i \in 1 .. Len(SampleTypes) /\ i # typeIndex
      BY <1>1, <2>2, SampleTypeFacts
    <3>2. SampleTypes[i] \in Types \ {c}
      BY <1>1, <3>1, SampleTypeFacts
    <3> QED
      BY <1>6, <3>2
  <2> DEFINE n == typeIndex - 1
             before == sendOffsets
             after == sendOffsets'
  <2>3. n \in Nat /\ n <= Len(SampleTypes)
    BY <2>1
  <2>4. \A i \in 1 .. n : DOMAIN after[SampleTypes[i]] = DOMAIN before[SampleTypes[i]]
    BY <2>2
  <2> HIDE DEF n, before, after
  <2>5. BytesUpTo(after, n) = BytesUpTo(before, n)
    BY <2>3, <2>4, BytesUnchanged
  <2> QED
    BY <2>5 DEF n, before, after
<1> QED
  BY <1>3, <1>4, <1>6, <1>7, <1>10, <1>11, <1>12, <1>13, <1>14

\* Placing other ports changes nothing for a receiving port.
LEMMA StillReceived ==
  ASSUME NEW k, NEW f, NEW g, NEW R, NEW F, Received(k, f, g, R, F),
         \A r \in DOMAIN R : r \in DOMAIN g => RoutingIn(r) \in DOMAIN g /\ RoutingOut(r) \in DOMAIN f,
         NEW f2, NEW g2, NEW R2, NEW F2, F \subseteq F2,
         \A q \in DOMAIN f : q \in DOMAIN f2 /\ f2[q] = f[q],
         \A q \in DOMAIN g : g2[q] = g[q],
         k[2][1] \in DOMAIN g2 => k[2][1] \in DOMAIN g,
         k[2][1] \in DOMAIN R2 <=> k[2][1] \in DOMAIN R,
         k[2][1] \in DOMAIN R => R2[k[2][1]] = R[k[2][1]]
  PROVE  Received(k, f2, g2, R2, F2)
<1> DEFINE p == k[2][1]
           i == R[p].inputs[k[2][2] + 1]
<1>1. CASE p \notin DOMAIN g2
  BY <1>1 DEF Received
<1>2. CASE p \in DOMAIN g2
  <2>1. p \in DOMAIN g /\ g2[p] = g[p] /\ k[1][1] \in DOMAIN f /\ k[1][1] \in DOMAIN f2
    BY <1>2 DEF Received
  <2>2. Place(f2, k[1]) = Place(f, k[1])
    BY <2>1 DEF Place
  <2>3. CASE p \notin DOMAIN R
    <3>1. g[p] + k[2][2] = Place(f, k[1]) /\ k \in F
      BY <2>1, <2>3 DEF Received
    <3> QED
      BY <2>1, <2>2, <2>3, <3>1 DEF Received
  <2>4. CASE p \in DOMAIN R
    <3>1. /\ g[p] = f[RoutingOut(p)] /\ g[RoutingIn(p)] + i = Place(f, k[1])
          /\ <<k[1], <<RoutingIn(p), i>>>> \in F
          /\ <<<<RoutingOut(p), k[2][2]>>, k[2]>> \in F
      BY <2>1, <2>4 DEF Received
    <3>2. RoutingIn(p) \in DOMAIN g /\ RoutingOut(p) \in DOMAIN f
      BY <2>1, <2>4
    <3>3. g2[RoutingIn(p)] = g[RoutingIn(p)] /\ f2[RoutingOut(p)] = f[RoutingOut(p)]
      BY <3>2
    <3>4. R2[p].inputs[k[2][2] + 1] = i
      BY <2>4
    <3> HIDE DEF i
    <3>5. /\ g2[p] = f2[RoutingOut(p)] /\ g2[RoutingIn(p)] + i = Place(f2, k[1])
          /\ <<k[1], <<RoutingIn(p), i>>>> \in F2
          /\ <<<<RoutingOut(p), k[2][2]>>, k[2]>> \in F2
      BY <2>1, <2>2, <3>1, <3>3
    <3> QED
      BY <2>1, <2>4, <3>4, <3>5 DEF Received
  <2> QED
    BY <2>3, <2>4
<1> QED
  BY <1>1, <1>2

LEMMA BufferPlaceSendPort ==
  ASSUME MapInv, BufferInv, NEW p, PlaceSendPort(p)
  PROVE  BufferInv'
<1> DEFINE c == CurrentType
<1>1. /\ typeIndex <= Len(SampleTypes) /\ p \in SendPorts(c) /\ p \notin DOMAIN sendOffsets[c]
      /\ sendOffsets' = [sendOffsets EXCEPT ![c] = MapInsert(@, p, nextOffset)]
      /\ nextOffset' = nextOffset + Width[p]
      /\ flow' = flow /\ audioFlat' = audioFlat /\ receiveOffsets' = receiveOffsets
      /\ typeIndex' = typeIndex /\ routings' = routings /\ finalConnections' = finalConnections
      /\ poolSize' = poolSize
  BY DEF PlaceSendPort, InOffsets, UnplacedSendPorts, mapVars
<1>2. p \in AudioPort /\ WidthOf(p) = Width[p] /\ WidthOf(p) \in Nat
  BY <1>1, ConnectedPorts, RoutingPorts DEF SendPorts, Typed
<1>3. /\ sendOffsets' = [t \in Types |-> sendOffsets'[t]]
      /\ \A t \in Types : LaidOut(sendOffsets'[t], Taken(t)')
      /\ nextOffset' \in Nat /\ nextOffset' = Taken(CurrentType)'
      /\ DOMAIN sendOffsets'[c] = DOMAIN sendOffsets[c] \cup {p}
      /\ \A t \in Types : \A q \in DOMAIN sendOffsets[t] :
           q \in DOMAIN sendOffsets'[t] /\ sendOffsets'[t][q] = sendOffsets[t][q]
      /\ \A t \in Types \ {c} : sendOffsets'[t] = sendOffsets[t]
      /\ BytesUpTo(sendOffsets', typeIndex - 1) = BytesUpTo(sendOffsets, typeIndex - 1)
  BY <1>1, <1>2, SendOffsetAdded
<1>4. \A t : /\ (Typed(t))' = Typed(t) /\ (SendPorts(t))' = SendPorts(t)
             /\ (ReceivePorts(t))' = ReceivePorts(t)
             /\ \A q : OneType(t, q)' <=> OneType(t, q)
  BY <1>1, TypedUnchanged
<1>5. /\ typeIndex \in 1 .. Len(SampleTypes) /\ c \in Types
      /\ \A j \in 1 .. Len(SampleTypes) : SampleTypes[j] = c <=> j = typeIndex
  BY <1>1, AtType
<1> HIDE DEF c
<1>6. OffsetsOK'
  BY <1>1, <1>3 DEF BufferInv, OffsetsOK
<1>7. RoutingsOK' /\ FinalOK'
  BY <1>1 DEF BufferInv, RoutingsOK, FinalOK
<1>8. PlacedOK'
  <2> SUFFICES ASSUME NEW t \in Types
               PROVE  /\ \A q \in DOMAIN sendOffsets'[t] :
                           \/ q \in SendPorts(t)
                           \/ \E r \in DOMAIN routings :
                                q = RoutingOut(r) /\ r \in DOMAIN receiveOffsets[t]
                      /\ \A q \in DOMAIN receiveOffsets[t] :
                           \/ q \in ReceivePorts(t) /\ OneType(t, q)
                           \/ \E r \in DOMAIN routings :
                                q = RoutingIn(r) /\ r \in DOMAIN receiveOffsets[t]
                      /\ \A r \in DOMAIN routings : r \in DOMAIN receiveOffsets[t] =>
                           RoutingIn(r) \in DOMAIN receiveOffsets[t]
                           /\ RoutingOut(r) \in DOMAIN sendOffsets'[t]
    BY <1>1, <1>4 DEF PlacedOK
  <2>1. \A q \in DOMAIN sendOffsets'[t] : q \in DOMAIN sendOffsets[t] \/ q \in SendPorts(t)
    BY <1>1, <1>3
  <2> QED
    BY <1>3, <2>1 DEF BufferInv, PlacedOK
<1>9. ProgressOK'
  <2> SUFFICES ASSUME NEW j \in 1 .. Len(SampleTypes)
               PROVE  /\ j > typeIndex => /\ DOMAIN sendOffsets'[SampleTypes[j]] = {}
                                          /\ DOMAIN receiveOffsets[SampleTypes[j]] = {}
                      /\ j < typeIndex =>
                           /\ SendPorts(SampleTypes[j]) \subseteq DOMAIN sendOffsets'[SampleTypes[j]]
                           /\ ReceivePorts(SampleTypes[j])
                                \subseteq DOMAIN receiveOffsets[SampleTypes[j]]
    BY <1>1, <1>4, SampleTypeFacts DEF ProgressOK
  <2>1. SampleTypes[j] \in Types /\ (j # typeIndex => SampleTypes[j] # c)
    BY <1>5, SampleTypeFacts
  <2>2. j # typeIndex => sendOffsets'[SampleTypes[j]] = sendOffsets[SampleTypes[j]]
    BY <1>3, <2>1
  <2> QED
    BY <1>5, <2>2, SampleTypeFacts DEF BufferInv, ProgressOK
<1>10. ReceivedOK'
  <2>1. ASSUME NEW t \in Types, NEW k \in Typed(t)
        PROVE  Received(k, sendOffsets'[t], receiveOffsets[t], routings, finalConnections)
    <3>1. /\ Received(k, sendOffsets[t], receiveOffsets[t], routings, finalConnections)
          /\ \A r \in DOMAIN routings : r \in DOMAIN receiveOffsets[t] =>
               /\ RoutingIn(r) \in DOMAIN receiveOffsets[t]
               /\ RoutingOut(r) \in DOMAIN sendOffsets[t]
      BY DEF BufferInv, ReceivedOK, PlacedOK
    <3>2. \A q \in DOMAIN sendOffsets[t] :
            q \in DOMAIN sendOffsets'[t] /\ sendOffsets'[t][q] = sendOffsets[t][q]
      BY <1>3
    <3> QED
      BY <3>1, <3>2, StillReceived
  <2> QED
    BY <1>1, <1>4, <2>1 DEF ReceivedOK
<1>11. PoolOK'
  BY <1>1, <1>3 DEF BufferInv, PoolOK
<1> QED
  BY <1>6, <1>7, <1>8, <1>9, <1>10, <1>11 DEF BufferInv

\* What sendChannels() and the offsets say of the senders of a port.
LEMMA OffsetsOfSenders ==
  ASSUME MapInv, BufferInv, typeIndex <= Len(SampleTypes), UnplacedSendPorts = {},
         NEW p \in ReceivePorts(CurrentType), SendersComplete(p)
  PROVE  /\ p \in AudioPort /\ Width[p] \in Nat \ {0} /\ Len(SenderOffsets(p)) = Width[p]
         /\ p \in ConcreteReceivers(AudioPort)
         /\ SenderOffsets(p) \in [1 .. Width[p] -> Nat]
         /\ \A k \in LocalConnections(p) :
              /\ k \in audioFlat /\ k \in Typed(CurrentType) /\ k[2][1] = p
              /\ k = <<k[1], <<p, k[2][2]>>>> /\ k[1] = <<k[1][1], k[1][2]>>
              /\ k[2][2] \in 0 .. Width[p] - 1
              /\ k[1][1] \in SendPorts(CurrentType)
              /\ k[1][1] \in DOMAIN sendOffsets[CurrentType]
              /\ k[1] \in Channels(SendPorts(CurrentType))
              /\ SenderOffsets(p)[k[2][2] + 1] = Place(sendOffsets[CurrentType], k[1])
         /\ \A i \in 0 .. Width[p] - 1 : \E k \in LocalConnections(p) : k[2] = <<p, i>>
         /\ OneType(CurrentType, p)
<1> DEFINE c == CurrentType
           L == LocalConnections(p)
           so == SenderOffsets(p)
           sender(i) == (CHOOSE k \in L : k[2][2] = i - 1)[1]
<1>1. p \in AudioPort /\ p \in ConcreteReceivers(AudioPort) /\ Width[p] \in Nat \ {0}
  <2>1. PICK k \in audioFlat : k[2][1] = p
    BY DEF ReceivePorts, Typed
  <2>2. /\ p \in AudioPort /\ p \in ConcreteReceivers(AudioPort)
        /\ k[2][2] \in 0 .. Width[p] - 1
    BY <2>1, ConnectedPorts
  <2>3. Width[p] \in Nat
    BY <2>2, RoutingPorts
  <2> QED
    BY <2>2, <2>3
<1>2. /\ \A i \in 0 .. Width[p] - 1 : \E k \in L : k[2] = <<p, i>>
      /\ OneType(c, p)
  BY <1>1, ChannelsFilled
<1>3. ASSUME NEW k \in L
      PROVE  /\ k \in audioFlat /\ k \in Typed(c) /\ k[2][1] = p
             /\ k = <<k[1], <<p, k[2][2]>>>> /\ k[1] = <<k[1][1], k[1][2]>>
             /\ k[2][2] \in 0 .. Width[p] - 1
             /\ k[1][1] \in SendPorts(c) /\ k[1][1] \in DOMAIN sendOffsets[c]
             /\ k[1] \in Channels(SendPorts(c))
             /\ sendOffsets[c][k[1][1]] + k[1][2] \in Nat
  <2>1. k \in audioFlat /\ k \in Typed(c) /\ k[2][1] = p
    BY DEF LocalConnections, Typed
  <2>2. /\ k = <<k[1], k[2]>> /\ k[1] = <<k[1][1], k[1][2]>> /\ k[2] = <<k[2][1], k[2][2]>>
        /\ k[2][2] \in 0 .. Width[p] - 1 /\ k[1][2] \in 0 .. Width[k[1][1]] - 1
        /\ k[1][1] \in AudioPort
    BY <2>1, ConnectedPorts
  <2>3. k[1][1] \in SendPorts(c)
    BY <2>1 DEF SendPorts
  <2>4. k[1][1] \in DOMAIN sendOffsets[c]
    BY <2>3 DEF UnplacedSendPorts
  <2>5. k[1] \in Channels(SendPorts(c))
    BY <2>2, <2>3, ChannelsOfPorts
  <2>6. sendOffsets[c][k[1][1]] \in Nat
    <3>1. LaidOut(sendOffsets[c], nextOffset)
      BY AtType
    <3> QED
      BY <2>4, <3>1 DEF LaidOut
  <2>7. Width[k[1][1]] \in Nat
    BY <2>2, RoutingPorts
  <2>8. sendOffsets[c][k[1][1]] + k[1][2] \in Nat
    BY <2>2, <2>6, <2>7
  <2> QED
    BY <2>1, <2>2, <2>3, <2>4, <2>5, <2>8
<1>4. so = [i \in 1 .. Width[p] |-> sendOffsets[c][sender(i)[1]] + sender(i)[2]]
  BY DEF SenderOffsets
<1> HIDE DEF L, so, c
<1>5. ASSUME NEW k \in L
      PROVE  sender(k[2][2] + 1) = k[1] /\ k[2][2] + 1 \in 1 .. Width[p]
  <2>1. k[2][2] \in 0 .. Width[p] - 1 /\ k[2] = <<p, k[2][2]>> /\ k[2][2] + 1 - 1 = k[2][2]
    BY <1>3
  <2>2. \A l \in L : l[2][2] = k[2][2] => l = k
    <3>1. ASSUME NEW l \in L, l[2][2] = k[2][2]
          PROVE  l = k
      <4>1. l = <<l[1], <<p, l[2][2]>>>> /\ l \in audioFlat /\ k \in audioFlat
        BY <1>3
      <4>2. l[2] = k[2]
        BY <2>1, <3>1, <4>1
      <4> QED
        BY <4>1, <4>2, ConnectedPorts
    <3> QED
      BY <3>1
  <2> DEFINE j == k[2][2] + 1
  <2>3. j - 1 = k[2][2] /\ j \in 1 .. Width[p]
    BY <1>1, <2>1
  <2> HIDE DEF j
  <2>4. \A l \in L : l[2][2] = j - 1 <=> l = k
    BY <2>2, <2>3
  <2>5. (CHOOSE l \in L : l[2][2] = j - 1) = k
    BY <2>4
  <2>6. sender(j) = k[1]
    BY <2>5
  <2> QED
    BY <2>3, <2>6 DEF j
<1>6. \A k \in L : so[k[2][2] + 1] = sendOffsets[c][k[1][1]] + k[1][2]
  BY <1>4, <1>5
<1>7. ASSUME NEW i \in 1 .. Width[p]
      PROVE  so[i] \in Nat
  <2>1. i - 1 \in 0 .. Width[p] - 1 /\ (i - 1) + 1 = i
    BY <1>1
  <2>2. PICK k \in L : k[2] = <<p, i - 1>>
    BY <1>2, <2>1
  <2>3. k[2][2] + 1 = i
    BY <2>1, <2>2
  <2> QED
    BY <1>3, <1>6, <2>3
<1>8. so \in [1 .. Width[p] -> Nat]
  BY <1>4, <1>7
<1>9. Len(so) = Width[p]
  BY <1>1, <1>4
<1> QED
  BY <1>1, <1>2, <1>3, <1>6, <1>8, <1>9 DEF L, so, c, Place

\* A contiguous range counts up.
LEMMA ContiguousCountsUp ==
  ASSUME NEW w \in Nat \ {0}, NEW so \in [1 .. w -> Nat], Len(so) = w, ContiguousRange(so)
  PROVE  \A i \in 0 .. w - 1 : so[i + 1] = so[1] + i
<1> DEFINE S == {i \in 0 .. w - 1 : so[i + 1] # so[1] + i}
           m == Min(S)
<1>1. \A i \in 1 .. w : so[i] \in Nat
  OBVIOUS
<1>2. ASSUME S # {}
      PROVE  FALSE
  <2>9. S \subseteq Nat
    OBVIOUS
  <2> HIDE DEF S
  <2>1. m \in S /\ \A i \in S : m <= i
    BY <1>2, <2>9, LeastNumber
  <2> HIDE DEF m
  <2> USE DEF S
  <2>2. m \in 0 .. w - 1 /\ so[m + 1] # so[1] + m
    BY <2>1
  <2>3. m # 0
    <3>1. so[1] \in Nat
      BY <1>1
    <3>2. m = 0 => m + 1 = 1 /\ so[1] + m = so[1]
      BY <3>1
    <3> QED
      BY <2>2, <3>2
  <2>4. m - 1 \in 0 .. w - 1 /\ ~ (m <= m - 1) /\ m \in 1 .. w - 1 /\ (m - 1) + 1 = m
    BY <2>2, <2>3
  <2>5. so[m] = so[1] + (m - 1)
    <3>1. m - 1 \notin S
      BY <2>1, <2>4
    <3>2. so[(m - 1) + 1] = so[1] + (m - 1)
      BY <2>4, <3>1
    <3> QED
      BY <2>4, <3>2
  <2>6. so[m] + 1 = so[m + 1]
    BY <2>4 DEF ContiguousRange
  <2>7. so[1] \in Nat
    BY <1>1
  <2> QED
    BY <2>2, <2>4, <2>5, <2>6, <2>7
<1> QED
  BY <1>2

\* A receiving port that has not been placed has no routing component.
LEMMA NotRouted ==
  ASSUME MapInv, BufferInv, NEW t \in Types, NEW p \in ReceivePorts(t),
         p \notin DOMAIN receiveOffsets[t]
  PROVE  p \notin DOMAIN routings
<1> SUFFICES ASSUME p \in DOMAIN routings
             PROVE  FALSE
  OBVIOUS
<1>1. DOMAIN routings \subseteq AudioPort
  BY ConcretePorts DEF BufferInv, RoutingsOK
<1>2. PICK u \in Types : p \in DOMAIN receiveOffsets[u]
  BY DEF BufferInv, RoutingsOK
<1>3. p \in ReceivePorts(u) /\ OneType(u, p)
  BY <1>1, <1>2, RoutingPorts DEF BufferInv, PlacedOK
<1>4. PICK k \in Typed(t) : k[2][1] = p
  BY DEF ReceivePorts
<1>5. k \in Typed(u)
  BY <1>3, <1>4 DEF OneType, Typed
<1>6. t = u
  BY <1>4, <1>5 DEF Typed
<1> QED
  BY <1>2, <1>6

\* The entry of a map of offsets for the current type.
LEMMA ReceiveOffsetsAt ==
  ASSUME BufferInv, typeIndex <= Len(SampleTypes), NEW g,
         receiveOffsets' = [receiveOffsets EXCEPT ![CurrentType] = g]
  PROVE  /\ receiveOffsets' = [t \in Types |-> receiveOffsets'[t]]
         /\ receiveOffsets'[CurrentType] = g
         /\ \A t \in Types \ {CurrentType} : receiveOffsets'[t] = receiveOffsets[t]
<1>1. CurrentType \in Types /\ receiveOffsets = [t \in Types |-> receiveOffsets[t]]
  BY AtType DEF BufferInv, OffsetsOK
<1> QED
  BY <1>1

LEMMA BufferPlaceReceivePort ==
  ASSUME MapInv, BufferInv, NEW p, PlaceReceivePort(p)
  PROVE  BufferInv'
<1> DEFINE c == CurrentType
           so == SenderOffsets(p)
           L == LocalConnections(p)
           x == so[1]
           f == sendOffsets[c]
           g == receiveOffsets[c]
           h == MapInsert(receiveOffsets[c], p, x)
<1>1. /\ typeIndex <= Len(SampleTypes) /\ UnplacedSendPorts = {}
      /\ p \in ReceivePorts(c) /\ p \notin DOMAIN g
      /\ SendersComplete(p) /\ ContiguousRange(so)
      /\ receiveOffsets' = [receiveOffsets EXCEPT ![c] = h]
      /\ finalConnections' = finalConnections \cup L
      /\ flow' = flow /\ audioFlat' = audioFlat /\ sendOffsets' = sendOffsets
      /\ nextOffset' = nextOffset /\ typeIndex' = typeIndex /\ routings' = routings
      /\ poolSize' = poolSize
  BY DEF PlaceReceivePort, ReadyToReceive, InOffsets, UnplacedReceivePorts, mapVars
<1>2. /\ p \in AudioPort /\ Width[p] \in Nat \ {0} /\ Len(so) = Width[p]
      /\ so \in [1 .. Width[p] -> Nat]
      /\ \A k \in L : /\ k \in audioFlat /\ k \in Typed(c) /\ k[2][1] = p
                      /\ k[2][2] \in 0 .. Width[p] - 1 /\ k[1][1] \in DOMAIN f
                      /\ so[k[2][2] + 1] = Place(f, k[1])
      /\ OneType(c, p)
  BY <1>1, OffsetsOfSenders
<1>3. x \in Nat /\ \A i \in 0 .. Width[p] - 1 : so[i + 1] = x + i
  <2>1. 1 \in 1 .. Width[p]
    BY <1>2
  <2> HIDE DEF so
  <2> QED
    BY <1>1, <1>2, <2>1, ContiguousCountsUp
<1>4. /\ typeIndex \in 1 .. Len(SampleTypes) /\ c \in Types
      /\ \A j \in 1 .. Len(SampleTypes) : SampleTypes[j] = c <=> j = typeIndex
  BY <1>1, AtType
<1>5. p \notin DOMAIN routings
  BY <1>1, <1>4, NotRouted
<1>6. \A t : /\ (Typed(t))' = Typed(t) /\ (SendPorts(t))' = SendPorts(t)
             /\ (ReceivePorts(t))' = ReceivePorts(t)
             /\ \A q : OneType(t, q)' <=> OneType(t, q)
  BY <1>1, TypedUnchanged
<1>7. DOMAIN h = DOMAIN g \cup {p} /\ h[p] = x /\ \A q \in DOMAIN g : h[q] = g[q]
  BY <1>1 DEF MapInsert
<1> HIDE DEF x, h, so
<1>8. /\ receiveOffsets' = [t \in Types |-> receiveOffsets'[t]]
      /\ receiveOffsets'[c] = h
      /\ \A t \in Types \ {c} : receiveOffsets'[t] = receiveOffsets[t]
  BY <1>1, ReceiveOffsetsAt
<1> HIDE DEF c
<1>9. \A t \in Types : \A q \in DOMAIN receiveOffsets[t] :
        q \in DOMAIN receiveOffsets'[t] /\ receiveOffsets'[t][q] = receiveOffsets[t][q]
  BY <1>7, <1>8
<1>10. \A t \in Types : \A q \in DOMAIN receiveOffsets'[t] :
         \/ q \in DOMAIN receiveOffsets[t]
         \/ t = c /\ q = p
  BY <1>7, <1>8
<1>11. OffsetsOK'
  <2>1. \A t \in Types : \A q \in DOMAIN receiveOffsets'[t] : receiveOffsets'[t][q] \in Nat
    BY <1>3, <1>7, <1>8, <1>9, <1>10 DEF BufferInv, OffsetsOK
  <2>2. \A t : Taken(t)' = Taken(t)
    BY <1>1 DEF Taken
  <2>3. CurrentType' = CurrentType
    BY <1>1 DEF CurrentType
  <2>4. Taken(CurrentType)' = Taken(CurrentType)
    BY <1>1, <2>3 DEF Taken
  <2> QED
    BY <1>1, <1>8, <2>1, <2>2, <2>4 DEF BufferInv, OffsetsOK
<1>12. RoutingsOK'
  BY <1>1, <1>9 DEF BufferInv, RoutingsOK
<1>13. PlacedOK'
  <2> SUFFICES ASSUME NEW t \in Types
               PROVE  /\ \A q \in DOMAIN sendOffsets[t] :
                           \/ q \in SendPorts(t)
                           \/ \E r \in DOMAIN routings :
                                q = RoutingOut(r) /\ r \in DOMAIN receiveOffsets'[t]
                      /\ \A q \in DOMAIN receiveOffsets'[t] :
                           \/ q \in ReceivePorts(t) /\ OneType(t, q)
                           \/ \E r \in DOMAIN routings :
                                q = RoutingIn(r) /\ r \in DOMAIN receiveOffsets'[t]
                      /\ \A r \in DOMAIN routings : r \in DOMAIN receiveOffsets'[t] =>
                           RoutingIn(r) \in DOMAIN receiveOffsets'[t]
                           /\ RoutingOut(r) \in DOMAIN sendOffsets[t]
    BY <1>1, <1>6 DEF PlacedOK
  <2>1. /\ \A q \in DOMAIN sendOffsets[t] :
             \/ q \in SendPorts(t)
             \/ \E r \in DOMAIN routings : q = RoutingOut(r) /\ r \in DOMAIN receiveOffsets'[t]
    BY <1>9 DEF BufferInv, PlacedOK
  <2>2. \A q \in DOMAIN receiveOffsets'[t] :
             \/ q \in ReceivePorts(t) /\ OneType(t, q)
             \/ \E r \in DOMAIN routings : q = RoutingIn(r) /\ r \in DOMAIN receiveOffsets'[t]
    BY <1>1, <1>2, <1>9, <1>10 DEF BufferInv, PlacedOK
  <2>3. \A r \in DOMAIN routings : r \in DOMAIN receiveOffsets'[t] =>
             RoutingIn(r) \in DOMAIN receiveOffsets'[t] /\ RoutingOut(r) \in DOMAIN sendOffsets[t]
    BY <1>5, <1>9, <1>10 DEF BufferInv, PlacedOK
  <2> QED
    BY <2>1, <2>2, <2>3
<1>14. ProgressOK'
  <2> SUFFICES ASSUME NEW j \in 1 .. Len(SampleTypes)
               PROVE  /\ j > typeIndex => /\ DOMAIN sendOffsets[SampleTypes[j]] = {}
                                          /\ DOMAIN receiveOffsets'[SampleTypes[j]] = {}
                      /\ j < typeIndex =>
                           /\ SendPorts(SampleTypes[j]) \subseteq DOMAIN sendOffsets[SampleTypes[j]]
                           /\ ReceivePorts(SampleTypes[j])
                                \subseteq DOMAIN receiveOffsets'[SampleTypes[j]]
    BY <1>1, <1>6, SampleTypeFacts DEF ProgressOK
  <2>1. SampleTypes[j] \in Types /\ (j # typeIndex => SampleTypes[j] # c)
    BY <1>4, SampleTypeFacts
  <2>2. j # typeIndex => receiveOffsets'[SampleTypes[j]] = receiveOffsets[SampleTypes[j]]
    BY <1>8, <2>1
  <2> QED
    BY <1>4, <2>2, SampleTypeFacts DEF BufferInv, ProgressOK
<1>15. ReceivedOK'
  <2>1. ASSUME NEW t \in Types, NEW k \in Typed(t)
        PROVE  Received(k, sendOffsets[t], receiveOffsets'[t], routings, finalConnections')
    <3>1. /\ Received(k, sendOffsets[t], receiveOffsets[t], routings, finalConnections)
          /\ \A r \in DOMAIN routings : r \in DOMAIN receiveOffsets[t] =>
               /\ RoutingIn(r) \in DOMAIN receiveOffsets[t]
               /\ RoutingOut(r) \in DOMAIN sendOffsets[t]
      BY DEF BufferInv, ReceivedOK, PlacedOK
    <3>2. CASE k[2][1] = p /\ t = c
      <4>1. k \in L
        BY <2>1, <3>2 DEF LocalConnections, c
      <4>2. /\ k[1][1] \in DOMAIN f /\ k[2][2] \in 0 .. Width[p] - 1
            /\ so[k[2][2] + 1] = Place(f, k[1]) /\ k \in finalConnections'
        BY <1>1, <1>2, <4>1
      <4>3. h[p] + k[2][2] = Place(f, k[1])
        BY <1>3, <1>7, <4>2
      <4> QED
        BY <1>5, <1>8, <3>2, <4>2, <4>3 DEF Received
    <3>3. CASE ~ (k[2][1] = p /\ t = c)
      <4>1. k[2][1] \in DOMAIN receiveOffsets'[t] => k[2][1] \in DOMAIN receiveOffsets[t]
        BY <1>10, <3>3
      <4>2. \A q \in DOMAIN receiveOffsets[t] : receiveOffsets'[t][q] = receiveOffsets[t][q]
        BY <1>9
      <4>3. finalConnections \subseteq finalConnections'
        BY <1>1
      <4> QED
        BY <3>1, <4>1, <4>2, <4>3, StillReceived
    <3> QED
      BY <3>2, <3>3
  <2> QED
    BY <1>1, <1>6, <2>1 DEF ReceivedOK
<1>16. FinalOK'
  BY <1>1, <1>2 DEF BufferInv, FinalOK
<1>17. PoolOK'
  BY <1>1 DEF BufferInv, PoolOK
<1> QED
  BY <1>11, <1>12, <1>13, <1>14, <1>15, <1>16, <1>17 DEF BufferInv

\* The range that a routing component spans begins with the first channel it copies.
RangeFrom(so, lo, inp) == lo = Min(ToSet(so)) /\ inp = [i \in DOMAIN so |-> so[i] - lo]

RangeCopied(w, so, lo, inp) ==
  /\ lo \in Nat /\ \A i \in 1 .. w : lo + inp[i] = so[i]
  /\ RoutingWidth(inp) \in Nat
  /\ inp \in [1 .. w -> 0 .. RoutingWidth(inp) - 1]
  /\ ToSet(inp) = {inp[i] : i \in 1 .. w}

LEMMA RoutingRange ==
  ASSUME NEW w \in Nat \ {0}, NEW so \in [1 .. w -> Nat], NEW b \in Nat,
         \A i \in 1 .. w : so[i] <= b, NEW lo, NEW inp, RangeFrom(so, lo, inp)
  PROVE  RangeCopied(w, so, lo, inp)
<1> USE DEF RangeFrom
<1>1. ToSet(so) = {so[i] : i \in 1 .. w}
  BY DEF ToSet
<1>2. lo \in Nat /\ \A i \in 1 .. w : lo <= so[i]
  <2>1. 1 \in 1 .. w
    OBVIOUS
  <2>2. ToSet(so) \subseteq Nat /\ ToSet(so) # {}
    BY <1>1, <2>1
  <2>3. lo \in ToSet(so) /\ \A n \in ToSet(so) : lo <= n
    BY <2>2, LeastNumber
  <2> QED
    BY <1>1, <2>2, <2>3
<1>3. \A i \in 1 .. w : so[i] \in Nat /\ so[i] <= b
  OBVIOUS
<1>4. inp = [i \in 1 .. w |-> so[i] - lo]
  OBVIOUS
<1>5. \A i \in 1 .. w : inp[i] \in Nat /\ inp[i] <= b /\ lo + inp[i] = so[i]
  <2> SUFFICES ASSUME NEW i \in 1 .. w
               PROVE  inp[i] \in Nat /\ inp[i] <= b /\ lo + inp[i] = so[i]
    OBVIOUS
  <2>1. inp[i] = so[i] - lo
    BY <1>4
  <2> QED
    BY <1>2, <1>3, <2>1
<1>6. ToSet(inp) = {inp[i] : i \in 1 .. w} /\ DOMAIN inp = 1 .. w
  BY <1>4 DEF ToSet
<1>7. Max(ToSet(inp)) \in Nat /\ \A i \in 1 .. w : inp[i] <= Max(ToSet(inp))
  <2>1. 1 \in 1 .. w
    OBVIOUS
  <2>4. \A i \in 1 .. w : inp[i] \in 0 .. b
    BY <1>5
  <2>5. ASSUME NEW T, T = {inp[i] : i \in 1 .. w}
        PROVE  T \subseteq 0 .. b /\ T # {}
    BY <2>1, <2>4, <2>5
  <2>2. ToSet(inp) \subseteq 0 .. b /\ ToSet(inp) # {}
    BY <1>6, <2>5
  <2>3. Max(ToSet(inp)) \in ToSet(inp) /\ \A n \in ToSet(inp) : n <= Max(ToSet(inp))
    BY <2>2, GreatestNumber
  <2> QED
    BY <1>6, <2>2, <2>3
<1>8. RoutingWidth(inp) \in Nat /\ RoutingWidth(inp) - 1 = Max(ToSet(inp))
  BY <1>7 DEF RoutingWidth
<1>9. \A i \in 1 .. w : inp[i] \in 0 .. RoutingWidth(inp) - 1
  BY <1>5, <1>7, <1>8
<1>10. inp \in [1 .. w -> 0 .. RoutingWidth(inp) - 1]
  BY <1>4, <1>6, <1>9
<1> QED
  BY <1>2, <1>5, <1>6, <1>8, <1>10 DEF RangeCopied

\* The sender at an offset is the one whose offset it is.
LEMMA SenderAt ==
  ASSUME MapInv, BufferInv, typeIndex <= Len(SampleTypes), UnplacedSendPorts = {},
         NEW s \in Channels(SendPorts(CurrentType))
  PROVE  /\ ChannelAt(Place(sendOffsets[CurrentType], s)) = s
         /\ Place(sendOffsets[CurrentType], s) < nextOffset
<1> DEFINE f == sendOffsets[CurrentType]
           S == Channels(SendPorts(CurrentType))
<1>1. LaidOut(f, nextOffset)
  BY AtType
<1>2. SendPorts(CurrentType) \subseteq DOMAIN f /\ SendPorts(CurrentType) \subseteq AudioPort
  BY ConnectedPorts DEF UnplacedSendPorts, SendPorts, Typed
<1>3. S \subseteq ChannelsIn(DOMAIN f)
  BY <1>2, RoutingPorts DEF Channels, ChannelsIn
<1>4. \A d \in S : f[d[1]] + d[2] = Place(f, s) => d = s
  BY <1>1, <1>3 DEF LaidOut, Place
<1>5. f[s[1]] + s[2] = Place(f, s)
  BY DEF Place
<1>6. ChannelAt(Place(f, s)) = CHOOSE d \in S : f[d[1]] + d[2] = Place(f, s)
  BY DEF ChannelAt
<1> HIDE DEF f, S
<1>7. ChannelAt(Place(f, s)) = s
  <2>1. s \in S
    BY DEF S
  <2>2. \A d \in S : f[d[1]] + d[2] = Place(f, s) <=> d = s
    BY <1>4, <1>5
  <2>3. (CHOOSE d \in S : f[d[1]] + d[2] = Place(f, s)) = s
    BY <2>1, <2>2
  <2> QED
    BY <1>6, <2>3
<1>8. Place(f, s) < nextOffset
  BY <1>1, <1>3 DEF LaidOut, S
<1> QED
  BY <1>7, <1>8 DEF f

\* A receiving port that is placed for one type is not placed for another.
LEMMA NotPlacedElsewhere ==
  ASSUME MapInv, BufferInv, NEW c \in Types, NEW p \in ReceivePorts(c), NEW t \in Types, t # c
  PROVE  p \notin DOMAIN receiveOffsets[t]
<1> SUFFICES ASSUME p \in DOMAIN receiveOffsets[t]
             PROVE  FALSE
  OBVIOUS
<1>1. DOMAIN routings \subseteq AudioPort /\ p \in AudioPort
  BY ConcretePorts, ConnectedPorts DEF BufferInv, RoutingsOK, ReceivePorts, Typed
<1>2. OneType(t, p)
  BY <1>1, RoutingPorts DEF BufferInv, PlacedOK
<1>3. PICK k \in Typed(c) : k[2][1] = p
  BY DEF ReceivePorts
<1>4. k \in Typed(t)
  BY <1>2, <1>3 DEF OneType, Typed
<1> QED
  BY <1>3, <1>4 DEF Typed

LEMMA BufferInsertRouting ==
  ASSUME MapInv, BufferInv, NEW p, InsertRouting(p)
  PROVE  BufferInv'
<1> DEFINE c == CurrentType
           so == SenderOffsets(p)
           L == LocalConnections(p)
           lo == Min(ToSet(so))
           inp == [i \in DOMAIN so |-> so[i] - lo]
           w == RoutingWidth(inp)
           f == sendOffsets[c]
           g == receiveOffsets[c]
           in == RoutingIn(p)
           out == RoutingOut(p)
           h == MapInsert(MapInsert(g, in, lo), p, nextOffset)
           R == MapInsert(routings, p, [type |-> c, inputs |-> inp, width |-> w])
           F == finalConnections
                  \cup {<<ChannelAt(lo + n), <<in, n>>>> : n \in ToSet(inp)}
                  \cup {<<<<out, i>>, <<p, i>>>> : i \in 0 .. Width[p] - 1}
<1>1. /\ typeIndex <= Len(SampleTypes) /\ UnplacedSendPorts = {}
      /\ p \in ReceivePorts(c) /\ p \notin DOMAIN g /\ SendersComplete(p)
      /\ sendOffsets' = [sendOffsets EXCEPT ![CurrentType] = MapInsert(@, out, nextOffset)]
      /\ receiveOffsets' = [receiveOffsets EXCEPT ![c] = h]
      /\ routings' = R /\ finalConnections' = F
      /\ nextOffset' = nextOffset + Width[p]
      /\ flow' = flow /\ audioFlat' = audioFlat /\ typeIndex' = typeIndex
      /\ poolSize' = poolSize
  BY DEF InsertRouting, ReadyToReceive, InOffsets, UnplacedReceivePorts, mapVars, UsedInputs
<1>2. /\ p \in AudioPort /\ Width[p] \in Nat \ {0} /\ p \in ConcreteReceivers(AudioPort)
      /\ so \in [1 .. Width[p] -> Nat] /\ OneType(c, p)
      /\ \A k \in L : /\ k \in audioFlat /\ k \in Typed(c) /\ k[2][1] = p
                      /\ k = <<k[1], <<p, k[2][2]>>>> /\ k[2][2] \in 0 .. Width[p] - 1
                      /\ k[1][1] \in DOMAIN f /\ k[1] \in Channels(SendPorts(c))
                      /\ so[k[2][2] + 1] = Place(f, k[1])
      /\ \A i \in 0 .. Width[p] - 1 : \E k \in L : k[2] = <<p, i>>
  <2>1. /\ typeIndex <= Len(SampleTypes) /\ UnplacedSendPorts = {}
        /\ p \in ReceivePorts(CurrentType) /\ SendersComplete(p)
    BY <1>1
  <2> QED
    BY <2>1, OffsetsOfSenders
<1>3. /\ typeIndex \in 1 .. Len(SampleTypes) /\ c \in Types /\ nextOffset \in Nat
      /\ \A j \in 1 .. Len(SampleTypes) : SampleTypes[j] = c <=> j = typeIndex
  BY <1>1, AtType
<1>4. p \notin DOMAIN routings
  BY <1>1, <1>3, NotRouted
<1>5. in \notin AudioPort /\ out \notin AudioPort /\ in # p /\ out # p /\ in # out
      /\ WidthOf(out) = Width[p] /\ WidthOf(out) \in Nat
  BY <1>2, RoutingPorts
<1>6. DOMAIN routings \subseteq AudioPort
  BY ConcretePorts DEF BufferInv, RoutingsOK
<1>7. out \notin DOMAIN f /\ in \notin DOMAIN g
  <2>1. \A q \in SendPorts(c) \cup ReceivePorts(c) : q \in AudioPort
    BY ConnectedPorts DEF SendPorts, ReceivePorts, Typed
  <2>2. \A r \in DOMAIN routings : RoutingOut(r) # out /\ RoutingIn(r) # in
    BY <1>2, <1>4, <1>6, RoutingPorts
  <2>3. \A q \in DOMAIN f : q \in SendPorts(c) \/ \E r \in DOMAIN routings : q = RoutingOut(r)
    BY <1>3 DEF BufferInv, PlacedOK
  <2>4. \A q \in DOMAIN g : q \in ReceivePorts(c) \/ \E r \in DOMAIN routings : q = RoutingIn(r)
    BY <1>3 DEF BufferInv, PlacedOK
  <2> HIDE DEF f, g, in, out, c
  <2>5. out \notin DOMAIN f
    BY <1>5, <2>1, <2>2, <2>3
  <2>6. in \notin DOMAIN g
    BY <1>5, <2>1, <2>2, <2>4
  <2> QED
    BY <2>5, <2>6
<1>8. /\ lo \in Nat /\ \A i \in 1 .. Width[p] : lo + inp[i] = so[i]
      /\ w \in Nat /\ inp \in [1 .. Width[p] -> 0 .. w - 1]
      /\ ToSet(inp) = {inp[i] : i \in 1 .. Width[p]}
  <2>1. \A i \in 1 .. Width[p] : so[i] <= nextOffset
    <3> SUFFICES ASSUME NEW i \in 1 .. Width[p]
                 PROVE  so[i] <= nextOffset
      OBVIOUS
    <3>1. i - 1 \in 0 .. Width[p] - 1 /\ (i - 1) + 1 = i
      BY <1>2
    <3>2. PICK k \in L : k[2] = <<p, i - 1>>
      BY <1>2, <3>1
    <3>3. so[i] = Place(f, k[1]) /\ k[1] \in Channels(SendPorts(c))
      BY <1>2, <3>1, <3>2
    <3>4. Place(f, k[1]) < nextOffset
      BY <1>1, <3>3, SenderAt
    <3>5. so[i] \in Nat
      BY <1>2
    <3> QED
      BY <1>3, <3>3, <3>4, <3>5
  <2>2. lo = Min(ToSet(so)) /\ inp = [i \in DOMAIN so |-> so[i] - lo] /\ w = RoutingWidth(inp)
    OBVIOUS
  <2> HIDE DEF so, lo, inp, w
  <2>3. so \in [1 .. Width[p] -> Nat] /\ Width[p] \in Nat \ {0}
    BY <1>2
  <2>4. RangeFrom(so, lo, inp)
    BY <2>2 DEF RangeFrom
  <2>5. RangeCopied(Width[p], so, lo, inp)
    BY <1>3, <2>1, <2>3, <2>4, RoutingRange
  <2> QED
    BY <2>2, <2>5 DEF RangeCopied
<1>9. \A k \in L : /\ ChannelAt(so[k[2][2] + 1]) = k[1]
                   /\ k[2][2] + 1 \in 1 .. Width[p]
                   /\ lo + inp[k[2][2] + 1] = so[k[2][2] + 1]
                   /\ inp[k[2][2] + 1] \in ToSet(inp) /\ inp[k[2][2] + 1] \in Nat
  <2> SUFFICES ASSUME NEW k \in L
               PROVE  /\ ChannelAt(so[k[2][2] + 1]) = k[1]
                      /\ k[2][2] + 1 \in 1 .. Width[p]
                      /\ lo + inp[k[2][2] + 1] = so[k[2][2] + 1]
                      /\ inp[k[2][2] + 1] \in ToSet(inp) /\ inp[k[2][2] + 1] \in Nat
    OBVIOUS
  <2>1. ChannelAt(so[k[2][2] + 1]) = k[1]
    <3>1. k[1] \in Channels(SendPorts(c)) /\ so[k[2][2] + 1] = Place(f, k[1])
      BY <1>2
    <3>2. ChannelAt(Place(f, k[1])) = k[1]
      BY <1>1, <3>1, SenderAt
    <3> QED
      BY <3>1, <3>2
  <2>2. k[2][2] + 1 \in 1 .. Width[p]
    BY <1>2
  <2> HIDE DEF inp, so, lo, w, L
  <2>3. inp[k[2][2] + 1] \in 0 .. w - 1
    BY <1>8, <2>2
  <2> QED
    BY <1>8, <2>1, <2>2, <2>3
<1> HIDE DEF lo, inp, w, so
<1>10. /\ DOMAIN h = DOMAIN g \cup {in, p} /\ h[p] = nextOffset /\ h[in] = lo
       /\ \A q \in DOMAIN g : h[q] = g[q]
  <2> HIDE DEF in, g
  <2> QED
    BY <1>1, <1>5, <1>7 DEF MapInsert
<1>11. /\ DOMAIN R = DOMAIN routings \cup {p}
       /\ R[p].width = w /\ R[p].inputs = inp /\ R[p].type = c
       /\ \A r \in DOMAIN routings : R[r] = routings[r]
  BY <1>4 DEF MapInsert
<1>12. \A t : /\ (Typed(t))' = Typed(t) /\ (SendPorts(t))' = SendPorts(t)
              /\ (ReceivePorts(t))' = ReceivePorts(t)
              /\ \A q : OneType(t, q)' <=> OneType(t, q)
  BY <1>1, TypedUnchanged
<1> HIDE DEF h, R
<1>13. /\ receiveOffsets' = [t \in Types |-> receiveOffsets'[t]]
       /\ receiveOffsets'[c] = h
       /\ \A t \in Types \ {c} : receiveOffsets'[t] = receiveOffsets[t]
  BY <1>1, ReceiveOffsetsAt
<1>14. /\ sendOffsets' = [t \in Types |-> sendOffsets'[t]]
       /\ \A t \in Types : LaidOut(sendOffsets'[t], Taken(t)')
       /\ nextOffset' \in Nat /\ nextOffset' = Taken(CurrentType)'
       /\ DOMAIN sendOffsets'[c] = DOMAIN f \cup {out}
       /\ sendOffsets'[c][out] = nextOffset
       /\ \A t \in Types : \A q \in DOMAIN sendOffsets[t] :
            q \in DOMAIN sendOffsets'[t] /\ sendOffsets'[t][q] = sendOffsets[t][q]
       /\ \A t \in Types \ {c} : sendOffsets'[t] = sendOffsets[t]
       /\ BytesUpTo(sendOffsets', typeIndex - 1) = BytesUpTo(sendOffsets, typeIndex - 1)
  <2> HIDE DEF out
  <2> QED
    BY <1>1, <1>5, <1>7, SendOffsetAdded
<1>15. \A t \in Types \ {c} : p \notin DOMAIN receiveOffsets[t]
  BY <1>1, <1>3, NotPlacedElsewhere
<1>16. \A k \in L : <<k[1], <<in, inp[k[2][2] + 1]>>>> \in F
  <2> SUFFICES ASSUME NEW k \in L
               PROVE  <<k[1], <<in, inp[k[2][2] + 1]>>>> \in F
    OBVIOUS
  <2>1. lo + inp[k[2][2] + 1] = so[k[2][2] + 1] /\ inp[k[2][2] + 1] \in ToSet(inp)
        /\ ChannelAt(so[k[2][2] + 1]) = k[1]
    BY <1>9
  <2>2. ChannelAt(lo + inp[k[2][2] + 1]) = k[1]
    BY <2>1
  <2> QED
    BY <2>1, <2>2
<1>17. \A k \in L : <<<<out, k[2][2]>>, k[2]>> \in F
  BY <1>2
<1>18. \A d \in F : \/ d \in finalConnections
                    \/ \E k \in L : d[1] = k[1] /\ d[2][1] = in
                    \/ d[1][1] = out /\ d[2][1] = p
  <2> SUFFICES ASSUME NEW d \in F, d \notin finalConnections, ~ (d[1][1] = out /\ d[2][1] = p)
               PROVE  \E k \in L : d[1] = k[1] /\ d[2][1] = in
    OBVIOUS
  <2>1. PICK n \in ToSet(inp) : d = <<ChannelAt(lo + n), <<in, n>>>>
    OBVIOUS
  <2>2. PICK i \in 1 .. Width[p] : n = inp[i]
    BY <1>8, <2>1
  <2>3. i - 1 \in 0 .. Width[p] - 1 /\ (i - 1) + 1 = i
    BY <1>2
  <2>4. PICK k \in L : k[2] = <<p, i - 1>>
    BY <1>2, <2>3
  <2>5. k[2][2] + 1 = i
    BY <2>3, <2>4
  <2>6. ChannelAt(lo + n) = k[1]
    BY <1>9, <2>2, <2>5
  <2> QED
    BY <2>1, <2>6
<1> HIDE DEF c, F
<1>19. OffsetsOK'
  <2>1. \A t \in Types : \A q \in DOMAIN receiveOffsets'[t] : receiveOffsets'[t][q] \in Nat
    <3> SUFFICES ASSUME NEW t \in Types, NEW q \in DOMAIN receiveOffsets'[t]
                 PROVE  receiveOffsets'[t][q] \in Nat
      OBVIOUS
    <3>1. \A r \in DOMAIN receiveOffsets[t] : receiveOffsets[t][r] \in Nat
      BY DEF BufferInv, OffsetsOK
    <3>2. CASE t = c
      BY <1>3, <1>8, <1>10, <1>13, <3>1, <3>2
    <3>3. CASE t # c
      BY <1>13, <3>1, <3>3
    <3> QED
      BY <3>2, <3>3
  <2> QED
    BY <1>1, <1>13, <1>14, <2>1 DEF BufferInv, OffsetsOK
<1>20. RoutingsOK'
  <2>1. \A t \in Types : DOMAIN receiveOffsets[t] \subseteq DOMAIN receiveOffsets'[t]
    BY <1>10, <1>13
  <2>2. p \in DOMAIN receiveOffsets'[c]
    BY <1>10, <1>13
  <2> SUFFICES ASSUME NEW r \in DOMAIN R
               PROVE  /\ r \in ConcreteReceivers(AudioPort) /\ R[r].width \in Nat
                      /\ R[r].inputs \in [1 .. Width[r] -> 0 .. R[r].width - 1]
                      /\ R[r].type \in Types /\ r \in DOMAIN receiveOffsets'[R[r].type]
    BY <1>1 DEF RoutingsOK
  <2>3. CASE r = p
    BY <1>2, <1>3, <1>8, <1>11, <2>2, <2>3
  <2>4. CASE r \in DOMAIN routings
    BY <1>11, <2>1, <2>4 DEF BufferInv, RoutingsOK
  <2> QED
    BY <1>11, <2>3, <2>4
<1>21. PlacedOK'
  <2>1. ASSUME NEW t \in Types, t # c
        PROVE  /\ \A q \in DOMAIN sendOffsets'[t] :
                    \/ q \in SendPorts(t)
                    \/ \E r \in DOMAIN R : q = RoutingOut(r) /\ r \in DOMAIN receiveOffsets'[t]
               /\ \A q \in DOMAIN receiveOffsets'[t] :
                    \/ q \in ReceivePorts(t) /\ OneType(t, q)
                    \/ \E r \in DOMAIN R : q = RoutingIn(r) /\ r \in DOMAIN receiveOffsets'[t]
               /\ \A r \in DOMAIN R : r \in DOMAIN receiveOffsets'[t] =>
                    RoutingIn(r) \in DOMAIN receiveOffsets'[t]
                    /\ RoutingOut(r) \in DOMAIN sendOffsets'[t]
    <3>1. sendOffsets'[t] = sendOffsets[t] /\ receiveOffsets'[t] = receiveOffsets[t]
      BY <1>13, <1>14, <2>1
    <3>2. p \notin DOMAIN receiveOffsets[t]
      BY <1>15, <2>1
    <3> QED
      BY <1>11, <3>1, <3>2 DEF BufferInv, PlacedOK
  <2>2. /\ \A q \in DOMAIN f : q \in SendPorts(c)
                            \/ \E r \in DOMAIN routings : q = RoutingOut(r) /\ r \in DOMAIN g
        /\ \A q \in DOMAIN g : \/ q \in ReceivePorts(c) /\ OneType(c, q)
                              \/ \E r \in DOMAIN routings : q = RoutingIn(r) /\ r \in DOMAIN g
        /\ \A r \in DOMAIN routings : r \in DOMAIN g => RoutingIn(r) \in DOMAIN g
                                                        /\ RoutingOut(r) \in DOMAIN f
    BY <1>3 DEF BufferInv, PlacedOK
  <2>3. /\ out = RoutingOut(p) /\ in = RoutingIn(p)
    OBVIOUS
  <2> HIDE DEF f, g, in, out
  <2>4. \A q \in DOMAIN sendOffsets'[c] :
          \/ q \in SendPorts(c)
          \/ \E r \in DOMAIN R : q = RoutingOut(r) /\ r \in DOMAIN receiveOffsets'[c]
    BY <1>10, <1>11, <1>13, <1>14, <2>2, <2>3
  <2>5. \A q \in DOMAIN receiveOffsets'[c] :
          \/ q \in ReceivePorts(c) /\ OneType(c, q)
          \/ \E r \in DOMAIN R : q = RoutingIn(r) /\ r \in DOMAIN receiveOffsets'[c]
    BY <1>1, <1>2, <1>10, <1>11, <1>13, <2>2, <2>3
  <2>6. \A r \in DOMAIN R : r \in DOMAIN receiveOffsets'[c] =>
          RoutingIn(r) \in DOMAIN receiveOffsets'[c] /\ RoutingOut(r) \in DOMAIN sendOffsets'[c]
    <3> SUFFICES ASSUME NEW r \in DOMAIN R, r \in DOMAIN receiveOffsets'[c]
                 PROVE  RoutingIn(r) \in DOMAIN receiveOffsets'[c]
                        /\ RoutingOut(r) \in DOMAIN sendOffsets'[c]
      OBVIOUS
    <3>1. CASE r = p
      BY <1>10, <1>13, <1>14, <2>3, <3>1
    <3>2. CASE r # p
      <4>1. r \in DOMAIN routings /\ r \in AudioPort
        BY <1>6, <1>11, <3>2
      <4>2. r \in DOMAIN g
        BY <1>5, <1>10, <1>13, <3>2, <4>1
      <4> QED
        BY <1>10, <1>13, <1>14, <2>2, <4>1, <4>2
    <3> QED
      BY <3>1, <3>2
  <2>7. c \in Types
    BY <1>3
  <2> QED
    BY <1>1, <1>12, <2>1, <2>4, <2>5, <2>6, <2>7 DEF PlacedOK
<1>22. ProgressOK'
  <2> SUFFICES ASSUME NEW j \in 1 .. Len(SampleTypes)
               PROVE  /\ j > typeIndex => /\ DOMAIN sendOffsets'[SampleTypes[j]] = {}
                                          /\ DOMAIN receiveOffsets'[SampleTypes[j]] = {}
                      /\ j < typeIndex =>
                           /\ SendPorts(SampleTypes[j]) \subseteq DOMAIN sendOffsets'[SampleTypes[j]]
                           /\ ReceivePorts(SampleTypes[j])
                                \subseteq DOMAIN receiveOffsets'[SampleTypes[j]]
    BY <1>1, <1>12, SampleTypeFacts DEF ProgressOK
  <2>1. SampleTypes[j] \in Types /\ (j # typeIndex => SampleTypes[j] # c)
    BY <1>3, SampleTypeFacts
  <2>2. j # typeIndex => /\ sendOffsets'[SampleTypes[j]] = sendOffsets[SampleTypes[j]]
                         /\ receiveOffsets'[SampleTypes[j]] = receiveOffsets[SampleTypes[j]]
    BY <1>13, <1>14, <2>1
  <2> QED
    BY <1>3, <2>2, SampleTypeFacts DEF BufferInv, ProgressOK
<1>23. ReceivedOK'
  <2>1. ASSUME NEW t \in Types, NEW k \in Typed(t)
        PROVE  Received(k, sendOffsets'[t], receiveOffsets'[t], R, F)
    <3>1. /\ Received(k, sendOffsets[t], receiveOffsets[t], routings, finalConnections)
          /\ \A r \in DOMAIN routings : r \in DOMAIN receiveOffsets[t] =>
               /\ RoutingIn(r) \in DOMAIN receiveOffsets[t]
               /\ RoutingOut(r) \in DOMAIN sendOffsets[t]
      BY DEF BufferInv, ReceivedOK, PlacedOK
    <3>2. k[2][1] \in AudioPort
      BY <2>1, ConnectedPorts DEF Typed
    <3>3. CASE k[2][1] = p /\ t = c
      <4>1. k \in L
        BY <2>1, <3>3 DEF LocalConnections, c
      <4> DEFINE i == inp[k[2][2] + 1]
      <4>2. /\ k[1][1] \in DOMAIN f /\ lo + i = Place(f, k[1])
            /\ <<k[1], <<in, i>>>> \in F /\ <<<<out, k[2][2]>>, k[2]>> \in F
        BY <1>2, <1>9, <1>16, <1>17, <4>1
      <4>3. k[1][1] \in DOMAIN sendOffsets'[c] /\ Place(sendOffsets'[c], k[1]) = Place(f, k[1])
        BY <1>3, <1>14, <4>2 DEF Place
      <4>4. R[p].inputs[k[2][2] + 1] = i /\ p \in DOMAIN R
        BY <1>11
      <4>5. receiveOffsets'[c][p] = sendOffsets'[c][out] /\ receiveOffsets'[c][in] = lo
        BY <1>10, <1>13, <1>14
      <4> HIDE DEF i, L, f
      <4> QED
        BY <3>3, <4>2, <4>3, <4>4, <4>5 DEF Received
    <3>4. CASE k[2][1] = p /\ t # c
      <4>1. p \notin DOMAIN receiveOffsets'[t]
        BY <1>13, <1>15, <3>4
      <4> QED
        BY <3>4, <4>1 DEF Received
    <3>5. CASE k[2][1] # p
      <4>1. k[2][1] \in DOMAIN receiveOffsets'[t] => k[2][1] \in DOMAIN receiveOffsets[t]
        BY <1>5, <1>10, <1>13, <3>2, <3>5
      <4>2. \A q \in DOMAIN receiveOffsets[t] : receiveOffsets'[t][q] = receiveOffsets[t][q]
        BY <1>10, <1>13
      <4>3. finalConnections \subseteq F
        BY DEF F
      <4>4. \A q \in DOMAIN sendOffsets[t] :
              q \in DOMAIN sendOffsets'[t] /\ sendOffsets'[t][q] = sendOffsets[t][q]
        BY <1>14
      <4>5. /\ k[2][1] \in DOMAIN R <=> k[2][1] \in DOMAIN routings
            /\ k[2][1] \in DOMAIN routings => R[k[2][1]] = routings[k[2][1]]
        BY <1>11, <3>5
      <4> QED
        BY <3>1, <4>1, <4>2, <4>3, <4>4, <4>5, StillReceived
    <3> QED
      BY <3>3, <3>4, <3>5
  <2> QED
    BY <1>1, <1>12, <2>1 DEF ReceivedOK
<1>24. FinalOK'
  <2> SUFFICES ASSUME NEW d \in F
               PROVE  \/ d \in audioFlat
                      \/ \E k \in audioFlat : /\ k[2][1] \in DOMAIN R
                                              /\ d[1] = k[1] /\ d[2][1] = RoutingIn(k[2][1])
                      \/ \E r \in DOMAIN R : d[1][1] = RoutingOut(r) /\ d[2][1] = r
    BY <1>1 DEF FinalOK
  <2>1. CASE d \in finalConnections
    BY <1>11, <2>1 DEF BufferInv, FinalOK
  <2>2. CASE \E k \in L : d[1] = k[1] /\ d[2][1] = in
    BY <1>2, <1>11, <2>2
  <2>3. CASE d[1][1] = out /\ d[2][1] = p
    BY <1>11, <2>3
  <2> QED
    BY <1>18, <2>1, <2>2, <2>3
<1>25. PoolOK'
  BY <1>1, <1>14 DEF BufferInv, PoolOK
<1> QED
  BY <1>19, <1>20, <1>21, <1>22, <1>23, <1>24, <1>25 DEF BufferInv

\* The bytes of a further sample type.
LEMMA BytesOfNextType ==
  ASSUME NEW f, NEW n \in Nat, n + 1 <= Len(SampleTypes), NEW size \in Nat,
         size = ChannelSize[SampleTypes[n + 1]],
         NEW C, C = ChannelsIn(DOMAIN f[SampleTypes[n + 1]]), IsFiniteSet(C),
         \A i \in 1 .. n : DOMAIN f[SampleTypes[i]] \cap DOMAIN f[SampleTypes[n + 1]] = {},
         IsFiniteSet(BytesUpTo(f, n))
  PROVE  /\ IsFiniteSet(BytesUpTo(f, n + 1)) /\ BytesUpTo(f, n) \subseteq BytesUpTo(f, n + 1)
         /\ Cardinality(BytesUpTo(f, n + 1)) = Cardinality(BytesUpTo(f, n)) + Cardinality(C) * size
<1> DEFINE B == BytesUpTo(f, n)
           D == C \X (0 .. size - 1)
<1>1. BytesUpTo(f, n + 1) = B \cup D
  <2>1. 1 .. n + 1 = 1 .. n \cup {n + 1}
    OBVIOUS
  <2> DEFINE bytes(i) == ChannelsIn(DOMAIN f[SampleTypes[i]])
                           \X (0 .. ChannelSize[SampleTypes[i]] - 1)
  <2>2. BytesUpTo(f, n + 1) = UNION {bytes(i) : i \in 1 .. n + 1} /\ B = UNION {bytes(i) : i \in 1 .. n}
    BY DEF BytesUpTo
  <2>3. bytes(n + 1) = D
    OBVIOUS
  <2> HIDE DEF bytes, B, D
  <2> QED
    BY <2>1, <2>2, <2>3
<1>2. B \cap D = {}
  <2> SUFFICES ASSUME NEW b \in B, b \in D
               PROVE  FALSE
    OBVIOUS
  <2>1. PICK i \in 1 .. n : b \in ChannelsIn(DOMAIN f[SampleTypes[i]])
                                   \X (0 .. ChannelSize[SampleTypes[i]] - 1)
    BY DEF BytesUpTo
  <2>2. b[1] \in ChannelsIn(DOMAIN f[SampleTypes[i]]) /\ b[1] \in C
    BY <2>1
  <2>3. b[1][1] \in DOMAIN f[SampleTypes[i]] /\ b[1][1] \in DOMAIN f[SampleTypes[n + 1]]
    BY <2>2, ChannelsInPorts
  <2> QED
    BY <2>3
<1>3. IsFiniteSet(D) /\ Cardinality(D) = Cardinality(C) * size
  BY SizeOfGrid
<1> HIDE DEF D
<1>4. IsFiniteSet(B)
  OBVIOUS
<1> HIDE DEF B
<1>5. /\ IsFiniteSet(B \cup D)
      /\ Cardinality(B \cup D) = Cardinality(B) + Cardinality(D) - Cardinality(B \cap D)
  BY <1>3, <1>4, FS_Union
<1>6. Cardinality(B) \in Nat /\ Cardinality(D) \in Nat /\ Cardinality(B \cap D) = 0
  BY <1>2, <1>3, <1>4, FS_CardinalityType, FS_EmptySet
<1>7. Cardinality(B \cup D) = Cardinality(B) + Cardinality(D)
  BY <1>5, <1>6
<1> QED
  BY <1>1, <1>3, <1>5, <1>7 DEF B

LEMMA BufferEndType ==
  ASSUME MapInv, BufferInv, EndType
  PROVE  BufferInv'
<1> DEFINE c == CurrentType
           n == typeIndex
           C == ChannelsIn(DOMAIN sendOffsets[c])
           B == BytesUpTo(sendOffsets, n - 1)
<1>1. /\ n <= Len(SampleTypes) /\ UnplacedSendPorts = {} /\ UnplacedReceivePorts = {}
      /\ poolSize' = poolSize + nextOffset * ChannelSize[c]
      /\ nextOffset' = 0 /\ typeIndex' = n + 1
      /\ flow' = flow /\ audioFlat' = audioFlat /\ sendOffsets' = sendOffsets
      /\ receiveOffsets' = receiveOffsets /\ routings' = routings
      /\ finalConnections' = finalConnections
  BY DEF EndType, mapVars
<1>2. /\ n \in 1 .. Len(SampleTypes) /\ c \in Types /\ nextOffset = Cardinality(C)
      /\ LaidOut(sendOffsets[c], nextOffset) /\ Len(SampleTypes) \in Nat
      /\ \A j \in 1 .. Len(SampleTypes) : SampleTypes[j] = c <=> j = n
  BY <1>1, AtType, SampleTypeFacts DEF Taken
<1>3. \A t : /\ (Typed(t))' = Typed(t) /\ (SendPorts(t))' = SendPorts(t)
             /\ (ReceivePorts(t))' = ReceivePorts(t)
             /\ \A q : OneType(t, q)' <=> OneType(t, q)
  BY <1>1, TypedUnchanged
<1>4. OffsetsOK'
  <2>1. typeIndex' \in 1 .. Len(SampleTypes) + 1
    BY <1>1, <1>2
  <2>2. ASSUME n + 1 <= Len(SampleTypes)
        PROVE  Taken(CurrentType)' = 0
    <3>1. n + 1 \in DOMAIN SampleTypes /\ n + 1 > n
      BY <1>2, <2>2, SampleTypeFacts
    <3>2. DOMAIN sendOffsets[SampleTypes[n + 1]] = {}
      BY <3>1 DEF BufferInv, ProgressOK
    <3>3. ChannelsIn({}) = {} /\ Cardinality({}) = 0
      BY FS_EmptySet DEF ChannelsIn
    <3>4. Taken(CurrentType)' = Cardinality(ChannelsIn(DOMAIN sendOffsets[SampleTypes[n + 1]]))
      BY <1>1 DEF Taken, CurrentType
    <3> QED
      BY <3>2, <3>3, <3>4
  <2>3. \A t \in Types : Taken(t)' = Taken(t)
    BY <1>1 DEF Taken
  <2> QED
    BY <1>1, <2>1, <2>2, <2>3 DEF BufferInv, OffsetsOK
<1>5. RoutingsOK' /\ FinalOK'
  BY <1>1 DEF BufferInv, RoutingsOK, FinalOK
<1>6. PlacedOK'
  BY <1>1, <1>3 DEF BufferInv, PlacedOK
<1>7. ReceivedOK'
  BY <1>1, <1>3 DEF BufferInv, ReceivedOK
<1>8. ProgressOK'
  <2> SUFFICES ASSUME NEW j \in 1 .. Len(SampleTypes)
               PROVE  /\ j > n + 1 => /\ DOMAIN sendOffsets[SampleTypes[j]] = {}
                                      /\ DOMAIN receiveOffsets[SampleTypes[j]] = {}
                      /\ j < n + 1 =>
                           /\ SendPorts(SampleTypes[j]) \subseteq DOMAIN sendOffsets[SampleTypes[j]]
                           /\ ReceivePorts(SampleTypes[j])
                                \subseteq DOMAIN receiveOffsets[SampleTypes[j]]
    BY <1>1, <1>3, SampleTypeFacts DEF ProgressOK
  <2>1. CASE j = n
    <3>1. SampleTypes[j] = c /\ ~ (j > n + 1)
      BY <1>2, <2>1
    <3>2. SendPorts(c) \subseteq DOMAIN sendOffsets[c] /\ ReceivePorts(c) \subseteq DOMAIN receiveOffsets[c]
      BY <1>1 DEF UnplacedSendPorts, UnplacedReceivePorts
    <3> QED
      BY <3>1, <3>2
  <2>2. CASE j # n
    <3>1. (j > n + 1 => j > n) /\ (j < n + 1 => j < n)
      BY <1>2, <2>2
    <3>2. j \in DOMAIN SampleTypes
      BY SampleTypeFacts
    <3> QED
      BY <3>1, <3>2 DEF BufferInv, ProgressOK
  <2> QED
    BY <2>1, <2>2
<1>9. PoolOK'
  <2> DEFINE m == n - 1
             size == ChannelSize[c]
  <2>1. m \in Nat /\ m + 1 = n /\ m + 1 <= Len(SampleTypes) /\ SampleTypes[m + 1] = c
        /\ size \in Nat
    BY <1>2, SampleTypeFacts
  <2>2. \A i \in 1 .. m : DOMAIN sendOffsets[SampleTypes[i]] \cap DOMAIN sendOffsets[c] = {}
    <3> SUFFICES ASSUME NEW i \in 1 .. m,
                        NEW q \in DOMAIN sendOffsets[SampleTypes[i]] \cap DOMAIN sendOffsets[c]
                 PROVE  FALSE
      OBVIOUS
    <3>1. i \in 1 .. Len(SampleTypes) /\ i # n
      BY <1>2, <2>1
    <3>2. SampleTypes[i] \in Types /\ SampleTypes[i] # c
      BY <1>2, <3>1, SampleTypeFacts
    <3> QED
      BY <1>2, <3>2, PlacedForOneType
  <2>3. IsFiniteSet(C)
    BY <1>2 DEF LaidOut
  <2>4. IsFiniteSet(B) /\ poolSize = Cardinality(B) /\ B = BytesUpTo(sendOffsets, m)
    BY DEF BufferInv, PoolOK
  <2> HIDE DEF c, B, m
  <2>5. C = ChannelsIn(DOMAIN sendOffsets[SampleTypes[m + 1]]) /\ size = ChannelSize[SampleTypes[m + 1]]
    BY <2>1
  <2> HIDE DEF C, size
  <2>6. /\ IsFiniteSet(BytesUpTo(sendOffsets, m + 1))
        /\ Cardinality(BytesUpTo(sendOffsets, m + 1)) = Cardinality(B) + Cardinality(C) * size
    BY <2>1, <2>2, <2>3, <2>4, <2>5, BytesOfNextType
  <2>7. typeIndex' - 1 = m + 1
    BY <1>1, <2>1
  <2>8. poolSize' = Cardinality(B) + Cardinality(C) * size
    BY <1>1, <1>2, <2>4 DEF size
  <2> QED
    BY <1>1, <2>6, <2>7, <2>8 DEF PoolOK
<1> QED
  BY <1>4, <1>5, <1>6, <1>7, <1>8, <1>9 DEF BufferInv

\* The pools that are allocated in the end are those that the offsets lie in.
LEMMA PoolsAsLaidOut ==
  ASSUME MapInv, BufferInv
  PROVE  /\ \A t \in Types : PoolChannels(t) = ChannelsIn(DOMAIN sendOffsets[t])
         /\ \A n \in 0 .. Len(SampleTypes) :
              PoolOffset(n) = Cardinality(BytesUpTo(sendOffsets, n))
<1>1. DOMAIN routings \subseteq AudioPort
  BY ConcretePorts DEF BufferInv, RoutingsOK
<1>2. ASSUME NEW p \in DOMAIN routings
      PROVE  PortWidth(RoutingOut(p)) = WidthOf(RoutingOut(p))
  <2>1. /\ p \in AudioPort /\ RoutingOut(p) \notin AudioPort /\ RoutingOut(p) # RoutingIn(p)
        /\ WidthOf(RoutingOut(p)) = Width[p] /\ Width[p] \in Nat
    BY <1>1, RoutingPorts
  <2>2. \A r \in DOMAIN routings : RoutingOut(p) \in {RoutingIn(r), RoutingOut(r)} <=> r = p
    BY <1>1, RoutingPorts
  <2>3. (CHOOSE r \in DOMAIN routings : RoutingOut(p) \in {RoutingIn(r), RoutingOut(r)}) = p
    BY <2>2
  <2>4. routings[p].inputs \in [1 .. Width[p] -> 0 .. routings[p].width - 1]
    BY DEF BufferInv, RoutingsOK
  <2>5. Len(routings[p].inputs) = Width[p]
    BY <2>1, <2>4
  <2> QED
    BY <2>1, <2>3, <2>5 DEF PortWidth
<1>3. ASSUME NEW t \in Types, NEW q \in DOMAIN sendOffsets[t]
      PROVE  PortWidth(q) = WidthOf(q)
  <2>1. CASE q \in AudioPort
    BY <2>1 DEF PortWidth, WidthOf
  <2>2. CASE q \notin AudioPort
    <3>1. SendPorts(t) \subseteq AudioPort
      BY ConnectedPorts DEF SendPorts, Typed
    <3>2. PICK p \in DOMAIN routings : q = RoutingOut(p)
      BY <2>2, <3>1 DEF BufferInv, PlacedOK
    <3> QED
      BY <1>2, <3>2
  <2> QED
    BY <2>1, <2>2
<1>4. \A t \in Types : PoolChannels(t) = ChannelsIn(DOMAIN sendOffsets[t])
  BY <1>3 DEF PoolChannels, ChannelsIn
<1>5. ASSUME NEW n \in 0 .. Len(SampleTypes)
      PROVE  PoolOffset(n) = Cardinality(BytesUpTo(sendOffsets, n))
  <2>1. \A i \in 1 .. n : PoolChannels(SampleTypes[i]) = ChannelsIn(DOMAIN sendOffsets[SampleTypes[i]])
    <3>1. \A i \in 1 .. n : SampleTypes[i] \in Types
      BY SampleTypeFacts
    <3> QED
      BY <1>4, <3>1
  <2>2. UNION {PoolChannels(SampleTypes[i]) \X (0 .. ChannelSize[SampleTypes[i]] - 1) : i \in 1 .. n}
        = BytesUpTo(sendOffsets, n)
    BY <2>1 DEF BytesUpTo
  <2> QED
    BY <2>2 DEF PoolOffset
<1> QED
  BY <1>4, <1>5

\* What sends is not what receives, and each has one sample type.
LEMMA PlacedAtOneType ==
  ASSUME MapInv, BufferInv, NEW t \in Types, NEW u \in Types
  PROVE  /\ \A q \in PlacedPorts(t) \cap PlacedPorts(u) : t = u
         /\ DOMAIN sendOffsets[t] \cap DOMAIN receiveOffsets[u] = {}
<1>1. DOMAIN routings \subseteq AudioPort
  BY ConcretePorts DEF BufferInv, RoutingsOK
<1>2. \A v, w \in Types : /\ SendPorts(v) \subseteq AudioPort /\ ReceivePorts(w) \subseteq AudioPort
                          /\ SendPorts(v) \cap ReceivePorts(w) = {}
  BY ConnectedPorts DEF SendPorts, ReceivePorts, Typed, ConcreteReceivers
<1>3. ASSUME NEW v \in Types, NEW w \in Types, NEW q \in DOMAIN sendOffsets[v] \cap DOMAIN receiveOffsets[w]
      PROVE  FALSE
  <2>1. CASE q \in AudioPort
    BY <1>1, <1>2, <1>3, <2>1, RoutingPorts DEF BufferInv, PlacedOK
  <2>2. CASE q \notin AudioPort
    <3>1. PICK p \in DOMAIN routings : q = RoutingOut(p)
      BY <1>2, <1>3, <2>2 DEF BufferInv, PlacedOK
    <3>2. PICK r \in DOMAIN routings : q = RoutingIn(r)
      BY <1>2, <1>3, <2>2 DEF BufferInv, PlacedOK
    <3> QED
      BY <1>1, <3>1, <3>2, RoutingPorts
  <2> QED
    BY <2>1, <2>2
<1> QED
  BY <1>3, PlacedForOneType DEF PlacedPorts

\* The last loop of initialiseAudioConnections().
LEMMA BuffersAssigned ==
  ASSUME MapInv, BufferInv, AssignBuffers
  PROVE  /\ BufferInv' /\ typeIndex' = Len(SampleTypes) + 1
         /\ Assigned(buffers', sendOffsets', receiveOffsets')
         /\ phase' = "parameterInfrastructure"
<1>1. /\ typeIndex > Len(SampleTypes)
      /\ buffers' = [q \in UNION {PlacedPorts(t) : t \in Types} |-> BufferConfig(q)]
      /\ phase' = IF PoolOffset(Len(SampleTypes)) = poolSize
                  THEN "parameterInfrastructure" ELSE "rejected"
      /\ UNCHANGED <<sendOffsets, receiveOffsets, nextOffset, typeIndex, routings,
                     finalConnections, poolSize>>
      /\ flow' = flow /\ audioFlat' = audioFlat
  BY DEF AssignBuffers, mapVars, Types
<1>2. BufferInv'
  BY <1>1, BuffersUntouched
<1>3. typeIndex = Len(SampleTypes) + 1 /\ Len(SampleTypes) \in Nat
  BY <1>1, SampleTypeFacts DEF BufferInv, OffsetsOK
<1>4. PoolOffset(Len(SampleTypes)) = poolSize
  <2>1. typeIndex - 1 = Len(SampleTypes) /\ Len(SampleTypes) \in 0 .. Len(SampleTypes)
    BY <1>3
  <2> QED
    BY <2>1, PoolsAsLaidOut DEF BufferInv, PoolOK
<1>5. ASSUME NEW n \in 1 .. Len(SampleTypes), NEW t, t = SampleTypes[n], NEW q \in PlacedPorts(t)
      PROVE  /\ q \in DOMAIN buffers' /\ buffers'[q].stride = ChannelSamples[t]
             /\ buffers'[q].base = Cardinality(BytesUpTo(sendOffsets, n - 1))
                   + ChannelSize[t] * (IF q \in DOMAIN sendOffsets[t] THEN sendOffsets[t][q]
                                                                    ELSE receiveOffsets[t][q])
  <2>1. t \in Types
    BY <1>5, SampleTypeFacts
  <2>2. q \in DOMAIN buffers' /\ buffers'[q] = BufferConfig(q)
    BY <1>1, <1>5, <2>1
  <2>3. (CHOOSE u \in ToSet(SampleTypes) : q \in PlacedPorts(u)) = t
    <3>1. \A u \in Types : q \in PlacedPorts(u) <=> u = t
      BY <1>5, <2>1, PlacedAtOneType
    <3> QED
      BY <2>1, <3>1 DEF Types
  <2>4. TypeOffset(t) = Cardinality(BytesUpTo(sendOffsets, n - 1))
    <3>1. \A i \in DOMAIN SampleTypes : SampleTypes[i] = t <=> i = n
      BY <1>5, SampleTypeFacts
    <3>2. n \in DOMAIN SampleTypes
      BY SampleTypeFacts
    <3>3. (CHOOSE i \in DOMAIN SampleTypes : SampleTypes[i] = t) = n
      BY <3>1, <3>2
    <3>4. n - 1 \in 0 .. Len(SampleTypes)
      BY <1>3
    <3> QED
      BY <3>3, <3>4, PoolsAsLaidOut DEF TypeOffset
  <2> QED
    <3> DEFINE o == IF q \in DOMAIN sendOffsets[t] THEN sendOffsets[t][q] ELSE receiveOffsets[t][q]
               u == CHOOSE v \in ToSet(SampleTypes) : q \in PlacedPorts(v)
               config(v) == [base |-> TypeOffset(v) + ChannelSize[v] *
                                    (IF q \in DOMAIN sendOffsets[v] THEN sendOffsets[v][q]
                                                                   ELSE receiveOffsets[v][q]),
                         stride |-> ChannelSamples[v]]
    <3>4. BufferConfig(q) = config(u) /\ u = t
      BY <2>3 DEF BufferConfig
    <3> HIDE DEF u
    <3>1. BufferConfig(q) = [base |-> TypeOffset(t) + ChannelSize[t] * o,
                             stride |-> ChannelSamples[t]]
      BY <3>4
    <3> HIDE DEF o
    <3>2. /\ BufferConfig(q).base = TypeOffset(t) + ChannelSize[t] * o
          /\ BufferConfig(q).stride = ChannelSamples[t]
      BY <3>1
    <3>3. buffers'[q].base = Cardinality(BytesUpTo(sendOffsets, n - 1)) + ChannelSize[t] * o
      BY <2>2, <2>4, <3>2
    <3> QED
      BY <2>2, <3>2, <3>3 DEF o
<1>6. Assigned(buffers', sendOffsets, receiveOffsets)
  BY <1>5 DEF Assigned, PlacedPorts
<1> QED
  BY <1>1, <1>2, <1>3, <1>4, <1>6

-----------------------------------------------------------------------------
(* The invariant of the constructor and of process().                      *)

\* What is known of the schedule and of the audio thread.
ScheduleOK ==
  /\ phase \notin {"idle", "process"} => schedule = <<>> /\ position = 1
  /\ phase \in {"idle", "process"} => schedule \in Schedules
  /\ Len(schedule) \in Nat /\ position \in 1 .. Len(schedule) + 1
  /\ period \in 0 .. MaxPeriods

\* The protocol objects accept their connections before there is a schedule.
ProtocolsOK == phase \in {"schedule", "idle", "process"} => ProtocolsConnect

FlowInv ==
  /\ MapInv /\ BufferInv /\ (phase \in Early => NothingPlaced)
  /\ AssignedOK /\ ProtocolsOK /\ ScheduleOK

\* A step of initialiseAudioConnections() that is not its last one.
LEMMA StepWithinOffsets ==
  ASSUME FlowInv, phase = "offsets", phase' \in {"offsets", "rejected"},
         UNCHANGED <<flow, parameterFlat, runVars>>
  PROVE  /\ phase' \notin Early
         /\ AssignedOK' /\ ProtocolsOK' /\ ScheduleOK'
<1>1. phase' \notin Early /\ phase' \notin Later \ {"offsets"}
      /\ phase' \notin {"schedule", "idle", "process"} /\ phase \notin {"idle", "process"}
  BY DEF Early, Later
<1>2. AssignedOK' /\ ProtocolsOK'
  BY <1>1 DEF AssignedOK, ProtocolsOK
<1>3. ScheduleOK'
  BY <1>1 DEF FlowInv, ScheduleOK, runVars
<1> QED
  BY <1>1, <1>2, <1>3

\* A step after initialiseAudioConnections().
LEMMA StepAfterOffsets ==
  ASSUME FlowInv, phase \in Later \ {"offsets"}, phase' \in (Later \ {"offsets"}) \cup {"rejected"},
         UNCHANGED <<flow, mapVars, bufferVars>>
  PROVE  phase' \notin Early /\ BufferInv' /\ AssignedOK'
<1>1. phase' \notin Early
  BY DEF Early, Later
<1>2. BufferInv'
  BY BuffersUntouched DEF FlowInv, bufferVars, mapVars
<1>3. AssignedOK'
  BY DEF FlowInv, AssignedOK, bufferVars
<1> QED
  BY <1>1, <1>2, <1>3

\* Whether the protocol objects accept the connections depends on the connections.
LEMMA ProtocolsUnchanged ==
  ASSUME flow' = flow, parameterFlat' = parameterFlat
  PROVE  ProtocolsConnect' <=> ProtocolsConnect
BY DEF ProtocolsConnect, OneSender, OneReceiver

\* The schedules depend on the final connections and the components.
LEMMA SchedulesUnchanged ==
  ASSUME parameterFlat' = parameterFlat, routings' = routings, finalConnections' = finalConnections
  PROVE  Schedules' = Schedules
BY DEF Schedules, Orders, Components, Dependencies

LEMMA ComponentsFinite ==
  ASSUME BufferInv
  PROVE  IsFiniteSet(Components) /\ Cardinality(Components) \in Nat
<1> DEFINE R == {Routing(p) : p \in DOMAIN routings}
<1>1. DOMAIN routings \subseteq AudioPort
  BY ConcretePorts DEF BufferInv, RoutingsOK
<1>2. IsFiniteSet(DOMAIN routings)
  <2>1. IsFiniteSet(AudioPort \cup ParameterPort)
    BY HierarchyAssumption
  <2>2. DOMAIN routings \in SUBSET (AudioPort \cup ParameterPort)
    BY <1>1
  <2> QED
    BY <2>1, <2>2, FS_Subset
<1>3. IsFiniteSet(R)
  <2> DEFINE h == [p \in DOMAIN routings |-> Routing(p)]
  <2>1. h \in Surjection(DOMAIN routings, R)
    BY DEF Surjection
  <2> QED
    BY <1>2, <2>1, FS_Surjection
<1>4. IsFiniteSet(Atomic)
  <2>1. IsFiniteSet(Component) /\ Atomic \in SUBSET Component
    BY HierarchyAssumption DEF Component
  <2> QED
    BY <2>1, FS_Subset
<1>5. IsFiniteSet(Atomic \cup R)
  BY <1>3, <1>4, FS_Union
<1> QED
  BY <1>5, FS_CardinalityType DEF Components

\* A schedule is a sequence of components.
LEMMA ScheduleShape ==
  ASSUME BufferInv, NEW s \in Schedules
  PROVE  Len(s) \in Nat /\ ToSet(s) \subseteq Components
<1>1. s \in SetToSeqs(Components)
  BY DEF Schedules, Orders
<1>2. s \in [1 .. Cardinality(Components) -> Components]
  BY <1>1 DEF SetToSeqs
<1>3. Cardinality(Components) \in Nat
  BY ComponentsFinite
<1>4. Len(s) \in Nat
  BY <1>2, <1>3
<1>5. ToSet(s) \subseteq Components
  BY <1>2 DEF ToSet
<1> QED
  BY <1>4, <1>5

LEMMA FlowInitially ==
  ASSUME Init
  PROVE  FlowInv
<1>1. MapInv
  BY MapInit
<1>2. NothingPlaced
  BY DEF Init, NothingPlaced, Types
<1>3. phase = "connected" /\ schedule = <<>> /\ position = 1 /\ period = 0
  BY DEF Init
<1>4. ScheduleOK
  BY <1>3, BoundAssumption DEF ScheduleOK
<1>5. AssignedOK /\ ProtocolsOK
  BY <1>3 DEF AssignedOK, ProtocolsOK, Later
<1> QED
  BY <1>1, <1>2, <1>4, <1>5, NothingPlacedYet DEF FlowInv

LEMMA FlowResolveStep ==
  ASSUME FlowInv, ResolveStep, UNCHANGED <<bufferVars, runVars>>
  PROVE  FlowInv'
<1>1. MapInv'
  BY MapInductive DEF FlowInv, Next, Construct
<1>2. phase \in Early /\ phase' \in Early \cup {"offsets", "rejected"}
  BY DEF ResolveStep, CheckConnectionIntegrity, LookAtAudioConnection, FollowAudio, ArriveAudio,
         EndAudio, LookAtParameterConnection, FollowParameter, ArriveParameter, EndParameters,
         WalkOn, Throw, Early
<1>3. NothingPlaced'
  BY <1>2 DEF FlowInv, NothingPlaced, bufferVars
<1>4. BufferInv'
  BY <1>3, NothingPlacedYet, PTL
<1>5. /\ phase' \notin Later \ {"offsets"} /\ phase' \notin {"schedule", "idle", "process"}
      /\ phase \notin {"idle", "process"}
  BY <1>2 DEF Early, Later
<1>6. AssignedOK' /\ ProtocolsOK'
  BY <1>5 DEF AssignedOK, ProtocolsOK
<1>7. ScheduleOK'
  BY <1>5 DEF FlowInv, ScheduleOK, runVars
<1> QED
  BY <1>1, <1>3, <1>4, <1>6, <1>7 DEF FlowInv

LEMMA FlowBufferStep ==
  ASSUME FlowInv, BufferStep, UNCHANGED runVars
  PROVE  FlowInv'
<1>1. MapInv' /\ MapInv /\ BufferInv
  BY MapInductive DEF FlowInv, Next, Construct
<1>2. ASSUME NEW p, PlaceSendPort(p) \/ PlaceReceivePort(p) \/ InsertRouting(p)
      PROVE  FlowInv'
  <2>1. /\ phase = "offsets" /\ phase' = "offsets" /\ flow' = flow /\ parameterFlat' = parameterFlat
    BY <1>2 DEF PlaceSendPort, PlaceReceivePort, InsertRouting, ReadyToReceive, InOffsets, mapVars
  <2>2. BufferInv'
    BY <1>1, <1>2, BufferPlaceSendPort, BufferPlaceReceivePort, BufferInsertRouting
  <2>3. phase' \notin Early /\ AssignedOK' /\ ProtocolsOK' /\ ScheduleOK'
    BY <2>1, StepWithinOffsets
  <2> QED
    BY <1>1, <2>2, <2>3 DEF FlowInv
<1>3. ASSUME NEW p, RefuseSenders(p)
      PROVE  FlowInv'
  <2>1. /\ phase = "offsets" /\ phase' = "rejected" /\ flow' = flow /\ parameterFlat' = parameterFlat
        /\ audioFlat' = audioFlat
        /\ UNCHANGED <<sendOffsets, receiveOffsets, nextOffset, typeIndex, routings,
                       finalConnections, poolSize>>
    BY <1>3 DEF RefuseSenders, ReadyToReceive, InOffsets, mapVars, bufferVars
  <2>2. BufferInv'
    BY <1>1, <2>1, BuffersUntouched
  <2>3. phase' \notin Early /\ AssignedOK' /\ ProtocolsOK' /\ ScheduleOK'
    BY <2>1, StepWithinOffsets
  <2> QED
    BY <1>1, <2>2, <2>3 DEF FlowInv
<1>4. ASSUME EndType
      PROVE  FlowInv'
  <2>1. /\ phase = "offsets" /\ phase' = "offsets" /\ flow' = flow /\ parameterFlat' = parameterFlat
    BY <1>4 DEF EndType, mapVars
  <2>2. BufferInv'
    BY <1>1, <1>4, BufferEndType
  <2>3. phase' \notin Early /\ AssignedOK' /\ ProtocolsOK' /\ ScheduleOK'
    BY <2>1, StepWithinOffsets
  <2> QED
    BY <1>1, <2>2, <2>3 DEF FlowInv
<1>5. ASSUME AssignBuffers
      PROVE  FlowInv'
  <2>1. phase = "offsets"
    BY <1>5 DEF AssignBuffers
  <2>2. /\ BufferInv' /\ typeIndex' = Len(SampleTypes) + 1
        /\ Assigned(buffers', sendOffsets', receiveOffsets')
        /\ phase' = "parameterInfrastructure"
    BY <1>1, <1>5, BuffersAssigned
  <2>3. AssignedOK'
    BY <2>2 DEF AssignedOK
  <2>4. ProtocolsOK' /\ phase' \notin Early
    BY <2>2 DEF ProtocolsOK, Early
  <2>5. ScheduleOK'
    BY <2>1, <2>2 DEF FlowInv, ScheduleOK, runVars
  <2> QED
    BY <1>1, <2>2, <2>3, <2>4, <2>5 DEF FlowInv
<1> QED
  BY <1>2, <1>3, <1>4, <1>5 DEF BufferStep

\* What stays as it is when neither the flow nor its connections change.
LEMMA LaterStep ==
  ASSUME FlowInv, phase \in Later \ {"offsets"}, phase' \in (Later \ {"offsets"}) \cup {"rejected"},
         UNCHANGED <<flow, mapVars, bufferVars>>
  PROVE  /\ phase' \notin Early /\ BufferInv' /\ AssignedOK'
         /\ (ProtocolsConnect' <=> ProtocolsConnect) /\ Schedules' = Schedules
<1>1. /\ flow' = flow /\ parameterFlat' = parameterFlat /\ routings' = routings
      /\ finalConnections' = finalConnections
  BY DEF mapVars, bufferVars
<1> QED
  BY <1>1, StepAfterOffsets, ProtocolsUnchanged, SchedulesUnchanged

LEMMA FlowLaterStep ==
  ASSUME FlowInv,
         \/ InitialiseParameterInfrastructure \/ InitialiseSchedule
         \/ BeginPeriod \/ ExecuteComponent \/ EndPeriod
  PROVE  FlowInv'
<1>1. MapInv'
  BY MapInductive DEF FlowInv, Next, Construct
<1>2. ScheduleOK /\ BufferInv /\ ProtocolsOK
  BY DEF FlowInv
<1>3. CASE InitialiseParameterInfrastructure
  <2>1. /\ phase = "parameterInfrastructure"
        /\ phase' = IF ProtocolsConnect THEN "schedule" ELSE "rejected"
        /\ UNCHANGED <<flow, mapVars, bufferVars, runVars>>
    BY <1>3 DEF InitialiseParameterInfrastructure
  <2>2. /\ phase' \notin Early /\ BufferInv' /\ AssignedOK'
        /\ (ProtocolsConnect' <=> ProtocolsConnect)
    BY <2>1, LaterStep DEF Later
  <2>3. ProtocolsOK'
    BY <2>1, <2>2 DEF ProtocolsOK
  <2>4. ScheduleOK'
    BY <1>2, <2>1 DEF ScheduleOK, runVars
  <2> QED
    BY <1>1, <2>2, <2>3, <2>4 DEF FlowInv
<1>4. CASE InitialiseSchedule
  <2>1. /\ phase = "schedule" /\ UNCHANGED <<flow, mapVars, bufferVars, position, period, memory>>
        /\ \/ Schedules = {} /\ phase' = "rejected" /\ schedule' = schedule
           \/ phase' = "idle" /\ schedule' \in Schedules
    BY <1>4 DEF InitialiseSchedule
  <2>2. /\ phase' \notin Early /\ BufferInv' /\ AssignedOK'
        /\ (ProtocolsConnect' <=> ProtocolsConnect) /\ Schedules' = Schedules
    BY <2>1, LaterStep DEF Later
  <2>3. ProtocolsOK'
    BY <1>2, <2>1, <2>2 DEF ProtocolsOK
  <2>4. schedule = <<>> /\ position = 1 /\ Len(schedule) \in Nat /\ period \in 0 .. MaxPeriods
    BY <1>2, <2>1 DEF ScheduleOK
  <2>6. CASE phase' = "idle" /\ schedule' \in Schedules
    <3>1. Len(schedule') \in Nat
      BY <1>2, <2>6, ScheduleShape
    <3>2. position' \in 1 .. Len(schedule') + 1
      BY <2>1, <2>4, <3>1
    <3>3. ScheduleOK'
      BY <2>1, <2>2, <2>4, <2>6, <3>1, <3>2 DEF ScheduleOK
    <3> QED
      BY <1>1, <2>2, <2>3, <3>3 DEF FlowInv
  <2>7. CASE Schedules = {} /\ phase' = "rejected" /\ schedule' = schedule
    <3>1. ScheduleOK'
      BY <2>1, <2>4, <2>7 DEF ScheduleOK
    <3> QED
      BY <1>1, <2>2, <2>3, <3>1 DEF FlowInv
  <2> QED
    BY <2>1, <2>6, <2>7
<1>5. CASE BeginPeriod \/ ExecuteComponent \/ EndPeriod
  <2>1. /\ phase \in {"idle", "process"} /\ phase' \in {"idle", "process"}
        /\ UNCHANGED <<flow, mapVars, bufferVars>> /\ schedule' = schedule
    BY <1>5 DEF BeginPeriod, ExecuteComponent, EndPeriod, runVars
  <2>2. /\ phase' \notin Early /\ BufferInv' /\ AssignedOK'
        /\ (ProtocolsConnect' <=> ProtocolsConnect) /\ Schedules' = Schedules
    BY <2>1, LaterStep DEF Later
  <2>3. ProtocolsOK'
    BY <1>2, <2>1, <2>2 DEF ProtocolsOK
  <2>4. /\ Len(schedule) \in Nat /\ position \in 1 .. Len(schedule) + 1
        /\ period \in 0 .. MaxPeriods /\ MaxPeriods \in Nat
    BY <1>2, BoundAssumption DEF ScheduleOK
  <2>5. position' \in 1 .. Len(schedule) + 1 /\ period' \in 0 .. MaxPeriods
    <3>1. CASE BeginPeriod
      BY <2>4, <3>1 DEF BeginPeriod
    <3>2. CASE ExecuteComponent
      BY <2>4, <3>2 DEF ExecuteComponent
    <3>3. CASE EndPeriod
      BY <2>4, <3>3 DEF EndPeriod, runVars
    <3> QED
      BY <1>5, <3>1, <3>2, <3>3
  <2>6. ScheduleOK'
    BY <1>2, <2>1, <2>2, <2>4, <2>5 DEF ScheduleOK
  <2> QED
    BY <1>1, <2>2, <2>3, <2>6 DEF FlowInv
<1> QED
  BY <1>3, <1>4, <1>5

LEMMA FlowInductive ==
  ASSUME FlowInv, [Next]_vars
  PROVE  FlowInv'
<1>1. CASE UNCHANGED vars
  <2>1. MapInv'
    BY MapInductive DEF FlowInv
  <2>2. /\ flow' = flow /\ audioFlat' = audioFlat /\ parameterFlat' = parameterFlat
        /\ phase' = phase /\ UNCHANGED <<bufferVars, runVars>>
    BY <1>1 DEF vars, mapVars
  <2>3. BufferInv'
    BY <2>2, BuffersUntouched DEF FlowInv, bufferVars
  <2>4. (phase' \in Early => NothingPlaced') /\ AssignedOK'
    BY <2>2 DEF FlowInv, NothingPlaced, AssignedOK, bufferVars
  <2>5. ProtocolsOK'
    BY <2>2, ProtocolsUnchanged DEF FlowInv, ProtocolsOK
  <2>6. ScheduleOK'
    BY <2>2, SchedulesUnchanged DEF FlowInv, ScheduleOK, bufferVars, runVars
  <2> QED
    BY <2>1, <2>3, <2>4, <2>5, <2>6 DEF FlowInv
<1>2. CASE ResolveStep /\ UNCHANGED <<bufferVars, runVars>>
  BY <1>2, FlowResolveStep
<1>3. CASE BufferStep /\ UNCHANGED runVars
  BY <1>3, FlowBufferStep
<1>4. CASE \/ InitialiseParameterInfrastructure \/ InitialiseSchedule
           \/ BeginPeriod \/ ExecuteComponent \/ EndPeriod
  BY <1>4, FlowLaterStep
<1> QED
  BY <1>1, <1>2, <1>3, <1>4 DEF Next, Construct

\* The invariant holds in every state that a flow gets into.
THEOREM FlowInvariant == Spec => []FlowInv
<1>1. Init => FlowInv
  BY FlowInitially
<1>2. FlowInv /\ [Next]_vars => FlowInv'
  BY FlowInductive
<1> QED
  BY <1>1, <1>2, PTL DEF Spec

\* resolvePlaceholders() neither loses nor invents a signal, in flows of any size and
\* depth: whatever the constructor connects the ports of the atomic components by is
\* what the chains of registered connections connect, and each receiving channel has
\* exactly one sender.
THEOREM SignalsKept == Spec => []SignalsComplete
<1>1. FlowInv => SignalsComplete
  BY MapSignals DEF FlowInv
<1> QED
  BY <1>1, FlowInvariant, PTL

\* In a flow that runs, each parameter input has exactly one sender, and a chain of
\* registered connections leads from the one to the other.
THEOREM OneParameterSource == Spec => []ParameterSource
<1>1. ASSUME FlowInv
      PROVE  ParameterSource
  <2> SUFFICES ASSUME phase \in {"idle", "process"}
               PROVE  /\ ToSet(parameterFlat) \subseteq ParameterPaths
                      /\ \A r \in ParameterReceivers :
                           \E i \in DOMAIN parameterFlat : \A j \in DOMAIN parameterFlat :
                             parameterFlat[j][2] = r <=> j = i
    BY DEF ParameterSource, Accepted, ParameterReceivers
  <2>1. /\ ParameterFlatOK /\ ParameterCovered /\ ProtocolsConnect
    BY <1>1 DEF FlowInv, MapInv, ProtocolsOK
  <2>2. \A i \in DOMAIN parameterFlat :
          /\ parameterFlat[i] \in ParameterSenders \X ParameterReceivers
          /\ Reaches(ParameterConnections, ParameterPlaceholders,
                     parameterFlat[i][1], parameterFlat[i][2])
    BY <2>1, ElementOfSeq, LenProperties DEF ParameterFlatOK
  <2>3. ToSet(parameterFlat) \subseteq ParameterPaths
    BY <2>2 DEF ToSet, ParameterPaths, ParameterSenders, ParameterReceivers, ParameterPlaceholders
  <2>4. ASSUME NEW r \in ParameterReceivers
        PROVE  \E i \in DOMAIN parameterFlat : \A j \in DOMAIN parameterFlat :
                 parameterFlat[j][2] = r <=> j = i
    <3>1. PICK i \in DOMAIN parameterFlat : parameterFlat[i][2] = r
      BY <2>1 DEF ParameterCovered
    <3>2. ASSUME NEW j \in DOMAIN parameterFlat, parameterFlat[j][2] = r
          PROVE  j = i
      <4>1. parameterFlat[j][1] = parameterFlat[i][1]
        BY <2>1, <3>1, <3>2 DEF ProtocolsConnect, OneSender
      <4>2. parameterFlat[j] = parameterFlat[i]
        BY <2>2, <3>1, <3>2, <4>1
      <4> QED
        BY <2>1, <4>2 DEF ProtocolsConnect, IsInjective
    <3> QED
      BY <3>1, <3>2
  <2> QED
    BY <2>3, <2>4
<1> QED
  BY <1>1, FlowInvariant, PTL

\* The variables have their types; the channels that a routing component copies lie
\* within the input it has been created with.
THEOREM TypeCorrect == Spec => []TypeOK
<1>1. ASSUME FlowInv
      PROVE  TypeOK
  <2>1. FlowOK /\ PendingOK /\ AudioFlatOK /\ ParameterFlatOK
    BY <1>1 DEF FlowInv, MapInv
  <2>2. OffsetsOK /\ RoutingsOK /\ PoolOK /\ ScheduleOK /\ BufferInv
    BY <1>1 DEF FlowInv, BufferInv
  <2>3. /\ flow.sampleType \in [AudioPort -> ToSet(SampleTypes)]
        /\ flow.protocol \in [ParameterPort -> Protocol]
    BY <2>1, SampleTypeAssumption, HierarchyAssumption DEF FlowOK
  <2>4. pending \subseteq AudioConnections \cup ParameterEntries
    BY <2>1 DEF PendingOK
  <2>5. audioFlat \subseteq AudioSenders \X AudioReceivers
    BY <2>1 DEF AudioFlatOK
  <2>6. ToSet(parameterFlat) \subseteq
          ConcreteSenders(ParameterPort) \X ConcreteReceivers(ParameterPort)
    BY <2>1, ElementOfSeq, LenProperties
      DEF ParameterFlatOK, ToSet, ParameterSenders, ParameterReceivers
  <2>7. nextOffset \in Nat /\ typeIndex \in 1 .. Len(SampleTypes) + 1
    BY <2>2 DEF OffsetsOK
  <2>8. poolSize \in Nat
    BY <2>2, FS_CardinalityType DEF PoolOK
  <2>9. DOMAIN routings \subseteq AudioPort
    BY <2>2, ConcretePorts DEF RoutingsOK
  <2>10. \A p \in DOMAIN routings : \A i \in 1 .. Width[p] :
           routings[p].inputs[i] \in 0 .. routings[p].width - 1
    BY <2>2 DEF RoutingsOK
  <2>11. ToSet(schedule) \subseteq Components
    <3>1. CASE phase \in {"idle", "process"}
      BY <2>2, <3>1, ScheduleShape DEF ScheduleOK
    <3>2. CASE phase \notin {"idle", "process"}
      BY <2>2, <3>2 DEF ScheduleOK, ToSet
    <3> QED
      BY <3>1, <3>2
  <2>12. position \in 1 .. Len(schedule) + 1 /\ period \in 0 .. MaxPeriods
    BY <2>2 DEF ScheduleOK
  <2>13. phase \in Phases
    BY <2>1 DEF FlowOK
  <2> QED
    BY <2>3, <2>4, <2>5, <2>6, <2>7, <2>8, <2>9, <2>10, <2>11, <2>12, <2>13 DEF TypeOK, Phases
<1> QED
  BY <1>1, FlowInvariant, PTL

-----------------------------------------------------------------------------
(* Every sending channel is used.                                          *)

\* Each port that can send does so inside some composite.
LEMMA SendsSomewhere ==
  ASSUME NEW ports \in SUBSET AnyPort, NEW p \in ConcreteSenders(ports) \cup Placeholders(ports)
  PROVE  \E c \in Composite : p \in LocalSendPorts(c, ports)
<1>1. /\ p \in ports /\ p[1] \in Component /\ TopLevel \in Composite
      /\ Atomic \cap Composite = {} /\ Component = Atomic \cup Composite
      /\ \A c \in Component \ {TopLevel} : Front(c) \in Composite
  BY HierarchyAssumption, ConcretePorts DEF Component, AnyPort
<1>2. p \in Placeholders(ports) <=> p[1] \in Composite \ {TopLevel}
  BY <1>1 DEF Placeholders, IsPlaceholderPort
<1>3. p \in ConcreteSenders(ports) <=>
        p[1] \notin Composite \ {TopLevel} /\ (p[1] = TopLevel <=> p \in Input)
  BY <1>1, <1>2 DEF ConcreteSenders
<1>4. CASE p \in Input
  <2>1. p[1] \in Composite
    BY <1>1, <1>2, <1>3, <1>4
  <2> QED
    BY <1>1, <1>4, <2>1 DEF LocalSendPorts
<1>5. CASE p \notin Input
  <2>1. p[1] # TopLevel
    BY <1>2, <1>3, <1>5
  <2> QED
    BY <1>1, <1>5, <2>1 DEF LocalSendPorts, Children
<1> QED
  BY <1>4, <1>5

LEMMA EveryChannelSends ==
  ASSUME Checked, NEW s \in AudioSenders \cup AudioPlaceholders
  PROVE  \E r : <<s, r>> \in AudioConnections
<1>1. /\ s = <<s[1], s[2]>> /\ s[2] \in 0 .. Width[s[1]] - 1
      /\ s[1] \in ConcreteSenders(AudioPort) \cup Placeholders(AudioPort)
  BY ChannelsOfPorts DEF AudioSenders, AudioPlaceholders
<1>2. PICK c \in Composite : s[1] \in LocalSendPorts(c, AudioPort)
  BY <1>1, SendsSomewhere DEF AnyPort
<1>3. s \in Channels(LocalSendPorts(c, AudioPort))
  BY <1>1, <1>2, ChannelsOfPorts
<1>4. \A x \in Channels(LocalSendPorts(c, AudioPort)) :
        \E r \in Channels(LocalReceivePorts(c, AudioPort)) : <<x, r>> \in DOMAIN flow.audio[c]
  BY DEF Checked, CheckAudioConnectionsLocal
<1> QED
  BY <1>3, <1>4 DEF AudioConnections

LEMMA ChannelsFinite ==
  ASSUME NEW ports \in SUBSET AudioPort
  PROVE  IsFiniteSet(Channels(ports))
<1> DEFINE channels(p) == {<<p, i>> : i \in 0 .. Width[p] - 1}
           F == {channels(p) : p \in ports}
<1>1. IsFiniteSet(ports)
  <2>1. IsFiniteSet(AudioPort \cup ParameterPort) /\ ports \in SUBSET (AudioPort \cup ParameterPort)
    BY HierarchyAssumption
  <2> QED
    BY <2>1, FS_Subset
<1>2. IsFiniteSet(F)
  <2> DEFINE h == [p \in ports |-> channels(p)]
  <2> HIDE DEF channels
  <2>1. h \in Surjection(ports, F)
    BY DEF Surjection
  <2> QED
    BY <1>1, <2>1, FS_Surjection
<1>3. \A p \in ports : IsFiniteSet(channels(p))
  <2> SUFFICES ASSUME NEW p \in ports
               PROVE  IsFiniteSet(channels(p))
    OBVIOUS
  <2>1. Width[p] \in Nat
    BY HierarchyAssumption
  <2> QED
    BY <2>1, ChannelsOfPort
<1>4. \A T \in F : IsFiniteSet(T)
  BY <1>3
<1>5. Channels(ports) = UNION F
  BY DEF Channels
<1> HIDE DEF F
<1> QED
  BY <1>2, <1>4, <1>5, FS_UNION

\* No chain of connections ends in a placeholder: each leads to another one, which
\* is not the end of any other chain.
LEMMA EverySenderConnected ==
  ASSUME MapInv, phase \notin {"connected", "audio", "rejected"}, NEW s \in AudioSenders
  PROVE  \E k \in audioFlat : k[1] = s
<1> SUFFICES ASSUME \A k \in audioFlat : k[1] # s
             PROVE  FALSE
  OBVIOUS
<1> DEFINE C == AudioConnections
           P == {q \in AudioPlaceholders : Reaches(C, AudioPlaceholders, s, q)}
           T == P \cup {s}
           next == [x \in T |-> CHOOSE y : <<x, y>> \in C]
<1>1. Checked
  BY DEF MapInv, FlowOK
<1>2. s \notin P
  BY Disjoint
<1>3. ASSUME NEW x \in T
      PROVE  next[x] \in P /\ <<x, next[x]>> \in C
  <2>1. <<x, next[x]>> \in C
    <3>1. \E y : <<x, y>> \in C
      BY <1>1, EveryChannelSends
    <3> QED
      BY <3>1
  <2>2. next[x] \in AudioReceivers \cup AudioPlaceholders
    BY <1>1, <2>1, CheckedAudio
  <2>3. Reaches(C, AudioPlaceholders, s, next[x])
    <3>1. CASE x = s
      BY <2>1, <3>1 DEF Reaches
    <3>2. CASE x \in P
      <4> HIDE DEF next, C
      <4> QED
        BY <2>1, <3>2, ReachedThrough
    <3> QED
      BY <3>1, <3>2
  <2>4. next[x] \notin AudioReceivers
    <3>1. \A r \in AudioReceivers : Reaches(C, AudioPlaceholders, s, r) => <<s, r>> \in Signals
      BY DEF Signals, AudioPlaceholders
    <3> HIDE DEF next, C
    <3>2. \A r : <<s, r>> \notin audioFlat
      OBVIOUS
    <3> QED
      BY <2>3, <3>1, <3>2, FlatIsSignals
  <2> QED
    BY <2>1, <2>2, <2>3, <2>4
<1>4. next \in Injection(T, P)
  <2>1. next \in [T -> P]
    BY <1>3
  <2>2. ASSUME NEW x \in T, NEW y \in T, next[x] = next[y]
        PROVE  x = y
    <3>1. <<x, next[x]>> \in C /\ <<y, next[x]>> \in C /\ next[x] \in AudioPlaceholders
      BY <1>3, <2>2
    <3>2. \A r \in AudioPlaceholders : \E z : \A t : <<t, r>> \in C => t = z
      BY <1>1, CheckedAudio
    <3> HIDE DEF next, C
    <3> QED
      BY <3>1, <3>2
  <2> QED
    BY <2>1, <2>2 DEF Injection, IsInjective
<1>5. IsFiniteSet(P)
  <2>1. IsFiniteSet(AudioPlaceholders)
    BY ChannelsFinite DEF AudioPlaceholders, Placeholders
  <2> QED
    BY <2>1, FS_Subset
<1>6. Cardinality(T) <= Cardinality(P)
  BY <1>4, <1>5, FS_Injection
<1>7. Cardinality(T) = Cardinality(P) + 1 /\ Cardinality(P) \in Nat
  BY <1>2, <1>5, FS_AddElement, FS_CardinalityType
<1> QED
  BY <1>6, <1>7

-----------------------------------------------------------------------------
(* The memory of the channels.                                             *)

LEMMA AddressOfPlace ==
  ASSUME NEW b \in Nat, NEW size \in Nat, NEW first \in Nat, NEW i \in Nat
  PROVE  b + size * first + i * size = b + size * (first + i)
<1>1. size * (first + i) = size * first + i * size /\ size * first \in Nat /\ i * size \in Nat
  OBVIOUS
<1> QED
  BY <1>1

\* One place is before the other.
LEMMA PlaceBefore ==
  ASSUME NEW size \in Nat, NEW o \in Nat, NEW n \in Nat, o < n
  PROVE  size * o + size <= size * n /\ size * o \in Nat /\ size * n \in Nat
<1>1. PICK d \in Nat : n = o + 1 + d
  <2>1. n - (o + 1) \in Nat /\ n = o + 1 + (n - (o + 1))
    OBVIOUS
  <2> QED
    BY <2>1
<1>2. size * (o + 1 + d) = size * o + size + size * d /\ size * d \in Nat /\ size * o \in Nat
  OBVIOUS
<1> QED
  BY <1>1, <1>2

LEMMA BytesGrow ==
  ASSUME NEW f, NEW m \in Nat, NEW n \in Nat, m <= n
  PROVE  BytesUpTo(f, m) \subseteq BytesUpTo(f, n)
<1>1. 1 .. m \subseteq 1 .. n
  OBVIOUS
<1> QED
  BY <1>1 DEF BytesUpTo

\* Where the memory of a sample type begins: behind that of those before it.
LEMMA PoolBounds ==
  ASSUME MapInv, BufferInv, typeIndex = Len(SampleTypes) + 1,
         NEW n \in 0 .. Len(SampleTypes), NEW m \in 0 .. n
  PROVE  /\ Cardinality(BytesUpTo(sendOffsets, n)) \in Nat
         /\ Cardinality(BytesUpTo(sendOffsets, m)) <= Cardinality(BytesUpTo(sendOffsets, n))
         /\ poolSize = Cardinality(BytesUpTo(sendOffsets, Len(SampleTypes)))
         /\ n > 0 => Cardinality(BytesUpTo(sendOffsets, n)) =
              Cardinality(BytesUpTo(sendOffsets, n - 1))
                + Taken(SampleTypes[n]) * ChannelSize[SampleTypes[n]]
<1> DEFINE B(i) == BytesUpTo(sendOffsets, i)
           N == Len(SampleTypes)
<1>1. N \in Nat
  BY SampleTypeFacts
<1>2. IsFiniteSet(B(N)) /\ poolSize = Cardinality(B(N))
  <2>1. typeIndex - 1 = N
    BY <1>1
  <2> QED
    BY <2>1 DEF BufferInv, PoolOK
<1>3. \A i \in 0 .. N : B(i) \subseteq B(N)
  BY <1>1, BytesGrow
<1> HIDE DEF B
<1>4. \A i \in 0 .. N : IsFiniteSet(B(i))
  BY <1>2, <1>3, FS_Subset
<1>5. Cardinality(B(n)) \in Nat
  BY <1>4, FS_CardinalityType
<1>6. Cardinality(B(m)) <= Cardinality(B(n))
  <2>1. B(m) \in SUBSET B(n)
    BY <1>1, BytesGrow DEF B
  <2> QED
    BY <1>4, <2>1, FS_Subset
<1>7. ASSUME n > 0
      PROVE  Cardinality(B(n)) = Cardinality(B(n - 1)) + Taken(SampleTypes[n]) * ChannelSize[SampleTypes[n]]
  <2> DEFINE j == n - 1
             t == SampleTypes[n]
             D == ChannelsIn(DOMAIN sendOffsets[t])
             size == ChannelSize[t]
  <2>1. j \in Nat /\ j + 1 = n /\ j + 1 <= N /\ SampleTypes[j + 1] = t /\ t \in Types
        /\ size \in Nat /\ j \in 0 .. N
    BY <1>1, <1>7, SampleTypeFacts
  <2>2. IsFiniteSet(D)
    BY <2>1 DEF BufferInv, OffsetsOK, LaidOut
  <2>3. \A i \in 1 .. j : DOMAIN sendOffsets[SampleTypes[i]] \cap DOMAIN sendOffsets[t] = {}
    <3> SUFFICES ASSUME NEW i \in 1 .. j,
                        NEW q \in DOMAIN sendOffsets[SampleTypes[i]] \cap DOMAIN sendOffsets[t]
                 PROVE  FALSE
      OBVIOUS
    <3>1. SampleTypes[i] \in Types /\ SampleTypes[i] # t
      BY <1>1, <2>1, SampleTypeFacts
    <3> QED
      BY <2>1, <3>1, PlacedForOneType
  <2>4. IsFiniteSet(BytesUpTo(sendOffsets, j))
    BY <1>4, <2>1 DEF B
  <2> HIDE DEF j, t
  <2>5. D = ChannelsIn(DOMAIN sendOffsets[SampleTypes[j + 1]]) /\ size = ChannelSize[SampleTypes[j + 1]]
    BY <2>1
  <2> HIDE DEF D, size
  <2>6. Cardinality(BytesUpTo(sendOffsets, j + 1)) =
          Cardinality(BytesUpTo(sendOffsets, j)) + Cardinality(D) * size
    BY <2>1, <2>2, <2>3, <2>4, <2>5, BytesOfNextType
  <2>7. Taken(t) = Cardinality(D)
    BY DEF Taken, D
  <2> QED
    BY <2>1, <2>6, <2>7 DEF B, j, t, size
<1> QED
  BY <1>2, <1>5, <1>6, <1>7 DEF B

\* The memory of the channel at a place of the pool of the n-th sample type.
FirstByte(n, o) ==
  Cardinality(BytesUpTo(sendOffsets, n - 1)) + ChannelSize[SampleTypes[n]] * o
LastByte(n, o) == FirstByte(n, o) + ChannelSize[SampleTypes[n]] - 1

LEMMA PlaceInPool ==
  ASSUME MapInv, BufferInv, typeIndex = Len(SampleTypes) + 1,
         NEW n \in 1 .. Len(SampleTypes), NEW o \in Nat, o < Taken(SampleTypes[n])
  PROVE  /\ FirstByte(n, o) \in Nat /\ LastByte(n, o) \in Int
         /\ Cardinality(BytesUpTo(sendOffsets, n - 1)) <= FirstByte(n, o)
         /\ LastByte(n, o) < Cardinality(BytesUpTo(sendOffsets, n))
         /\ LastByte(n, o) < poolSize
<1> DEFINE b == Cardinality(BytesUpTo(sendOffsets, n - 1))
           d == Cardinality(BytesUpTo(sendOffsets, n))
           e == Cardinality(BytesUpTo(sendOffsets, Len(SampleTypes)))
           t == SampleTypes[n]
           size == ChannelSize[t]
           taken == Taken(t)
<1>1. t \in Types /\ size \in Nat \ {0} /\ Len(SampleTypes) \in Nat
  BY SampleTypeFacts
<1>2. taken \in Nat
  BY <1>1, FS_CardinalityType DEF BufferInv, OffsetsOK, LaidOut, Taken
<1>3. n \in 0 .. Len(SampleTypes) /\ n - 1 \in 0 .. n /\ n - 1 \in 0 .. Len(SampleTypes)
      /\ n \in 0 .. Len(SampleTypes) /\ Len(SampleTypes) \in 0 .. Len(SampleTypes)
  BY <1>1
<1>4. d \in Nat /\ d = b + taken * size
  BY <1>3, PoolBounds
<1>5. b \in Nat
  BY <1>3, PoolBounds
<1>6. d <= e /\ poolSize = e /\ e \in Nat
  BY <1>3, PoolBounds
<1>7. FirstByte(n, o) = b + size * o /\ LastByte(n, o) = b + size * o + size - 1
  BY DEF FirstByte, LastByte
<1>8. o < taken
  OBVIOUS
<1> HIDE DEF b, d, e, size, taken, t
<1>9. size * o + size <= size * taken /\ size * o \in Nat /\ size * taken \in Nat
  BY <1>1, <1>2, <1>8, PlaceBefore
<1>10. taken * size = size * taken
  BY <1>1, <1>2
<1>11. /\ b + size * o \in Nat /\ b + size * o + size - 1 \in Int
       /\ b <= b + size * o /\ b + size * o + size - 1 < d /\ b + size * o + size - 1 < poolSize
  BY <1>1, <1>4, <1>5, <1>6, <1>9, <1>10
<1>12. /\ FirstByte(n, o) \in Nat /\ LastByte(n, o) \in Int
       /\ b <= FirstByte(n, o) /\ LastByte(n, o) < d /\ LastByte(n, o) < poolSize
  BY <1>7, <1>11
<1> QED
  BY <1>12 DEF b, d

\* Two places of the pools do not overlap.
LEMMA PlacesApart ==
  ASSUME MapInv, BufferInv, typeIndex = Len(SampleTypes) + 1,
         NEW n \in 1 .. Len(SampleTypes), NEW o \in Nat, o < Taken(SampleTypes[n]),
         NEW m \in 1 .. Len(SampleTypes), NEW p \in Nat, p < Taken(SampleTypes[m]),
         n < m \/ (n = m /\ o < p)
  PROVE  LastByte(n, o) < FirstByte(m, p)
<1>1. CASE n = m /\ o < p
  <2> DEFINE b == Cardinality(BytesUpTo(sendOffsets, n - 1))
             size == ChannelSize[SampleTypes[n]]
  <2>1. size \in Nat \ {0} /\ n \in 0 .. Len(SampleTypes) /\ n - 1 \in 0 .. Len(SampleTypes)
        /\ n - 1 \in 0 .. n - 1
    BY SampleTypeFacts
  <2>2. b \in Nat
    BY <2>1, PoolBounds
  <2>3. FirstByte(m, p) = b + size * p /\ LastByte(n, o) = b + size * o + size - 1
    BY <1>1 DEF FirstByte, LastByte
  <2> HIDE DEF b, size
  <2>4. size * o + size <= size * p /\ size * o \in Nat /\ size * p \in Nat
    BY <1>1, <2>1, PlaceBefore
  <2>5. b + size * o + size - 1 < b + size * p
    BY <2>1, <2>2, <2>4
  <2> QED
    BY <2>3, <2>5
<1>2. CASE n < m
  <2> DEFINE d == Cardinality(BytesUpTo(sendOffsets, n))
             e == Cardinality(BytesUpTo(sendOffsets, m - 1))
  <2>1. m - 1 \in 0 .. Len(SampleTypes) /\ n \in 0 .. m - 1 /\ n \in 0 .. Len(SampleTypes)
        /\ 0 \in 0 .. n
    BY <1>2, SampleTypeFacts
  <2>2. d <= e /\ e \in Nat
    BY <2>1, PoolBounds
  <2>3. d \in Nat
    BY <2>1, PoolBounds
  <2>4. LastByte(n, o) \in Int /\ LastByte(n, o) < d
    BY PlaceInPool
  <2>5. FirstByte(m, p) \in Nat /\ e <= FirstByte(m, p)
    BY PlaceInPool
  <2> HIDE DEF d, e
  <2> QED
    BY <2>2, <2>3, <2>4, <2>5
<1> QED
  BY <1>1, <1>2

\* The offset of a port that has been given memory in the pool of a sample type.
OffsetIn(t, q) ==
  IF q \in DOMAIN sendOffsets[t] THEN sendOffsets[t][q] ELSE receiveOffsets[t][q]

\* A port that sends has the sample type of the loop that it is placed in, and so
\* do both ports of a routing component.
LEMMA TypeOfPort ==
  ASSUME MapInv, BufferInv, NEW t \in Types
  PROVE  /\ \A q \in AudioPort : PortType(q) = flow.sampleType[q]
         /\ \A p \in DOMAIN routings : p \in DOMAIN receiveOffsets[t] =>
              PortType(RoutingIn(p)) = t /\ PortType(RoutingOut(p)) = t
         /\ \A q \in DOMAIN sendOffsets[t] : PortType(q) = t
<1>1. DOMAIN routings \subseteq AudioPort
  BY ConcretePorts DEF BufferInv, RoutingsOK
<1>2. \A q \in AudioPort : PortType(q) = flow.sampleType[q]
  BY DEF PortType
<1>3. ASSUME NEW p \in DOMAIN routings, p \in DOMAIN receiveOffsets[t]
      PROVE  PortType(RoutingIn(p)) = t /\ PortType(RoutingOut(p)) = t
  <2>1. RoutingIn(p) \notin AudioPort /\ RoutingOut(p) \notin AudioPort
    BY <1>1, <1>3, RoutingPorts
  <2>2. \A r \in DOMAIN routings : /\ RoutingIn(p) \in {RoutingIn(r), RoutingOut(r)} <=> r = p
                                  /\ RoutingOut(p) \in {RoutingIn(r), RoutingOut(r)} <=> r = p
    BY <1>1, <1>3, RoutingPorts
  <2>3. /\ (CHOOSE r \in DOMAIN routings : RoutingIn(p) \in {RoutingIn(r), RoutingOut(r)}) = p
        /\ (CHOOSE r \in DOMAIN routings : RoutingOut(p) \in {RoutingIn(r), RoutingOut(r)}) = p
    BY <1>3, <2>2
  <2>4. routings[p].type = t
    BY <1>3, PlacedForOneType DEF BufferInv, RoutingsOK
  <2> QED
    BY <2>1, <2>3, <2>4 DEF PortType
<1>4. ASSUME NEW q \in DOMAIN sendOffsets[t]
      PROVE  PortType(q) = t
  <2>1. CASE q \in SendPorts(t)
    <3>1. PICK k \in Typed(t) : k[1][1] = q
      BY <2>1 DEF SendPorts
    <3>2. q \in AudioPort /\ flow.sampleType[q] = t
      BY <3>1, ConnectedPorts DEF Typed
    <3> QED
      BY <1>2, <3>2
  <2>2. CASE \E p \in DOMAIN routings : q = RoutingOut(p) /\ p \in DOMAIN receiveOffsets[t]
    BY <1>3, <2>2
  <2> QED
    BY <1>4, <2>1, <2>2 DEF BufferInv, PlacedOK
<1> QED
  BY <1>2, <1>3, <1>4

\* The memory of a channel that has been given a place in the pool of its type.
LEMMA SpanOfChannel ==
  ASSUME MapInv, BufferInv, typeIndex = Len(SampleTypes) + 1,
         Assigned(buffers, sendOffsets, receiveOffsets),
         NEW n \in 1 .. Len(SampleTypes), NEW t, t = SampleTypes[n],
         NEW c, c[1] \in PlacedPorts(t), c[2] \in Nat, PortType(c[1]) = t,
         NEW first \in Nat, first = OffsetIn(t, c[1]),
         NEW o \in Nat, o = first + c[2], o < Taken(t)
  PROVE  /\ c[1] \in DOMAIN buffers /\ Address(c) = FirstByte(n, o)
         /\ Span(c) = FirstByte(n, o) .. LastByte(n, o)
<1> DEFINE q == c[1]
           b == Cardinality(BytesUpTo(sendOffsets, n - 1))
           size == ChannelSize[t]
<1>1. /\ q \in DOMAIN buffers /\ buffers[q].stride = ChannelSamples[t]
      /\ buffers[q].base = b + size * first
  BY DEF Assigned, PlacedPorts, OffsetIn
<1>2. size \in Nat \ {0} /\ StrideBytes(q) = size
  BY <1>1, SampleTypeFacts DEF StrideBytes
<1>3. b \in Nat
  <2>1. n - 1 \in 0 .. Len(SampleTypes) /\ n - 1 \in 0 .. n - 1
    BY SampleTypeFacts
  <2> QED
    BY <2>1, PoolBounds
<1>4. Address(c) = b + size * first + c[2] * size
  BY <1>1, <1>2 DEF Address
<1>5. FirstByte(n, o) = b + size * o /\ LastByte(n, o) = b + size * o + size - 1
  BY DEF FirstByte, LastByte
<1>6. Span(c) = Address(c) .. Address(c) + size - 1
  BY DEF Span
<1> DEFINE i == c[2]
<1>7. i \in Nat /\ o = first + i /\ Address(c) = b + size * first + i * size
  BY <1>4
<1> HIDE DEF b, size, i
<1>8. Address(c) = b + size * o
  <2>1. size \in Nat /\ i \in Nat
    BY <1>2, <1>7
  <2>2. b + size * first + i * size = b + size * (first + i)
    BY <1>3, <2>1, AddressOfPlace
  <2>3. first + i = o
    BY <1>7
  <2> QED
    BY <1>7, <2>2, <2>3, Zenon
<1> QED
  BY <1>1, <1>5, <1>6, <1>8

\* Every sending channel has a place of its own.
LEMMA SenderPlaced ==
  ASSUME FlowInv, phase \in Later \ {"offsets"}, NEW c \in BufferSenders
  PROVE  \E n \in 1 .. Len(SampleTypes) : c \in ChannelsIn(DOMAIN sendOffsets[SampleTypes[n]])
<1>1. /\ MapInv /\ BufferInv /\ typeIndex = Len(SampleTypes) + 1
      /\ phase \notin {"connected", "audio", "rejected"} /\ Len(SampleTypes) \in Nat
  BY SampleTypeFacts DEF FlowInv, AssignedOK, Later
<1>2. CASE c \in AudioSenders
  <2>1. PICK k \in audioFlat : k[1] = c
    BY <1>1, <1>2, EverySenderConnected
  <2>2. /\ c = <<c[1], c[2]>> /\ c[1] \in AudioPort /\ c[2] \in 0 .. Width[c[1]] - 1
        /\ flow.sampleType[c[1]] \in Types
    BY <1>1, <2>1, ConnectedPorts
  <2>3. PICK n \in 1 .. Len(SampleTypes) : SampleTypes[n] = flow.sampleType[c[1]]
    BY <2>2, SampleTypeFacts
  <2>4. c[1] \in SendPorts(SampleTypes[n])
    BY <2>1, <2>3 DEF SendPorts, Typed
  <2>5. n \in DOMAIN SampleTypes /\ n < typeIndex
    BY <1>1, SampleTypeFacts
  <2>6. c[1] \in DOMAIN sendOffsets[SampleTypes[n]]
    BY <1>1, <2>4, <2>5 DEF BufferInv, ProgressOK
  <2>7. WidthOf(c[1]) = Width[c[1]]
    BY <2>2, RoutingPorts
  <2> QED
    BY <2>2, <2>6, <2>7, ChannelsInPorts
<1>3. CASE c \notin AudioSenders
  <2>1. PICK p \in DOMAIN routings : \E i \in 0 .. Width[p] - 1 : c = <<RoutingOut(p), i>>
    BY <1>3 DEF BufferSenders
  <2>2. p \in AudioPort
    BY <1>1, <2>1, ConcretePorts DEF BufferInv, RoutingsOK
  <2>3. PICK t \in Types : p \in DOMAIN receiveOffsets[t]
    BY <1>1, <2>1 DEF BufferInv, RoutingsOK
  <2>4. RoutingOut(p) \in DOMAIN sendOffsets[t]
    BY <1>1, <2>1, <2>3 DEF BufferInv, PlacedOK
  <2>5. PICK n \in 1 .. Len(SampleTypes) : SampleTypes[n] = t
    BY SampleTypeFacts
  <2>6. WidthOf(RoutingOut(p)) = Width[p]
    BY <2>2, RoutingPorts
  <2>7. c = <<c[1], c[2]>> /\ c[1] = RoutingOut(p) /\ c[2] \in 0 .. Width[p] - 1
    BY <2>1
  <2> QED
    BY <2>4, <2>5, <2>6, <2>7, ChannelsInPorts
<1> QED
  BY <1>2, <1>3

\* A receiving channel reads where some channel of the type of its sender is written.
LEMMA ReceiverPlaced ==
  ASSUME FlowInv, phase \in Later \ {"offsets"}, NEW k \in audioFlat, NEW r, r = k[2]
  PROVE  \E n \in 1 .. Len(SampleTypes) :
           LET t == SampleTypes[n]
           IN /\ t = flow.sampleType[k[1][1]]
              /\ r[1] \in AudioPort /\ r[1] \in DOMAIN receiveOffsets[t] /\ r[2] \in Nat
              /\ \E d \in ChannelsIn(DOMAIN sendOffsets[t]) :
                   receiveOffsets[t][r[1]] + r[2] = Place(sendOffsets[t], d)
<1>1. /\ MapInv /\ BufferInv /\ typeIndex = Len(SampleTypes) + 1
      /\ phase \notin {"connected", "audio", "rejected"} /\ Len(SampleTypes) \in Nat
  BY SampleTypeFacts DEF FlowInv, AssignedOK, Later
<1>2. k[2] = r
  OBVIOUS
<1>3. /\ k[1] = <<k[1][1], k[1][2]>> /\ r = <<r[1], r[2]>>
      /\ k[1][1] \in AudioPort /\ r[1] \in AudioPort
      /\ k[1][2] \in 0 .. Width[k[1][1]] - 1 /\ r[2] \in 0 .. Width[r[1]] - 1
      /\ flow.sampleType[k[1][1]] \in Types
  BY <1>1, <1>2, ConnectedPorts
<1>4. PICK n \in 1 .. Len(SampleTypes) : SampleTypes[n] = flow.sampleType[k[1][1]]
  BY <1>3, SampleTypeFacts
<1> DEFINE t == SampleTypes[n]
           f == sendOffsets[t]
           g == receiveOffsets[t]
<1>5. k \in Typed(t) /\ t \in Types
  BY <1>2, <1>4, SampleTypeFacts DEF Typed
<1>6. r[1] \in DOMAIN g
  <2>1. r[1] \in ReceivePorts(t)
    BY <1>2, <1>5 DEF ReceivePorts
  <2>2. n \in DOMAIN SampleTypes /\ n < typeIndex
    BY <1>1, SampleTypeFacts
  <2> QED
    BY <1>1, <2>1, <2>2 DEF BufferInv, ProgressOK
<1>7. Received(k, f, g, routings, finalConnections)
  BY <1>1, <1>5 DEF BufferInv, ReceivedOK
<1>8. r[2] \in Nat /\ k[1][2] \in Nat
  BY <1>3, RoutingPorts
<1>9. CASE r[1] \notin DOMAIN routings
  <2>1. k[1][1] \in DOMAIN f /\ g[r[1]] + r[2] = Place(f, k[1])
    BY <1>2, <1>6, <1>7, <1>9 DEF Received
  <2>2. WidthOf(k[1][1]) = Width[k[1][1]]
    BY <1>3, RoutingPorts
  <2>3. k[1] \in ChannelsIn(DOMAIN f)
    BY <1>3, <2>1, <2>2, ChannelsInPorts
  <2> QED
    BY <1>3, <1>4, <1>6, <1>8, <2>1, <2>3
<1>10. CASE r[1] \in DOMAIN routings
  <2> DEFINE d == <<RoutingOut(r[1]), r[2]>>
  <2>1. g[r[1]] = f[RoutingOut(r[1])]
    BY <1>2, <1>6, <1>7, <1>10 DEF Received
  <2>2. RoutingOut(r[1]) \in DOMAIN f
    BY <1>1, <1>5, <1>6, <1>10 DEF BufferInv, PlacedOK
  <2>3. WidthOf(RoutingOut(r[1])) = Width[r[1]]
    BY <1>3, RoutingPorts
  <2>4. d \in ChannelsIn(DOMAIN f)
    BY <1>3, <2>2, <2>3, ChannelsInPorts
  <2>5. g[r[1]] + r[2] = Place(f, d)
    BY <2>1 DEF Place
  <2> QED
    BY <1>3, <1>4, <1>6, <1>8, <2>4, <2>5
<1> QED
  BY <1>9, <1>10

\* The n-th sample type's pool has place o for a channel, which has a buffer there.
Occupies(c, n, o) ==
  /\ n \in 1 .. Len(SampleTypes) /\ o \in Nat /\ o < Taken(SampleTypes[n])
  /\ c[1] \in DOMAIN buffers /\ Address(c) = FirstByte(n, o)
  /\ Span(c) = FirstByte(n, o) .. LastByte(n, o)

\* The channel whose place it is.
OwnPlace(c, n, o) ==
  /\ c \in ChannelsIn(DOMAIN sendOffsets[SampleTypes[n]])
  /\ o = Place(sendOffsets[SampleTypes[n]], c)

LEMMA SenderOccupies ==
  ASSUME FlowInv, phase \in Later \ {"offsets"}, NEW c \in BufferSenders
  PROVE  \E n, o : Occupies(c, n, o) /\ OwnPlace(c, n, o)
<1>1. /\ MapInv /\ BufferInv /\ typeIndex = Len(SampleTypes) + 1
      /\ Assigned(buffers, sendOffsets, receiveOffsets)
  BY DEF FlowInv, AssignedOK
<1>2. PICK n \in 1 .. Len(SampleTypes) : c \in ChannelsIn(DOMAIN sendOffsets[SampleTypes[n]])
  BY SenderPlaced
<1> DEFINE t == SampleTypes[n]
           f == sendOffsets[t]
           first == f[c[1]]
           o == Place(f, c)
<1>3. t \in Types
  BY SampleTypeFacts
<1>4. LaidOut(f, Taken(t))
  BY <1>1, <1>3 DEF BufferInv, OffsetsOK
<1>5. c[1] \in DOMAIN f /\ c[2] \in 0 .. WidthOf(c[1]) - 1
  BY <1>2, ChannelsInPorts
<1>6. first \in Nat /\ WidthOf(c[1]) \in Nat /\ o < Taken(t) /\ o = first + c[2]
  BY <1>2, <1>4, <1>5 DEF LaidOut, Place
<1>7. c[2] \in Nat /\ o \in Nat
  BY <1>5, <1>6
<1>8. first = OffsetIn(t, c[1]) /\ c[1] \in PlacedPorts(t) /\ PortType(c[1]) = t
  BY <1>1, <1>3, <1>5, TypeOfPort DEF OffsetIn, PlacedPorts
<1>9. OwnPlace(c, n, o)
  BY <1>2 DEF OwnPlace
<1>10. t = SampleTypes[n]
  OBVIOUS
<1> HIDE DEF t, first, o
<1>11. /\ c[1] \in DOMAIN buffers /\ Address(c) = FirstByte(n, o)
       /\ Span(c) = FirstByte(n, o) .. LastByte(n, o)
  BY <1>1, <1>6, <1>7, <1>8, <1>10, SpanOfChannel
<1> QED
  BY <1>6, <1>7, <1>9, <1>10, <1>11 DEF Occupies

LEMMA ReceiverOccupies ==
  ASSUME FlowInv, phase \in Later \ {"offsets"}, NEW k \in audioFlat, TypesAgree(k),
         NEW r, r = k[2]
  PROVE  \E n, o : Occupies(r, n, o)
<1>1. /\ MapInv /\ BufferInv /\ typeIndex = Len(SampleTypes) + 1
      /\ Assigned(buffers, sendOffsets, receiveOffsets)
  BY DEF FlowInv, AssignedOK
<1>2. PICK n \in 1 .. Len(SampleTypes) :
        /\ SampleTypes[n] = flow.sampleType[k[1][1]] /\ r[1] \in AudioPort
        /\ r[1] \in DOMAIN receiveOffsets[SampleTypes[n]] /\ r[2] \in Nat
        /\ \E d \in ChannelsIn(DOMAIN sendOffsets[SampleTypes[n]]) :
             receiveOffsets[SampleTypes[n]][r[1]] + r[2] = Place(sendOffsets[SampleTypes[n]], d)
  BY ReceiverPlaced
<1> DEFINE t == SampleTypes[n]
           f == sendOffsets[t]
           g == receiveOffsets[t]
           first == g[r[1]]
           o == first + r[2]
<1>3. t \in Types
  BY SampleTypeFacts
<1>4. LaidOut(f, Taken(t)) /\ first \in Nat
  BY <1>1, <1>2, <1>3 DEF BufferInv, OffsetsOK
<1>5. o < Taken(t)
  BY <1>2, <1>4 DEF LaidOut
<1>6. o \in Nat
  <2>1. first \in Nat /\ r[2] \in Nat
    BY <1>2, <1>4
  <2> HIDE DEF first
  <2> QED
    BY <2>1
<1>7. r[1] \notin DOMAIN f
  BY <1>1, <1>2, <1>3, PlacedAtOneType
<1>8. first = OffsetIn(t, r[1]) /\ r[1] \in PlacedPorts(t) /\ PortType(r[1]) = t
  <2>1. first = OffsetIn(t, r[1]) /\ r[1] \in PlacedPorts(t)
    BY <1>2, <1>7 DEF OffsetIn, PlacedPorts
  <2>2. PortType(r[1]) = flow.sampleType[r[1]]
    BY <1>1, <1>2, <1>3, TypeOfPort
  <2>3. flow.sampleType[r[1]] = t
    BY <1>2 DEF TypesAgree
  <2> QED
    BY <2>1, <2>2, <2>3
<1>9. t = SampleTypes[n] /\ o = first + r[2]
  OBVIOUS
<1> HIDE DEF t, first, o
<1>10. /\ r[1] \in DOMAIN buffers /\ Address(r) = FirstByte(n, o)
       /\ Span(r) = FirstByte(n, o) .. LastByte(n, o)
  BY <1>1, <1>2, <1>4, <1>5, <1>6, <1>8, <1>9, SpanOfChannel
<1> QED
  BY <1>5, <1>6, <1>9, <1>10 DEF Occupies

\* A place of a pool is memory of the whole.
LEMMA OccupiedInPool ==
  ASSUME MapInv, BufferInv, typeIndex = Len(SampleTypes) + 1,
         NEW c, NEW n, NEW o, Occupies(c, n, o)
  PROVE  c[1] \in DOMAIN buffers /\ Span(c) \subseteq 0 .. poolSize - 1
<1>1. n \in 1 .. Len(SampleTypes) /\ o \in Nat /\ o < Taken(SampleTypes[n])
      /\ c[1] \in DOMAIN buffers /\ Span(c) = FirstByte(n, o) .. LastByte(n, o)
  BY DEF Occupies
<1>2. FirstByte(n, o) \in Nat /\ LastByte(n, o) \in Int /\ LastByte(n, o) < poolSize
  BY <1>1, PlaceInPool
<1>3. poolSize \in Nat
  BY FS_CardinalityType DEF BufferInv, PoolOK
<1> QED
  BY <1>1, <1>2, <1>3

LEMMA OccupiedApart ==
  ASSUME MapInv, BufferInv, typeIndex = Len(SampleTypes) + 1,
         NEW c, NEW n, NEW o, Occupies(c, n, o), OwnPlace(c, n, o),
         NEW d, NEW m, NEW p, Occupies(d, m, p), OwnPlace(d, m, p), c # d
  PROVE  Span(c) \cap Span(d) = {}
<1>1. /\ n \in 1 .. Len(SampleTypes) /\ o \in Nat /\ o < Taken(SampleTypes[n])
      /\ m \in 1 .. Len(SampleTypes) /\ p \in Nat /\ p < Taken(SampleTypes[m])
      /\ Span(c) = FirstByte(n, o) .. LastByte(n, o) /\ Span(d) = FirstByte(m, p) .. LastByte(m, p)
  BY DEF Occupies
<1>2. /\ FirstByte(n, o) \in Nat /\ LastByte(n, o) \in Int
      /\ FirstByte(m, p) \in Nat /\ LastByte(m, p) \in Int
  BY <1>1, PlaceInPool
<1>3. n # m \/ o # p
  <2> SUFFICES ASSUME n = m, o = p
               PROVE  FALSE
    OBVIOUS
  <2>1. LaidOut(sendOffsets[SampleTypes[n]], Taken(SampleTypes[n]))
    BY <1>1, SampleTypeFacts DEF BufferInv, OffsetsOK
  <2> QED
    BY <2>1 DEF OwnPlace, LaidOut
<1>4. (n < m \/ (n = m /\ o < p)) \/ (m < n \/ (m = n /\ p < o))
  BY <1>1, <1>3, SampleTypeFacts
<1>5. CASE n < m \/ (n = m /\ o < p)
  <2>1. LastByte(n, o) < FirstByte(m, p)
    BY <1>1, <1>5, PlacesApart
  <2> QED
    BY <1>1, <1>2, <2>1
<1>6. CASE m < n \/ (m = n /\ p < o)
  <2>1. LastByte(m, p) < FirstByte(n, o)
    BY <1>1, <1>6, PlacesApart
  <2> QED
    BY <1>1, <1>2, <2>1
<1> QED
  BY <1>4, <1>5, <1>6

LEMMA BuffersFollow == FlowInv => BuffersValid
<1> SUFFICES ASSUME FlowInv, phase \in {"parameterInfrastructure", "schedule", "idle", "process"}
             PROVE  /\ \A c \in BufferSenders \cup {k[2] : k \in {l \in Signals : TypesAgree(l)}} :
                         c[1] \in DOMAIN buffers /\ Span(c) \subseteq 0 .. poolSize - 1
                    /\ \A c, d \in BufferSenders : c # d => Span(c) \cap Span(d) = {}
  BY DEF BuffersValid
<1>1. phase \in Later \ {"offsets"}
  BY DEF Later
<1>2. MapInv /\ BufferInv /\ typeIndex = Len(SampleTypes) + 1
  BY <1>1 DEF FlowInv, AssignedOK
<1>3. audioFlat = Signals
  BY <1>1, <1>2, FlatIsSignals DEF Later
<1>4. ASSUME NEW c \in BufferSenders \cup {k[2] : k \in {l \in Signals : TypesAgree(l)}}
      PROVE  c[1] \in DOMAIN buffers /\ Span(c) \subseteq 0 .. poolSize - 1
  <2>1. \E n, o : Occupies(c, n, o)
    BY <1>1, <1>3, <1>4, SenderOccupies, ReceiverOccupies
  <2> QED
    BY <1>2, <2>1, OccupiedInPool
<1>5. ASSUME NEW c \in BufferSenders, NEW d \in BufferSenders, c # d
      PROVE  Span(c) \cap Span(d) = {}
  <2>1. \E n, o : Occupies(c, n, o) /\ OwnPlace(c, n, o)
    BY <1>1, SenderOccupies
  <2>2. \E m, p : Occupies(d, m, p) /\ OwnPlace(d, m, p)
    BY <1>1, SenderOccupies
  <2> QED
    BY <1>2, <1>5, <2>1, <2>2, OccupiedApart
<1> QED
  BY <1>4, <1>5

(***************************************************************************)
(* Once a flow is initialised, each channel that is written, and each one  *)
(* that is read and has the sample type of its sender, has memory inside   *)
(* the pool, and no two channels that are written share a byte.  A         *)
(* receiver of another type, which the integrity check accepts, places its *)
(* channels with the size of its own samples; nothing is said of it.       *)
(***************************************************************************)
THEOREM MemoryApart == Spec => []BuffersValid
BY FlowInvariant, BuffersFollow, PTL

-----------------------------------------------------------------------------
(* The memory of process().                                                *)

\* The channel whose samples a sending channel passes on: itself, or the one a
\* routing component copies.
Origin(s, o) ==
  \/ s \in AudioSenders /\ o = s
  \/ \E k \in audioFlat : /\ k[2][1] \in DOMAIN routings
                          /\ s = <<RoutingOut(k[2][1]), k[2][2]>> /\ o = k[1]

\* The components that have produced their samples of this period.
Ran(c) == c = TopLevel \/ \E i \in 1 .. position - 1 : schedule[i] = c

\* What they have produced is where it belongs, and nothing has overwritten it.
MemoryOK == phase = "process" =>
  \A s \in BufferSenders : \A o \in AudioSenders :
    Origin(s, o) /\ Ran(s[1][1]) => Stored(s) = <<o, period>>

RunInv == FlowInv /\ MemoryOK

\* Channels that are written start at different addresses.
LEMMA AddressesDiffer ==
  ASSUME FlowInv, phase \in Later \ {"offsets"},
         NEW c \in BufferSenders, NEW d \in BufferSenders, Address(c) = Address(d)
  PROVE  c = d
<1> SUFFICES ASSUME c # d
             PROVE  FALSE
  OBVIOUS
<1>1. MapInv /\ BufferInv /\ typeIndex = Len(SampleTypes) + 1
  BY DEF FlowInv, AssignedOK
<1>2. PICK n, o : Occupies(c, n, o) /\ OwnPlace(c, n, o)
  BY SenderOccupies
<1>3. \E m, p : Occupies(d, m, p) /\ OwnPlace(d, m, p)
  BY SenderOccupies
<1>4. PICK m, p : Occupies(d, m, p) /\ OwnPlace(d, m, p)
  BY <1>3
<1>5. Span(c) \cap Span(d) = {}
  BY <1>1, <1>2, <1>4, OccupiedApart
<1>6. FirstByte(n, o) \in Span(c)
  <2>1. /\ n \in 1 .. Len(SampleTypes) /\ o \in Nat /\ o < Taken(SampleTypes[n])
        /\ Span(c) = FirstByte(n, o) .. LastByte(n, o)
    BY <1>2 DEF Occupies
  <2>2. FirstByte(n, o) \in Nat
    BY <1>1, <2>1, PlaceInPool
  <2>3. LastByte(n, o) = FirstByte(n, o) + ChannelSize[SampleTypes[n]] - 1
    BY DEF LastByte
  <2>4. ChannelSize[SampleTypes[n]] \in Nat \ {0}
    BY <2>1, SampleTypeFacts
  <2> QED
    BY <2>1, <2>2, <2>3, <2>4
<1>7. FirstByte(m, p) \in Span(d)
  <2>1. /\ m \in 1 .. Len(SampleTypes) /\ p \in Nat /\ p < Taken(SampleTypes[m])
        /\ Span(d) = FirstByte(m, p) .. LastByte(m, p)
    BY <1>4 DEF Occupies
  <2>2. FirstByte(m, p) \in Nat
    BY <1>1, <2>1, PlaceInPool
  <2>3. LastByte(m, p) = FirstByte(m, p) + ChannelSize[SampleTypes[m]] - 1
    BY DEF LastByte
  <2>4. ChannelSize[SampleTypes[m]] \in Nat \ {0}
    BY <2>1, SampleTypeFacts
  <2> QED
    BY <2>1, <2>2, <2>3, <2>4
<1>8. FirstByte(n, o) = FirstByte(m, p)
  BY <1>2, <1>4 DEF Occupies
<1> QED
  BY <1>5, <1>6, <1>7, <1>8

\* What is stored for channels that are written is there afterwards, and what
\* belongs to others is not touched.
LEMMA StoredApart ==
  ASSUME FlowInv, phase \in Later \ {"offsets"}, UNCHANGED <<flow, routings, buffers>>,
         NEW samples, DOMAIN samples \subseteq BufferSenders, memory' = Store(samples),
         NEW s \in BufferSenders
  PROVE  /\ s \in DOMAIN samples => Stored(s)' = samples[s]
         /\ s \notin DOMAIN samples => Stored(s)' = Stored(s)
<1> DEFINE D == DOMAIN samples
           written == {Address(c) : c \in D}
           a == Address(s)
<1>1. Address(s)' = a
  BY DEF Address, StrideBytes, PortType
<1>2. memory' = [b \in DOMAIN memory \cup written |->
                   IF b \in written THEN samples[CHOOSE c \in D : Address(c) = b] ELSE memory[b]]
  BY DEF Store
<1>3. \A c \in D : Address(c) = a => c = s
  BY AddressesDiffer
<1> HIDE DEF D
<1>4. ASSUME s \in D
      PROVE  Stored(s)' = samples[s]
  <2>1. a \in written
    BY <1>4
  <2>2. (CHOOSE c \in D : Address(c) = a) = s
    BY <1>3, <1>4
  <2> HIDE DEF written
  <2>3. a \in DOMAIN memory' /\ memory'[a] = samples[CHOOSE c \in D : Address(c) = a]
    BY <1>2, <2>1
  <2>4. Stored(s)' = memory'[a]
    BY <1>1, <2>3 DEF Stored
  <2> QED
    BY <2>2, <2>3, <2>4
<1>5. ASSUME s \notin D
      PROVE  Stored(s)' = Stored(s)
  <2>1. a \notin written
    BY <1>3, <1>5
  <2> HIDE DEF written
  <2>2. a \in DOMAIN memory' <=> a \in DOMAIN memory
    BY <1>2, <2>1
  <2>3. a \in DOMAIN memory => memory'[a] = memory[a]
    BY <1>2, <2>1
  <2> QED
    BY <1>1, <2>2, <2>3 DEF Stored
<1> QED
  BY <1>4, <1>5 DEF D

\* The channel at a place of the pool of the n-th sample type, by the offset of its port.
LEMMA AddressAtPlace ==
  ASSUME FlowInv, phase \in Later \ {"offsets"},
         NEW n \in 1 .. Len(SampleTypes), NEW t, t = SampleTypes[n],
         NEW c, c[1] \in PlacedPorts(t), c[2] \in Nat, PortType(c[1]) = t,
         NEW o, o = OffsetIn(t, c[1]) + c[2], o < Taken(t)
  PROVE  Address(c) = FirstByte(n, o)
<1> DEFINE first == OffsetIn(t, c[1])
<1>1. /\ MapInv /\ BufferInv /\ typeIndex = Len(SampleTypes) + 1
      /\ Assigned(buffers, sendOffsets, receiveOffsets)
  BY DEF FlowInv, AssignedOK
<1>2. t \in Types
  BY SampleTypeFacts
<1>3. first \in Nat
  <2>1. LaidOut(sendOffsets[t], Taken(t)) /\ \A q \in DOMAIN receiveOffsets[t] : receiveOffsets[t][q] \in Nat
    BY <1>1, <1>2 DEF BufferInv, OffsetsOK
  <2> QED
    BY <2>1 DEF LaidOut, OffsetIn, PlacedPorts
<1> HIDE DEF first
<1>4. o \in Nat /\ o = first + c[2] /\ first = OffsetIn(t, c[1])
  BY <1>3 DEF first
<1> QED
  BY <1>1, <1>3, <1>4, SpanOfChannel

\* Where a connection is in memory, and by which final connections it is made.  A
\* receiver of another type than its sender has its channels elsewhere.
Wired(k) ==
  LET p == k[2][1]
      i == routings[p].inputs[k[2][2] + 1]
  IN /\ p \notin DOMAIN routings =>
          /\ TypesAgree(k) => Address(k[2]) = Address(k[1])
          /\ k \in finalConnections
     /\ p \in DOMAIN routings =>
          /\ TypesAgree(k) => Address(k[2]) = Address(<<RoutingOut(p), k[2][2]>>)
          /\ Address(<<RoutingIn(p), i>>) = Address(k[1])
          /\ PortType(RoutingIn(p)) = flow.sampleType[k[1][1]]
          /\ <<k[1], <<RoutingIn(p), i>>>> \in finalConnections
          /\ <<<<RoutingOut(p), k[2][2]>>, k[2]>> \in finalConnections

\* What is read is the memory of the sender, or of a routing component that reads
\* it, if the types agree; the routing component has the type of the sender.
LEMMA ConnectionsWired ==
  ASSUME FlowInv, phase \in Later \ {"offsets"}, NEW k \in audioFlat
  PROVE  Wired(k)
<1>1. MapInv /\ BufferInv /\ typeIndex = Len(SampleTypes) + 1
  BY DEF FlowInv, AssignedOK
<1>2. /\ k = <<k[1], k[2]>> /\ k[1] = <<k[1][1], k[1][2]>> /\ k[2] = <<k[2][1], k[2][2]>>
      /\ k[1][1] \in AudioPort /\ k[2][1] \in AudioPort
      /\ k[1][2] \in 0 .. Width[k[1][1]] - 1 /\ k[2][2] \in 0 .. Width[k[2][1]] - 1
      /\ flow.sampleType[k[1][1]] \in Types
  BY <1>1, ConnectedPorts
<1>3. PICK n \in 1 .. Len(SampleTypes) : SampleTypes[n] = flow.sampleType[k[1][1]]
  BY <1>2, SampleTypeFacts
<1> DEFINE t == SampleTypes[n]
           f == sendOffsets[t]
           g == receiveOffsets[t]
           p == k[2][1]
           j == k[2][2]
<1>4. k \in Typed(t) /\ t \in Types
  BY <1>3, SampleTypeFacts DEF Typed
<1>5. p \in DOMAIN g
  <2>1. p \in ReceivePorts(t)
    BY <1>4 DEF ReceivePorts
  <2>2. n \in DOMAIN SampleTypes /\ n < typeIndex
    BY <1>1, SampleTypeFacts
  <2> QED
    BY <1>1, <2>1, <2>2 DEF BufferInv, ProgressOK
<1>6. Received(k, f, g, routings, finalConnections)
  BY <1>1, <1>4 DEF BufferInv, ReceivedOK
<1>7. LaidOut(f, Taken(t))
  BY <1>1, <1>4 DEF BufferInv, OffsetsOK
<1>8. DOMAIN f \cap DOMAIN g = {}
  BY <1>1, <1>4, PlacedAtOneType
<1>9. k[1][2] \in Nat /\ j \in Nat
  BY <1>2, RoutingPorts
<1> DEFINE o == Place(f, k[1])
<1>10. k[1][1] \in DOMAIN f
  BY <1>5, <1>6 DEF Received
<1>11. o < Taken(t)
  <2>1. WidthOf(k[1][1]) = Width[k[1][1]]
    BY <1>2, RoutingPorts
  <2>2. k[1] \in ChannelsIn(DOMAIN f)
    BY <1>2, <1>10, <2>1, ChannelsInPorts
  <2> QED
    BY <1>7, <2>2 DEF LaidOut
<1>12. o = OffsetIn(t, k[1][1]) + k[1][2] /\ k[1][1] \in PlacedPorts(t)
  BY <1>10 DEF OffsetIn, PlacedPorts, Place
<1>13. t = SampleTypes[n] /\ t = flow.sampleType[k[1][1]]
  BY <1>3
<1>14. Address(k[1]) = FirstByte(n, o)
  <2>1. PortType(k[1][1]) = t
    BY <1>1, <1>4, <1>10, TypeOfPort
  <2> HIDE DEF t, o
  <2> QED
    BY <1>9, <1>11, <1>12, <1>13, <2>1, AddressAtPlace
<1>15. OffsetIn(t, p) = g[p] /\ p \in PlacedPorts(t)
  BY <1>5, <1>8 DEF OffsetIn, PlacedPorts
<1>16. TypesAgree(k) => PortType(p) = t
  BY <1>1, <1>2, <1>4, <1>13, TypeOfPort DEF TypesAgree
<1>17. ASSUME p \notin DOMAIN routings
       PROVE  (TypesAgree(k) => Address(k[2]) = Address(k[1])) /\ k \in finalConnections
  <2>1. g[p] + j = o /\ k \in finalConnections
    BY <1>5, <1>6, <1>17 DEF Received
  <2>2. o = OffsetIn(t, p) + j
    BY <1>15, <2>1
  <2> HIDE DEF t, o
  <2>3. TypesAgree(k) => Address(k[2]) = FirstByte(n, o)
    BY <1>9, <1>11, <1>13, <1>15, <1>16, <2>2, AddressAtPlace
  <2> QED
    BY <1>14, <2>1, <2>3
<1>18. ASSUME p \in DOMAIN routings
       PROVE  LET i == routings[p].inputs[j + 1]
              IN /\ TypesAgree(k) => Address(k[2]) = Address(<<RoutingOut(p), j>>)
                 /\ Address(<<RoutingIn(p), i>>) = Address(k[1])
                 /\ PortType(RoutingIn(p)) = flow.sampleType[k[1][1]]
                 /\ <<k[1], <<RoutingIn(p), i>>>> \in finalConnections
                 /\ <<<<RoutingOut(p), j>>, k[2]>> \in finalConnections
  <2> DEFINE i == routings[p].inputs[j + 1]
             d == <<RoutingOut(p), j>>
             e == <<RoutingIn(p), i>>
             u == Place(f, d)
  <2>1. /\ g[p] = f[RoutingOut(p)] /\ g[RoutingIn(p)] + i = o
        /\ <<k[1], e>> \in finalConnections /\ <<d, k[2]>> \in finalConnections
    BY <1>5, <1>6, <1>18 DEF Received
  <2>2. RoutingIn(p) \in DOMAIN g /\ RoutingOut(p) \in DOMAIN f
    BY <1>1, <1>4, <1>5, <1>18 DEF BufferInv, PlacedOK
  <2>3. PortType(RoutingIn(p)) = t /\ PortType(RoutingOut(p)) = t
    BY <1>1, <1>4, <1>5, <1>18, TypeOfPort
  <2>4. i \in Nat
    <3>1. /\ routings[p].inputs \in [1 .. Width[p] -> 0 .. routings[p].width - 1]
          /\ routings[p].width \in Nat
      BY <1>1, <1>18 DEF BufferInv, RoutingsOK
    <3>2. j + 1 \in 1 .. Width[p]
      BY <1>2, RoutingPorts
    <3>3. i \in 0 .. routings[p].width - 1
      BY <3>1, <3>2
    <3> QED
      BY <3>1, <3>3
  <2>5. u < Taken(t)
    <3>1. WidthOf(RoutingOut(p)) = Width[p]
      BY <1>2, RoutingPorts
    <3>2. d \in ChannelsIn(DOMAIN f)
      BY <1>2, <2>2, <3>1, ChannelsInPorts
    <3> QED
      BY <1>7, <3>2 DEF LaidOut
  <2>6. u = OffsetIn(t, RoutingOut(p)) + j /\ RoutingOut(p) \in PlacedPorts(t)
    BY <2>2 DEF OffsetIn, PlacedPorts, Place
  <2>7. u = OffsetIn(t, p) + j
    BY <1>15, <2>1, <2>2, <2>6 DEF OffsetIn
  <2>8. o = OffsetIn(t, RoutingIn(p)) + i /\ RoutingIn(p) \in PlacedPorts(t)
    BY <1>8, <2>1, <2>2 DEF OffsetIn, PlacedPorts
  <2>9. d[1] = RoutingOut(p) /\ d[2] = j /\ e[1] = RoutingIn(p) /\ e[2] = i
    OBVIOUS
  <2> HIDE DEF t, o, u, d, e, i
  <2>10. TypesAgree(k) => Address(k[2]) = FirstByte(n, u)
    BY <1>9, <1>13, <1>15, <1>16, <2>5, <2>7, AddressAtPlace
  <2>11. Address(d) = FirstByte(n, u)
    <3>1. /\ d[1] \in PlacedPorts(t) /\ d[2] \in Nat /\ PortType(d[1]) = t
          /\ u = OffsetIn(t, d[1]) + d[2]
      BY <1>9, <2>3, <2>6, <2>9
    <3> QED
      BY <1>13, <2>5, <3>1, AddressAtPlace
  <2>12. Address(e) = FirstByte(n, o)
    BY <1>11, <1>13, <2>4, <2>8, <2>9, <2>3, AddressAtPlace
  <2> QED
    BY <1>13, <1>14, <2>1, <2>10, <2>11, <2>12, <2>3 DEF d, e, i
<1> QED
  BY <1>17, <1>18 DEF Wired

\* A schedule has each component once, and a component that sends before the one
\* that receives.
LEMMA ScheduleOrdered ==
  ASSUME BufferInv, NEW s \in Schedules
  PROVE  /\ \A i \in 1 .. Len(s) : s[i] \in Components
         /\ \A i, j \in 1 .. Len(s) : s[i] = s[j] => i = j
         /\ \A c \in Components : \E i \in 1 .. Len(s) : s[i] = c
         /\ \A k \in finalConnections : TopLevel \notin {k[1][1][1], k[2][1][1]} =>
              \E i, j \in 1 .. Len(s) : i < j /\ s[i] = k[1][1][1] /\ s[j] = k[2][1][1]
<1> DEFINE N == Cardinality(Components)
           D == 1 .. N
<1>1. s \in [D -> Components] /\ \A i, j \in D : i # j => s[i] # s[j]
  BY DEF Schedules, Orders, SetToSeqs
<1>2. N \in Nat /\ IsFiniteSet(Components)
  BY ComponentsFinite
<1>3. Len(s) = N /\ DOMAIN s = D
  BY <1>1, <1>2
<1>4. \A c \in Components : \E i \in D : s[i] = c
  <2>1. s \in Injection(D, Components)
    BY <1>1 DEF Injection, IsInjective
  <2>2. IsFiniteSet(D) /\ Cardinality(D) = N
    BY <1>2, FS_Interval
  <2>3. s \in Surjection(D, Components)
    BY <1>2, <2>1, <2>2, FS_Injection
  <2> QED
    BY <2>3 DEF Surjection
<1>5. ASSUME NEW k \in finalConnections, TopLevel \notin {k[1][1][1], k[2][1][1]}
      PROVE  \E i, j \in D : i < j /\ s[i] = k[1][1][1] /\ s[j] = k[2][1][1]
  <2> DEFINE d == <<k[1][1][1], k[2][1][1]>>
  <2>1. d \in Dependencies(finalConnections, ToSet(parameterFlat))
    BY <1>5 DEF Dependencies
  <2>2. \E i, j \in DOMAIN s : i < j /\ s[i] = d[1] /\ s[j] = d[2]
    BY <2>1 DEF Schedules, Orders
  <2> QED
    BY <1>3, <2>2
<1> QED
  BY <1>1, <1>3, <1>4, <1>5

\* Who sends a channel: a component, or the outside, or a routing component.
LEMMA SendersOrRoutings ==
  ASSUME BufferInv, NEW s \in BufferSenders
  PROVE  \/ /\ s \in AudioSenders /\ s = <<s[1], s[2]>> /\ s[1] \in AudioPort
            /\ s \in Channels({q \in AudioPort : q[1] = s[1][1]})
            /\ s[1][1] \in Atomic \cup {TopLevel} /\ (s[1][1] = TopLevel <=> s[1] \in Input)
            /\ \A p \in DOMAIN routings : s[1][1] # Routing(p)
         \/ /\ s \notin AudioSenders
            /\ \E p \in DOMAIN routings : \E j \in 0 .. Width[p] - 1 :
                 s = <<RoutingOut(p), j>> /\ s[1][1] = Routing(p)
<1>1. DOMAIN routings \subseteq AudioPort
  BY ConcretePorts DEF BufferInv, RoutingsOK
<1>2. CASE s \in AudioSenders
  <2>1. s = <<s[1], s[2]>> /\ s[1] \in ConcreteSenders(AudioPort) /\ s[2] \in 0 .. Width[s[1]] - 1
    BY <1>2, ChannelsOfPorts DEF AudioSenders
  <2>2. s[1] \in AudioPort /\ ~ IsPlaceholderPort(s[1])
        /\ (s[1][1] = TopLevel <=> s[1] \in Input)
    BY <2>1, ConcretePorts DEF ConcreteSenders
  <2>3. s[1][1] \in Component
    BY <2>2, HierarchyAssumption
  <2>4. s[1][1] \in Atomic \cup {TopLevel}
    BY <2>2, <2>3 DEF Component, IsPlaceholderPort
  <2>5. \A p \in DOMAIN routings : s[1][1] # Routing(p)
    BY <1>1, <2>3, RoutingNameAssumption DEF Routing
  <2>6. s \in Channels({q \in AudioPort : q[1] = s[1][1]})
    BY <2>1, <2>2, ChannelsOfPorts
  <2> QED
    BY <1>2, <2>1, <2>2, <2>4, <2>5, <2>6
<1>3. CASE s \notin AudioSenders
  <2>1. PICK p \in DOMAIN routings : \E j \in 0 .. Width[p] - 1 : s = <<RoutingOut(p), j>>
    BY <1>3 DEF BufferSenders
  <2>2. s[1][1] = Routing(p)
    BY <2>1 DEF RoutingOut
  <2> QED
    BY <1>3, <2>1, <2>2
<1> QED
  BY <1>2, <1>3

\* The channel on which a routing component passes on the samples of another.
LEMMA OriginOfRouting ==
  ASSUME MapInv, BufferInv, NEW p \in DOMAIN routings, NEW j, NEW o,
         Origin(<<RoutingOut(p), j>>, o), <<RoutingOut(p), j>> \notin AudioSenders
  PROVE  \E k \in audioFlat : k[2] = <<p, j>> /\ k[2][1] = p /\ k[2][2] = j /\ k[1] = o
<1>1. PICK k \in audioFlat : /\ k[2][1] \in DOMAIN routings
                             /\ <<RoutingOut(p), j>> = <<RoutingOut(k[2][1]), k[2][2]>>
                             /\ o = k[1]
  BY DEF Origin
<1>2. p \in AudioPort /\ k[2][1] \in AudioPort
  BY <1>1, ConcretePorts DEF BufferInv, RoutingsOK
<1>3. RoutingOut(p) = RoutingOut(k[2][1]) /\ j = k[2][2]
  BY <1>1
<1>4. p = k[2][1]
  BY <1>2, <1>3, RoutingPorts
<1>5. k[2] = <<k[2][1], k[2][2]>>
  BY ConnectedPorts
<1> QED
  BY <1>1, <1>3, <1>4, <1>5

\* At the beginning of a period the captured samples are there.
LEMMA BeginPeriodStores ==
  ASSUME FlowInv, BeginPeriod
  PROVE  MemoryOK'
<1> DEFINE samples == [c \in CaptureChannels |-> <<c, period + 1>>]
<1>1. /\ phase = "idle" /\ period' = period + 1 /\ position' = 1 /\ memory' = Store(samples)
      /\ UNCHANGED <<flow, mapVars, bufferVars, schedule>>
  BY DEF BeginPeriod
<1>2. phase \in Later \ {"offsets"} /\ UNCHANGED <<flow, routings, buffers>> /\ BufferInv
  BY <1>1 DEF Later, bufferVars, FlowInv
<1>3. BufferSenders' = BufferSenders
  BY <1>1 DEF BufferSenders, bufferVars
<1>4. DOMAIN samples \subseteq BufferSenders
  <2>1. {p \in AudioPort : p[1] = TopLevel /\ p \in Input} \subseteq ConcreteSenders(AudioPort)
    BY DEF ConcreteSenders, Placeholders, IsPlaceholderPort
  <2>2. CaptureChannels \subseteq AudioSenders
    BY <2>1 DEF CaptureChannels, AudioSenders, Channels
  <2> QED
    BY <2>2 DEF BufferSenders
<1>5. ASSUME NEW s \in BufferSenders, NEW o \in AudioSenders, Origin(s, o)', Ran(s[1][1])'
      PROVE  Stored(s)' = <<o, period'>>
  <2>1. s[1][1] = TopLevel
    BY <1>1, <1>5 DEF Ran
  <2>2. \A p \in DOMAIN routings : Routing(p) # TopLevel
    <3>1. DOMAIN routings \subseteq AudioPort
      BY <1>2, ConcretePorts DEF BufferInv, RoutingsOK
    <3>2. TopLevel \in Component
      BY HierarchyAssumption DEF Component
    <3> QED
      BY <3>1, <3>2, RoutingNameAssumption DEF Routing
  <2>3. /\ s \in AudioSenders /\ s = <<s[1], s[2]>> /\ s[1] \in AudioPort /\ s[1] \in Input
        /\ s \in Channels({q \in AudioPort : q[1] = TopLevel})
    BY <1>2, <2>1, <2>2, SendersOrRoutings
  <2>4. s \in CaptureChannels
    BY <2>1, <2>3, ChannelsOfPorts DEF CaptureChannels
  <2>5. o = s
    <3>1. SUFFICES ASSUME NEW k \in audioFlat, k[2][1] \in DOMAIN routings,
                          s = <<RoutingOut(k[2][1]), k[2][2]>>
                   PROVE  FALSE
      BY <1>1, <1>5 DEF Origin, mapVars, bufferVars
    <3>2. s[1][1] = Routing(k[2][1])
      BY <3>1 DEF RoutingOut
    <3> QED
      BY <2>1, <2>2, <3>1, <3>2
  <2>6. s \in DOMAIN samples /\ samples[s] = <<s, period + 1>>
    BY <2>4
  <2> HIDE DEF samples
  <2>7. Stored(s)' = samples[s]
    BY <1>1, <1>2, <1>4, <2>6, StoredApart
  <2> QED
    BY <1>1, <2>5, <2>6, <2>7
<1> QED
  BY <1>3, <1>5 DEF MemoryOK

\* What an execution leaves alone stays as it is, and what it produces is right.
LEMMA ExecutionStores ==
  ASSUME RunInv, ExecuteComponent, NEW samples, memory' = Store(samples),
         DOMAIN samples \subseteq BufferSenders,
         \A s \in BufferSenders : s[1][1] = schedule[position] <=> s \in DOMAIN samples,
         \A s \in DOMAIN samples : \A o \in AudioSenders : Origin(s, o) => samples[s] = <<o, period>>
  PROVE  MemoryOK'
<1>1. /\ phase = "process" /\ position \in Nat \ {0} /\ position' = position + 1
      /\ UNCHANGED <<flow, phase, mapVars, bufferVars, schedule, period>>
  BY DEF ExecuteComponent, RunInv, FlowInv, ScheduleOK
<1>2. FlowInv /\ phase \in Later \ {"offsets"} /\ UNCHANGED <<flow, routings, buffers>>
  BY <1>1 DEF Later, bufferVars, RunInv
<1>3. BufferSenders' = BufferSenders
  BY <1>1 DEF BufferSenders, bufferVars
<1>4. ASSUME NEW s \in BufferSenders, NEW o \in AudioSenders, Origin(s, o)', Ran(s[1][1])'
      PROVE  Stored(s)' = <<o, period'>>
  <2>1. Origin(s, o)
    BY <1>1, <1>4 DEF Origin, mapVars, bufferVars
  <2>2. CASE s \in DOMAIN samples
    <3>1. Stored(s)' = samples[s]
      BY <1>2, <2>2, StoredApart
    <3> QED
      BY <1>1, <2>1, <2>2, <3>1
  <2>3. CASE s \notin DOMAIN samples
    <3>1. Stored(s)' = Stored(s)
      BY <1>2, <2>3, StoredApart
    <3>2. s[1][1] # schedule[position]
      BY <2>3
    <3>3. Ran(s[1][1])
      <4>1. CASE s[1][1] = TopLevel
        BY <4>1 DEF Ran
      <4>2. CASE s[1][1] # TopLevel
        <5>1. PICK i \in 1 .. position' - 1 : schedule[i] = s[1][1]
          BY <1>1, <1>4, <4>2 DEF Ran
        <5>2. i \in 1 .. position - 1
          BY <1>1, <3>2, <5>1
        <5> QED
          BY <5>1, <5>2 DEF Ran
      <4> QED
        BY <4>1, <4>2
    <3>4. Stored(s) = <<o, period>>
      BY <1>1, <2>1, <3>3 DEF RunInv, MemoryOK
    <3> QED
      BY <1>1, <3>1, <3>4
  <2> QED
    BY <2>2, <2>3
<1> QED
  BY <1>3, <1>4 DEF MemoryOK

\* When a component is about to run, what its final connections lead to it from
\* has been produced.
LEMMA SendersRan ==
  ASSUME FlowInv, phase = "process", NEW k \in finalConnections,
         \/ position <= Len(schedule) /\ k[2][1][1] = schedule[position]
         \/ position = Len(schedule) + 1 /\ k[1][1][1] \in Components \cup {TopLevel},
         k[2][1][1] # TopLevel \/ position = Len(schedule) + 1
  PROVE  Ran(k[1][1][1])
<1>1. /\ schedule \in Schedules /\ Len(schedule) \in Nat /\ position \in 1 .. Len(schedule) + 1
      /\ BufferInv
  BY DEF FlowInv, ScheduleOK
<1> DEFINE a == k[1][1][1]
<1>2. CASE a = TopLevel
  BY <1>2 DEF Ran
<1>3. CASE a # TopLevel /\ position <= Len(schedule)
  <2>1. k[2][1][1] = schedule[position] /\ k[2][1][1] # TopLevel
    BY <1>1, <1>3
  <2>2. PICK i, j \in 1 .. Len(schedule) :
          i < j /\ schedule[i] = a /\ schedule[j] = k[2][1][1]
    BY <1>1, <1>3, <2>1, ScheduleOrdered
  <2>3. position \in 1 .. Len(schedule)
    BY <1>1, <1>3
  <2>4. j = position
    BY <1>1, <2>1, <2>2, <2>3, ScheduleOrdered
  <2>5. i \in 1 .. position - 1
    BY <2>2, <2>4, <2>3
  <2> QED
    BY <2>2, <2>5 DEF Ran
<1>4. CASE a # TopLevel /\ position = Len(schedule) + 1
  <2>1. a \in Components
    BY <1>1, <1>4
  <2>2. \E i \in 1 .. Len(schedule) : schedule[i] = a
    BY <1>1, <2>1, ScheduleOrdered
  <2>3. 1 .. Len(schedule) = 1 .. position - 1
    BY <1>1, <1>4
  <2> QED
    BY <2>2, <2>3 DEF Ran
<1> QED
  BY <1>1, <1>2, <1>3, <1>4

LEMMA AtomicStores ==
  ASSUME RunInv, ExecuteComponent, schedule[position] \in Atomic, Process(schedule[position])
  PROVE  MemoryOK'
<1> DEFINE c == schedule[position]
           ports == {p \in AudioPort : p[1] = c /\ p \notin Input}
           samples == [s \in Channels(ports) |-> <<s, period>>]
<1>1. memory' = Store(samples) /\ BufferInv
  BY DEF Process, RunInv, FlowInv
<1>2. c \in Component /\ c # TopLevel /\ c \notin Composite
  BY HierarchyAssumption DEF Component
<1>3. DOMAIN samples \subseteq BufferSenders
  <2>1. ports \subseteq ConcreteSenders(AudioPort)
    BY <1>2 DEF ConcreteSenders, Placeholders, IsPlaceholderPort
  <2>2. Channels(ports) \subseteq AudioSenders
    BY <2>1 DEF AudioSenders, Channels
  <2> QED
    BY <2>2 DEF BufferSenders
<1>4. \A p \in DOMAIN routings : c # Routing(p)
  <2>1. DOMAIN routings \subseteq AudioPort
    BY <1>1, ConcretePorts DEF BufferInv, RoutingsOK
  <2> QED
    BY <1>2, <2>1, RoutingNameAssumption DEF Routing
<1>5. \A s \in BufferSenders : s[1][1] = c <=> s \in DOMAIN samples
  <2>1. ASSUME NEW s \in BufferSenders, s[1][1] = c
        PROVE  s \in DOMAIN samples
    <3>1. /\ s = <<s[1], s[2]>> /\ s[1] \in AudioPort /\ s[1] \notin Input
          /\ s \in Channels({q \in AudioPort : q[1] = s[1][1]})
      BY <1>1, <1>2, <1>4, <2>1, SendersOrRoutings
    <3> QED
      BY <2>1, <3>1, ChannelsOfPorts
  <2>2. ASSUME NEW s \in DOMAIN samples
        PROVE  s[1][1] = c
    BY ChannelsOfPorts
  <2> QED
    BY <2>1, <2>2
<1>6. \A s \in DOMAIN samples : \A o \in AudioSenders : Origin(s, o) => samples[s] = <<o, period>>
  <2> SUFFICES ASSUME NEW s \in Channels(ports), NEW o \in AudioSenders, Origin(s, o)
               PROVE  samples[s] = <<o, period>>
    OBVIOUS
  <2>1. s[1][1] = c
    BY ChannelsOfPorts
  <2>2. ~ \E k \in audioFlat : k[2][1] \in DOMAIN routings /\ s = <<RoutingOut(k[2][1]), k[2][2]>>
    BY <1>4, <2>1 DEF RoutingOut
  <2>3. o = s
    BY <2>2 DEF Origin
  <2> QED
    BY <2>3
<1> HIDE DEF samples
<1> QED
  BY <1>1, <1>3, <1>5, <1>6, ExecutionStores

\* A channel at the address of a sender loads what is stored there, if it has the
\* type of the channel that has produced it.
LEMMA LoadedFromSender ==
  ASSUME NEW c, NEW d, NEW o, Address(c) = Address(d), Stored(d) = <<o, period>>,
         PortType(c[1]) = flow.sampleType[o[1]]
  PROVE  Load(c) = <<o, period>>
<1>1. Stored(c) = <<o, period>>
  BY DEF Stored
<1>2. <<o, period>> # Silence /\ <<o, period>>[1] = o
  BY DEF Silence, Empty
<1> QED
  BY <1>1, <1>2 DEF Load

LEMMA RoutingStores ==
  ASSUME RunInv, ExecuteComponent, NEW p \in DOMAIN routings,
         schedule[position] = Routing(p), CopyChannels(p)
  PROVE  MemoryOK'
<1> DEFINE inputs == routings[p].inputs
           outs == {<<RoutingOut(p), i - 1>> : i \in DOMAIN inputs}
           samples == [s \in outs |-> Load(<<RoutingIn(p), inputs[s[2] + 1]>>)]
<1>1. memory' = Store(samples) /\ BufferInv /\ MapInv /\ FlowInv
  BY DEF CopyChannels, RunInv, FlowInv
<1>2. phase = "process" /\ position <= Len(schedule)
  BY DEF ExecuteComponent
<1>3. p \in AudioPort /\ DOMAIN routings \subseteq AudioPort
  BY <1>1, ConcretePorts DEF BufferInv, RoutingsOK
<1>4. Width[p] \in Nat /\ DOMAIN inputs = 1 .. Width[p]
  <2>1. inputs \in [1 .. Width[p] -> 0 .. routings[p].width - 1]
    BY <1>1 DEF BufferInv, RoutingsOK
  <2> QED
    BY <1>3, <2>1, RoutingPorts
<1>5. \A s : s \in outs <=> \E j \in 0 .. Width[p] - 1 : s = <<RoutingOut(p), j>>
  <2>1. ASSUME NEW s, s \in outs
        PROVE  \E j \in 0 .. Width[p] - 1 : s = <<RoutingOut(p), j>>
    <3>1. PICK i \in 1 .. Width[p] : s = <<RoutingOut(p), i - 1>>
      BY <1>4, <2>1
    <3>2. i - 1 \in 0 .. Width[p] - 1
      BY <1>4
    <3> QED
      BY <3>1, <3>2
  <2>2. ASSUME NEW s, NEW j \in 0 .. Width[p] - 1, s = <<RoutingOut(p), j>>
        PROVE  s \in outs
    <3>1. j + 1 \in DOMAIN inputs /\ (j + 1) - 1 = j
      BY <1>4
    <3> QED
      BY <2>2, <3>1
  <2> QED
    BY <2>1, <2>2
<1>6. DOMAIN samples \subseteq BufferSenders
  BY <1>5 DEF BufferSenders
<1>7. Routing(p) # TopLevel /\ Routing(p) \notin Component
  BY <1>3, HierarchyAssumption, RoutingNameAssumption DEF Routing, Component
<1>8. \A s \in outs : s[1][1] = Routing(p) /\ s \notin AudioSenders
  <2>1. \A s \in outs : s[1] = RoutingOut(p) /\ s[1][1] = Routing(p)
    BY <1>5 DEF RoutingOut
  <2>2. \A s \in AudioSenders : s[1] \in AudioPort
    BY ChannelsOfPorts, ConcretePorts DEF AudioSenders
  <2> QED
    BY <1>3, <2>1, <2>2, RoutingPorts
<1>9. \A s \in BufferSenders : s[1][1] = Routing(p) <=> s \in DOMAIN samples
  <2>1. ASSUME NEW s \in BufferSenders, s[1][1] = Routing(p)
        PROVE  s \in outs
    <3>1. PICK q \in DOMAIN routings : \E j \in 0 .. Width[q] - 1 :
            s = <<RoutingOut(q), j>> /\ s[1][1] = Routing(q)
      BY <1>1, <2>1, SendersOrRoutings
    <3>2. Routing(q) = Routing(p)
      BY <2>1, <3>1
    <3>3. q = p
      BY <1>3, <3>2, HierarchyAssumption DEF Routing
    <3> QED
      BY <1>5, <3>1, <3>3
  <2> QED
    BY <1>8, <2>1
<1>10. \A s \in DOMAIN samples : \A o \in AudioSenders : Origin(s, o) => samples[s] = <<o, period>>
  <2> SUFFICES ASSUME NEW s \in outs, NEW o \in AudioSenders, Origin(s, o)
               PROVE  samples[s] = <<o, period>>
    OBVIOUS
  <2>1. PICK j \in 0 .. Width[p] - 1 : s = <<RoutingOut(p), j>>
    BY <1>5
  <2>2. PICK k \in audioFlat : k[2] = <<p, j>> /\ k[2][1] = p /\ k[2][2] = j /\ k[1] = o
    <3>1. Origin(<<RoutingOut(p), j>>, o) /\ <<RoutingOut(p), j>> \notin AudioSenders
      BY <1>8, <2>1
    <3> HIDE DEF outs
    <3> QED
      BY <1>1, <3>1, OriginOfRouting
  <2> DEFINE i == inputs[j + 1]
             e == <<RoutingIn(p), i>>
             final == <<k[1], e>>
  <2>3. Wired(k)
    BY <1>1, <1>2, ConnectionsWired DEF Later
  <2>4. Address(e) = Address(k[1]) /\ final \in finalConnections
    BY <2>2, <2>3 DEF Wired
  <2>5. Ran(k[1][1][1])
    <3>1. final[1] = k[1] /\ final[2][1][1] = Routing(p)
      BY DEF RoutingIn
    <3> HIDE DEF final
    <3> QED
      BY <1>1, <1>2, <1>7, <2>4, <3>1, SendersRan
  <2>6. k[1] \in BufferSenders /\ Origin(k[1], o)
    BY <2>2 DEF BufferSenders, Origin
  <2>7. Stored(k[1]) = <<o, period>>
    BY <1>2, <2>5, <2>6 DEF RunInv, MemoryOK
  <2>8. Load(e) = <<o, period>>
    <3>1. PortType(e[1]) = flow.sampleType[o[1]]
      BY <2>2, <2>3 DEF Wired
    <3> HIDE DEF e
    <3> QED
      BY <2>4, <2>7, <3>1, LoadedFromSender
  <2>9. samples[s] = Load(<<RoutingIn(p), inputs[s[2] + 1]>>) /\ s[2] = j
    BY <2>1
  <2> QED
    BY <2>8, <2>9
<1> HIDE DEF samples
<1> QED
  BY <1>1, <1>6, <1>9, <1>10, ExecutionStores

LEMMA RunInductive ==
  ASSUME RunInv, [Next]_vars
  PROVE  RunInv'
<1>1. FlowInv'
  BY FlowInductive DEF RunInv
<1>2. CASE UNCHANGED vars
  <2>1. UNCHANGED <<flow, phase, audioFlat, routings, buffers, schedule, position, period, memory>>
    BY <1>2 DEF vars, mapVars, bufferVars, runVars
  <2>2. \A s : Stored(s)' = Stored(s)
    BY <2>1 DEF Stored, Address, StrideBytes, PortType
  <2>3. MemoryOK'
    BY <2>1, <2>2 DEF RunInv, MemoryOK, BufferSenders, Origin, Ran
  <2> QED
    BY <1>1, <2>3 DEF RunInv
<1>3. CASE Construct \/ EndPeriod
  <2>1. phase' # "process"
    <3>1. ResolveStep => phase' # "process"
      BY DEF ResolveStep, CheckConnectionIntegrity, LookAtAudioConnection, FollowAudio, ArriveAudio,
             EndAudio, LookAtParameterConnection, FollowParameter, ArriveParameter, EndParameters,
             WalkOn, Throw
    <3>2. BufferStep => phase' # "process"
      BY DEF BufferStep, PlaceSendPort, PlaceReceivePort, InsertRouting, RefuseSenders, EndType,
             AssignBuffers, InOffsets, ReadyToReceive
    <3> QED
      BY <1>3, <3>1, <3>2 DEF Construct, InitialiseParameterInfrastructure, InitialiseSchedule, EndPeriod
  <2> QED
    BY <1>1, <2>1 DEF RunInv, MemoryOK
<1>4. CASE BeginPeriod
  BY <1>1, <1>4, BeginPeriodStores DEF RunInv
<1>5. CASE ExecuteComponent
  <2>1. \/ schedule[position] \in Atomic /\ Process(schedule[position])
        \/ \E p \in DOMAIN routings : schedule[position] = Routing(p) /\ CopyChannels(p)
    BY <1>5 DEF ExecuteComponent
  <2>2. MemoryOK'
    BY <1>5, <2>1, AtomicStores, RoutingStores
  <2> QED
    BY <1>1, <2>2 DEF RunInv
<1> QED
  BY <1>2, <1>3, <1>4, <1>5 DEF Next

\* In a period, what a component has produced stays in its place until the end of
\* the period.
THEOREM RunInvariant == Spec => []RunInv
<1>1. Init => RunInv
  BY FlowInitially DEF RunInv, MemoryOK, Init
<1>2. RunInv /\ [Next]_vars => RunInv'
  BY RunInductive
<1> QED
  BY <1>1, <1>2, PTL DEF Spec

LEMMA InputsFollow == RunInv => FreshInputs
<1> SUFFICES ASSUME RunInv, phase = "process", NEW k \in Signals,
                    k[2][1][1] = NextToRun, TypesAgree(k)
             PROVE  Load(k[2]) = <<k[1], period>>
  BY DEF FreshInputs
<1>1. /\ FlowInv /\ MapInv /\ BufferInv /\ schedule \in Schedules /\ Len(schedule) \in Nat
      /\ position \in 1 .. Len(schedule) + 1
  BY DEF RunInv, FlowInv, ScheduleOK
<1>2. k \in audioFlat
  BY <1>1, FlatIsSignals
<1> DEFINE p == k[2][1]
<1>3. Wired(k)
  BY <1>1, <1>2, ConnectionsWired DEF Later
<1>4. /\ k[1] \in AudioSenders /\ k[1][1] \in AudioPort /\ p \in AudioPort
      /\ k[2] = <<p, k[2][2]>> /\ k[2][2] \in 0 .. Width[p] - 1
  BY <1>1, <1>2, ConnectedPorts DEF MapInv, AudioFlatOK
<1>5. k[1][1][1] \in Components \cup {TopLevel}
  BY <1>1, <1>4, SendersOrRoutings DEF BufferSenders, Components
<1>6. \/ position <= Len(schedule) /\ p[1] = schedule[position] /\ p[1] # TopLevel
      \/ position = Len(schedule) + 1 /\ p[1] = TopLevel
  <2>1. CASE position <= Len(schedule)
    <3>1. p[1] = schedule[position]
      BY <2>1 DEF NextToRun
    <3>2. schedule[position] \in Components
      BY <1>1, <2>1, ScheduleOrdered
    <3>3. TopLevel \notin Components
      <4>1. DOMAIN routings \subseteq AudioPort
        BY <1>1, ConcretePorts DEF BufferInv, RoutingsOK
      <4> QED
        BY <4>1, HierarchyAssumption, RoutingNameAssumption DEF Components, Component, Routing
    <3> QED
      BY <2>1, <3>1, <3>2, <3>3
  <2>2. CASE ~ position <= Len(schedule)
    <3>1. p[1] = TopLevel
      BY <2>2 DEF NextToRun
    <3>2. position = Len(schedule) + 1
      BY <1>1, <2>2
    <3> QED
      BY <3>1, <3>2
  <2> QED
    BY <2>1, <2>2
\* What a final connection to the component comes from has been produced.
<1>7. ASSUME NEW f \in finalConnections, f[2][1][1] = p[1], f[1][1][1] \in Components \cup {TopLevel},
             f[1] \in BufferSenders, Origin(f[1], k[1])
      PROVE  Stored(f[1]) = <<k[1], period>>
  <2>1. Ran(f[1][1][1])
    BY <1>1, <1>6, <1>7, SendersRan
  <2> QED
    BY <1>4, <1>7, <2>1 DEF RunInv, MemoryOK
<1>8. PortType(p) = flow.sampleType[k[1][1]]
  BY <1>4 DEF TypesAgree, PortType
<1>9. CASE p \notin DOMAIN routings
  <2>1. Address(k[2]) = Address(k[1]) /\ k \in finalConnections
    BY <1>3, <1>9 DEF Wired
  <2>2. k[1] \in BufferSenders /\ Origin(k[1], k[1])
    BY <1>4 DEF BufferSenders, Origin
  <2>3. Stored(k[1]) = <<k[1], period>>
    BY <1>5, <1>7, <2>1, <2>2
  <2> QED
    BY <1>8, <2>1, <2>3, LoadedFromSender
<1>10. CASE p \in DOMAIN routings
  <2> DEFINE d == <<RoutingOut(p), k[2][2]>>
             final == <<d, k[2]>>
  <2>1. Address(k[2]) = Address(d) /\ final \in finalConnections
    BY <1>3, <1>10 DEF Wired
  <2>2. d \in BufferSenders /\ Origin(d, k[1])
    BY <1>2, <1>4, <1>10 DEF BufferSenders, Origin
  <2>3. d[1][1] = Routing(p) /\ Routing(p) \in Components
    BY <1>10 DEF RoutingOut, Components
  <2>4. final[1] = d /\ final[2] = k[2]
    OBVIOUS
  <2> HIDE DEF final, d
  <2>5. Stored(d) = <<k[1], period>>
    BY <1>7, <2>1, <2>2, <2>3, <2>4
  <2> QED
    BY <1>8, <2>1, <2>5, LoadedFromSender
<1> QED
  BY <1>9, <1>10

(***************************************************************************)
(* In process(), each component reads on each input channel that has the   *)
(* sample type of its sender what that sender has produced in the same     *)
(* period, although the order of ports, the sharing of memory, the routing *)
(* components and the schedule lie between them, and whatever ports of     *)
(* unequal types there are elsewhere in the flow.                          *)
(***************************************************************************)
THEOREM SamplesOfThisPeriod == Spec => []FreshInputs
BY RunInvariant, InputsFollow, PTL

-----------------------------------------------------------------------------
(* The reasons for which a flow is refused.                                *)

\* Whether there is one changes with the registrations only.
LEMMA DefectsUnchanged ==
  ASSUME flow' = flow
  PROVE  FlowDefect' <=> FlowDefect
<1>1. /\ AudioConnections' = AudioConnections
      /\ ParameterConnections' = ParameterConnections
      /\ ParameterEntries' = ParameterEntries
  BY RegistrationsUnchanged
<1>2. \A c : LocalDefect(c)' <=> LocalDefect(c)
  BY DEF LocalDefect
<1>3. Signals' = Signals /\ ParameterPaths' = ParameterPaths
  BY <1>1 DEF Signals, ParameterPaths
<1> QED
  BY <1>1, <1>2, <1>3 DEF FlowDefect

\* A loop, given as a sequence each element of which is preceded by another one.
LEMMA LoopOfSequence ==
  ASSUME NEW P, NEW C, NEW t \in Seq(P), t # <<>>,
         \A i \in 1 .. Len(t) : \E j \in 1 .. Len(t) : <<t[j], t[i]>> \in C
  PROVE  Loop(P, C)
<1> DEFINE S == {t[i] : i \in 1 .. Len(t)}
<1>1. Len(t) \in Nat /\ Len(t) # 0 /\ \A i \in 1 .. Len(t) : t[i] \in P
  BY EmptySeq, LenProperties, ElementOfSeq
<1>2. S \in SUBSET P
  BY <1>1
<1>3. t[1] \in S
  BY <1>1
<1>4. \A q \in S : \E p \in S : <<p, q>> \in C
  OBVIOUS
<1> HIDE DEF S
<1> QED
  BY <1>2, <1>3, <1>4 DEF Loop

-----------------------------------------------------------------------------
(* checkConnectionIntegrity(): the defects of the single levels.           *)

LEMMA ConnectionTables ==
  ASSUME flow \in Flows, NEW c \in Composite
  PROVE  /\ \A k \in DOMAIN flow.audio[c] :
              /\ k = <<k[1], k[2]>> /\ k[1] \in Channels(AudioPort) /\ k[2] \in Channels(AudioPort)
              /\ flow.audio[c][k] \in Nat \ {0}
         /\ \A k \in DOMAIN flow.parameter[c] :
              /\ k = <<k[1], k[2]>> /\ k[1] \in ParameterPort /\ k[2] \in ParameterPort
              /\ flow.parameter[c][k] \in Nat \ {0}
BY HierarchyAssumption, ConnectionAssumption

\* There are finitely many registrations.
LEMMA RegisteredFinite ==
  ASSUME NEW table, NEW X, IsFiniteSet(X), DOMAIN table \subseteq X,
         \A k \in DOMAIN table : table[k] \in Nat, NEW S, NEW R
  PROVE  IsFiniteSet(Registered(table, S, R))
<1> DEFINE K == {k \in DOMAIN table : k[1] \in S /\ k[2] \in R}
           E(k) == {<<k, n>> : n \in 1 .. table[k]}
           F == {E(k) : k \in K}
<1>1. IsFiniteSet(K)
  BY FS_Subset
<1>2. \A k \in K : IsFiniteSet(E(k))
  <2> SUFFICES ASSUME NEW k \in K
               PROVE  IsFiniteSet(E(k))
    OBVIOUS
  <2>1. table[k] \in Nat
    OBVIOUS
  <2> DEFINE I == 1 .. table[k]
             h == [n \in I |-> <<k, n>>]
  <2>2. IsFiniteSet(I)
    BY <2>1, FS_Interval
  <2>3. h \in Surjection(I, E(k))
    BY DEF Surjection
  <2> HIDE DEF I, h, E
  <2> QED
    BY <2>2, <2>3, FS_Surjection
<1>3. Registered(table, S, R) = UNION F
  BY DEF Registered
<1>4. IsFiniteSet(F)
  <2> DEFINE h == [k \in K |-> E(k)]
  <2> HIDE DEF E, K
  <2>1. h \in Surjection(K, F)
    BY DEF Surjection
  <2> HIDE DEF F, h
  <2> QED
    BY <1>1, <2>1, FS_Surjection
<1>5. \A T \in F : IsFiniteSet(T)
  BY <1>2
<1> HIDE DEF F
<1> QED
  BY <1>3, <1>4, <1>5, FS_UNION

\* A receiver with exactly one registration has exactly one sender.
LEMMA OneRegistration ==
  ASSUME NEW table, NEW X, IsFiniteSet(X), DOMAIN table \subseteq X,
         \A k \in DOMAIN table : k = <<k[1], k[2]>> /\ table[k] \in Nat \ {0},
         NEW S, NEW r, Cardinality(Registered(table, S, {r})) = 1
  PROVE  \E s \in S : /\ <<s, r>> \in DOMAIN table
                      /\ table[<<s, r>>] = 1
                      /\ \A t \in S \ {s} : <<t, r>> \notin DOMAIN table
<1> DEFINE G == Registered(table, S, {r})
<1>1. IsFiniteSet(G)
  BY RegisteredFinite
<1>2. \A x : x \in G <=> \E k \in DOMAIN table : /\ k[1] \in S /\ k[2] = r
                                                 /\ \E n \in 1 .. table[k] : x = <<k, n>>
  BY DEF Registered
<1>3. \E x : G = {x}
  <2> HIDE DEF G
  <2> QED
    BY <1>1, FS_Singleton DEF G
<1>4. PICK x : G = {x}
  BY <1>3
<1> HIDE DEF G
<1>5. \A y \in G : y = x
  BY <1>4
<1>6. PICK k \in DOMAIN table : k[1] \in S /\ k[2] = r
  BY <1>2, <1>4
<1>7. \A l \in DOMAIN table : l[1] \in S /\ l[2] = r => \A n \in 1 .. table[l] : <<l, n>> = x
  BY <1>2, <1>5
<1>8. \A l \in DOMAIN table : l[1] \in S /\ l[2] = r => <<l, 1>> = x
  <2> SUFFICES ASSUME NEW l \in DOMAIN table, l[1] \in S, l[2] = r
               PROVE  <<l, 1>> = x
    OBVIOUS
  <2>1. 1 \in 1 .. table[l]
    OBVIOUS
  <2> QED
    BY <1>7, <2>1
<1>9. table[k] = 1
  <2>1. table[k] \in 1 .. table[k]
    OBVIOUS
  <2>2. <<k, table[k]>> = x /\ <<k, 1>> = x
    BY <1>6, <1>7, <1>8, <2>1
  <2> QED
    BY <2>2
<1>10. k = <<k[1], r>>
  BY <1>6
<1>11. ASSUME NEW t \in S \ {k[1]}, <<t, r>> \in DOMAIN table
       PROVE  FALSE
  <2>1. <<t, r>>[1] = t /\ <<t, r>>[2] = r
    OBVIOUS
  <2>2. <<<<t, r>>, 1>> = <<k, 1>>
    BY <1>6, <1>8, <1>11, <2>1
  <2>3. <<t, r>> = k
    BY <2>2
  <2> QED
    BY <2>1, <2>3
<1> QED
  BY <1>6, <1>9, <1>10, <1>11

\* Who has a registration has a connection.
LEMMA SomeRegistration ==
  ASSUME NEW table, \A k \in DOMAIN table : k = <<k[1], k[2]>>, NEW S, NEW R
  PROVE  /\ \A s : Registered(table, {s}, R) # {} => \E r \in R : <<s, r>> \in DOMAIN table
         /\ \A r : Registered(table, S, {r}) # {} => \E s \in S : <<s, r>> \in DOMAIN table
<1>1. ASSUME NEW s, Registered(table, {s}, R) # {}
      PROVE  \E r \in R : <<s, r>> \in DOMAIN table
  BY <1>1 DEF Registered
<1>2. ASSUME NEW r, Registered(table, S, {r}) # {}
      PROVE  \E s \in S : <<s, r>> \in DOMAIN table
  BY <1>2 DEF Registered
<1> QED
  BY <1>1, <1>2

LEMMA AudioLevelDefect ==
  ASSUME flow \in Flows, NEW c \in Composite, ~ LocalDefect(c)
  PROVE  CheckAudioConnectionsLocal(c)
<1> DEFINE table == flow.audio[c]
           sends == Channels(LocalSendPorts(c, AudioPort))
           receives == Channels(LocalReceivePorts(c, AudioPort))
           X == Channels(AudioPort) \X Channels(AudioPort)
<1>1. /\ \A k \in DOMAIN table : k[1] \in sends /\ k[2] \in receives
      /\ \A r \in receives : Cardinality(Registered(table, sends, {r})) = 1
      /\ \A s \in sends : Registered(table, {s}, receives) # {}
  BY DEF LocalDefect
<1>2. \A k \in DOMAIN table : k = <<k[1], k[2]>> /\ table[k] \in Nat \ {0} /\ k \in X
  BY ConnectionTables
<1>3. IsFiniteSet(X)
  BY ChannelsFinite, FS_Product
<1>4. CheckAudioConnectionsLocal(c) <=>
        /\ DOMAIN table \subseteq sends \X receives
        /\ \A r \in receives : \E s \in sends :
             /\ <<s, r>> \in DOMAIN table
             /\ table[<<s, r>>] = 1
             /\ \A t \in sends \ {s} : <<t, r>> \notin DOMAIN table
        /\ \A s \in sends : \E r \in receives : <<s, r>> \in DOMAIN table
  BY DEF CheckAudioConnectionsLocal
<1> HIDE DEF table, sends, receives, X
<1>5. DOMAIN table \subseteq sends \X receives
  BY <1>1, <1>2
<1>6. \A r \in receives : \E s \in sends :
        /\ <<s, r>> \in DOMAIN table
        /\ table[<<s, r>>] = 1
        /\ \A t \in sends \ {s} : <<t, r>> \notin DOMAIN table
  <2>1. DOMAIN table \subseteq X
    BY <1>2
  <2> QED
    BY <1>1, <1>2, <1>3, <2>1, OneRegistration
<1>7. \A s \in sends : \E r \in receives : <<s, r>> \in DOMAIN table
  BY <1>1, <1>2, SomeRegistration
<1> QED
  BY <1>4, <1>5, <1>6, <1>7

LEMMA ParameterLevelDefect ==
  ASSUME flow \in Flows, NEW c \in Composite, ~ LocalDefect(c)
  PROVE  CheckParameterConnectionsLocal(c)
<1> DEFINE table == flow.parameter[c]
           sends == LocalSendPorts(c, ParameterPort)
           receives == LocalReceivePorts(c, ParameterPort)
<1>1. /\ \A k \in DOMAIN table : /\ k[1] \in sends /\ k[2] \in receives
                                 /\ flow.protocol[k[1]] = flow.protocol[k[2]]
      /\ \A r \in receives : Registered(table, sends, {r}) # {}
      /\ \A s \in sends : Registered(table, {s}, receives) # {}
  BY DEF LocalDefect
<1>2. \A k \in DOMAIN table : k = <<k[1], k[2]>> /\ table[k] \in Nat \ {0}
  BY ConnectionTables
<1>3. CheckParameterConnectionsLocal(c) <=>
        /\ DOMAIN table \subseteq sends \X receives
        /\ \A k \in DOMAIN table : flow.protocol[k[1]] = flow.protocol[k[2]]
        /\ {k[1] : k \in DOMAIN table} = sends
        /\ {k[2] : k \in DOMAIN table} = receives
  BY DEF CheckParameterConnectionsLocal
<1> HIDE DEF table, sends, receives
<1>4. DOMAIN table \subseteq sends \X receives
  BY <1>1, <1>2
<1>5. \A r \in receives : \E s \in sends : <<s, r>> \in DOMAIN table
  BY <1>1, <1>2, SomeRegistration
<1>6. \A s \in sends : \E r \in receives : <<s, r>> \in DOMAIN table
  BY <1>1, <1>2, SomeRegistration
<1>7. {k[1] : k \in DOMAIN table} = sends
  <2>1. \A s \in sends : \E k \in DOMAIN table : s = k[1]
    BY <1>6
  <2> QED
    BY <1>1, <2>1
<1>8. {k[2] : k \in DOMAIN table} = receives
  <2>1. \A r \in receives : \E k \in DOMAIN table : r = k[2]
    BY <1>5
  <2> QED
    BY <1>1, <2>1
<1> QED
  BY <1>1, <1>3, <1>4, <1>7, <1>8

LEMMA IntegrityCause ==
  ASSUME flow \in Flows, ~ Checked
  PROVE  FlowDefect
BY AudioLevelDefect, ParameterLevelDefect DEF Checked, FlowDefect

-----------------------------------------------------------------------------
(* resolvePlaceholders(): the walks that are given up.                     *)

LEMMA FoundSenders ==
  ASSUME NEW C, \A k \in C : k = <<k[1], k[2]>>, NEW q, \E s : <<s, q>> \in C
  PROVE  \A s \in Found(C, q) : <<s, q>> \in C
<1> DEFINE senders == {k[1] : k \in {c \in C : c[2] = q}}
<1>1. \A s \in senders : <<s, q>> \in C
  OBVIOUS
<1>2. senders # {}
  <2>1. PICK s : <<s, q>> \in C
    OBVIOUS
  <2>2. <<s, q>>[1] = s /\ <<s, q>>[2] = q
    OBVIOUS
  <2>3. s \in senders
    BY <2>1, <2>2
  <2> QED
    BY <2>3
<1>3. Found(C, q) = senders
  BY <1>2 DEF Found
<1> QED
  BY <1>1, <1>3

\* The placeholders a walk has come by, the one it is at included.
WayBack(C, P, w, t) ==
  /\ t \in Seq(P) /\ Len(t) = Len(w.trace) + 1 /\ Len(t) \in Nat \ {0}
  /\ t[Len(t)] = w.sender /\ Last(t) = w.sender
  /\ <<t[1], w.receiver>> \in C
  /\ \A i \in 1 .. Len(t) - 1 : <<t[i + 1], t[i]>> \in C

LEMMA WayOfWalk ==
  ASSUME NEW C, NEW P, NEW w, Trail(C, P, w), w.sender \in P, \E s : <<s, w.sender>> \in C
  PROVE  WayBack(C, P, w, Append(w.trace, w.sender))
<1> DEFINE t == Append(w.trace, w.sender)
<1>1. PICK s : <<s, w.sender>> \in C
  OBVIOUS
<1> DEFINE v == [receiver |-> w.receiver, trace |-> t, sender |-> s]
<1>2. Trail(C, P, v)
  BY <1>1, TrailGrows
<1>3. v.receiver = w.receiver /\ v.trace = t
  OBVIOUS
<1>a. t = Append(w.trace, w.sender)
  OBVIOUS
<1> HIDE DEF v, t
<1>4. /\ t \in Seq(P) /\ <<t[1], w.receiver>> \in C
      /\ \A i \in 1 .. Len(t) - 1 : <<t[i + 1], t[i]>> \in C
  BY <1>2, <1>3 DEF Trail
<1>5. w.trace \in Seq(P)
  BY DEF Trail
<1>6. Len(w.trace) \in Nat /\ Len(t) = Len(w.trace) + 1 /\ t[Len(w.trace) + 1] = w.sender
  BY <1>5, <1>a, AppendProperties, LenProperties
<1>7. Len(t) \in Nat \ {0} /\ t[Len(t)] = w.sender
  BY <1>4, <1>6
<1> QED
  BY <1>4, <1>6, <1>7, <1>a DEF Last, WayBack

\* A walk along audio connections ends where it has been before.
LEMMA AudioWalkCause ==
  ASSUME MapInv, FollowAudio, phase' = "rejected"
  PROVE  FlowDefect
<1> DEFINE C == AudioConnections
           P == AudioPlaceholders
           q == walk.sender
           t == Append(walk.trace, walk.sender)
<1>1. /\ phase = "audio" /\ walk # NoWalk /\ IsPlaceholderPort(q[1]) /\ Checked
      /\ \/ Found(C, q) \cap ToSet(t) # {}
         \/ WalkOn(C, walk.receiver, t)
  BY DEF FollowAudio, MapInv, FlowOK
<1>2. Trail(C, P, walk) /\ q \in AudioSenders \cup P
  BY <1>1 DEF MapInv, AudioWalkOK
<1>3. q \in P
  BY <1>1, <1>2, Disjoint
<1>4. \E s : <<s, q>> \in C
  BY <1>1, <1>3, AudioConnectionsKnown
<1>5. \A k \in C : k = <<k[1], k[2]>> /\ k[1] # Nowhere
  BY <1>1, AudioConnectionsKnown
<1> HIDE DEF q, t, C, P
<1>a. WayBack(C, P, walk, t)
  BY <1>2, <1>3, <1>4, WayOfWalk DEF q, t
<1>b. q = walk.sender
  BY DEF q
<1>6. /\ t \in Seq(P) /\ Len(t) \in Nat \ {0} /\ t[Len(t)] = q /\ Last(t) = q
      /\ \A i \in 1 .. Len(t) - 1 : <<t[i + 1], t[i]>> \in C
  BY <1>a, <1>b DEF WayBack
<1>7. ~ WalkOn(C, walk.receiver, t)
  <2> SUFFICES ASSUME WalkOn(C, walk.receiver, t)
               PROVE  FALSE
    OBVIOUS
  <2>1. \E s : <<s, Last(t)>> \in C
    BY <1>4, <1>6
  <2>2. phase' = phase
    BY <1>5, <2>1, WalkGoesOn
  <2> QED
    BY <1>1, <2>2
<1>8. PICK s \in Found(C, q) : s \in ToSet(t)
  BY <1>1, <1>7
<1>9. <<s, q>> \in C
  BY <1>4, <1>5, FoundSenders
<1>10. PICK j \in 1 .. Len(t) : s = t[j]
  BY <1>8 DEF ToSet
<1>11. ASSUME NEW i \in 1 .. Len(t)
       PROVE  \E k \in 1 .. Len(t) : <<t[k], t[i]>> \in C
  <2>1. CASE i = Len(t)
    BY <1>6, <1>9, <1>10, <2>1
  <2>2. CASE i # Len(t)
    <3>1. i \in 1 .. Len(t) - 1 /\ i + 1 \in 1 .. Len(t)
      BY <1>6, <2>2
    <3> QED
      BY <1>6, <3>1
  <2> QED
    BY <2>1, <2>2
<1>12. Loop(P, C)
  <2>1. t # <<>>
    BY <1>6, EmptySeq
  <2> QED
    BY <1>6, <1>11, <2>1, LoopOfSequence
<1> QED
  BY <1>12 DEF FlowDefect, P, C, AudioPlaceholders

LEMMA EntriesFinite ==
  ASSUME flow \in Flows
  PROVE  IsFiniteSet(ParameterEntries)
<1> DEFINE K == ParameterConnections
           E(k) == {<<k, n>> : n \in 1 .. Copies(k)}
           F == {E(k) : k \in K}
           X == ParameterPort \X ParameterPort
<1>1. IsFiniteSet(ParameterPort)
  <2>1. IsFiniteSet(AudioPort \cup ParameterPort) /\ ParameterPort \in SUBSET (AudioPort \cup ParameterPort)
    BY HierarchyAssumption
  <2> QED
    BY <2>1, FS_Subset
<1>2. IsFiniteSet(K)
  <2>1. IsFiniteSet(X)
    BY <1>1, FS_Product
  <2>2. K \in SUBSET X
    BY ConnectionTables DEF ParameterConnections
  <2> QED
    BY <2>1, <2>2, FS_Subset
<1>3. ASSUME NEW k \in K
      PROVE  Copies(k) \in Nat /\ IsFiniteSet(E(k))
  <2>1. \E d \in Composite : k \in DOMAIN flow.parameter[d]
    BY DEF ParameterConnections
  <2> DEFINE c == CHOOSE c \in Composite : k \in DOMAIN flow.parameter[c]
             I == 1 .. Copies(k)
             h == [n \in I |-> <<k, n>>]
  <2>2. c \in Composite /\ k \in DOMAIN flow.parameter[c]
    BY <2>1
  <2>3. Copies(k) = flow.parameter[c][k]
    BY DEF Copies
  <2> HIDE DEF c
  <2>4. Copies(k) \in Nat
    BY <2>2, <2>3, ConnectionTables
  <2>5. IsFiniteSet(I)
    BY <2>4, FS_Interval
  <2>6. h \in Surjection(I, E(k))
    BY DEF Surjection
  <2> HIDE DEF I, h, E
  <2> QED
    BY <2>4, <2>5, <2>6, FS_Surjection
<1>4. ParameterEntries = UNION F
  BY DEF ParameterEntries
<1>5. IsFiniteSet(F)
  <2> DEFINE h == [k \in K |-> E(k)]
  <2> HIDE DEF E, K
  <2>1. h \in Surjection(K, F)
    BY DEF Surjection
  <2> HIDE DEF F, h
  <2> QED
    BY <1>2, <2>1, FS_Surjection
<1>6. \A T \in F : IsFiniteSet(T)
  BY <1>3
<1> HIDE DEF F
<1> QED
  BY <1>4, <1>5, <1>6, FS_UNION

\* A walk that is as long as there are connections has met some placeholder twice.
LEMMA LongWalk ==
  ASSUME NEW C, NEW P, NEW r, r \notin P, NEW t \in Seq(P), NEW n \in Nat \ {0}, n = Len(t),
         <<t[1], r>> \in C, \A i \in 1 .. n - 1 : <<t[i + 1], t[i]>> \in C, \E s : <<s, t[n]>> \in C,
         NEW E, IsFiniteSet(E), Cardinality(E) <= n, \A k \in C : <<k, 1>> \in E
  PROVE  Loop(P, C)
<1> DEFINE u(i) == IF i = 0 THEN r ELSE t[i]
           last(i) == CHOOSE k \in C : k[2] = u(i)
           I == 0 .. n
           g == [i \in I |-> <<last(i), 1>>]
<1>1. \A i \in 1 .. n : t[i] \in P
  BY ElementOfSeq
<1>2. ASSUME NEW i \in I
      PROVE  last(i) \in C /\ last(i)[2] = u(i)
  <2>1. \E s : <<s, u(i)>> \in C
    <3>1. CASE i = 0
      BY <3>1
    <3>2. CASE i = n
      BY <3>2
    <3>3. CASE i # 0 /\ i # n
      <4>1. i \in 1 .. n - 1
        BY <3>3
      <4> QED
        BY <3>3, <4>1
    <3> QED
      BY <3>1, <3>2, <3>3
  <2> HIDE DEF u
  <2>2. \E k \in C : k[2] = u(i)
    <3>1. PICK s : <<s, u(i)>> \in C
      BY <2>1
    <3>2. <<s, u(i)>>[2] = u(i)
      OBVIOUS
    <3> QED
      BY <3>1, <3>2
  <2> QED
    BY <2>2
<1> HIDE DEF u, last
<1>3. g \in [I -> E]
  BY <1>2
<1>4. IsFiniteSet(I) /\ Cardinality(I) = n + 1 /\ Cardinality(E) \in Nat
  BY SizeOfRange, FS_Interval, FS_CardinalityType DEF I
<1>5. \E x, y \in I : x # y /\ g[x] = g[y]
  <2>1. Cardinality(E) < Cardinality(I)
    BY <1>4
  <2> HIDE DEF g, I
  <2> QED
    BY <1>3, <1>4, <2>1, FS_PigeonHole
<1>6. PICK x, y \in I : x # y /\ g[x] = g[y]
  BY <1>5
<1>7. u(x) = u(y)
  <2>1. <<last(x), 1>> = <<last(y), 1>>
    BY <1>6
  <2>2. last(x) = last(y)
    BY <2>1
  <2> QED
    BY <1>2, <2>2
<1>8. ASSUME NEW i \in I, NEW j \in I, i < j, u(i) = u(j)
      PROVE  Loop(P, C)
  <2> DEFINE S == {t[k] : k \in i .. j - 1}
  <2>1. j \in 1 .. n
    BY <1>8
  <2>2. i # 0
    <3> SUFFICES ASSUME i = 0
                 PROVE  FALSE
      OBVIOUS
    <3>1. r = t[j]
      BY <1>8, <2>1 DEF u
    <3> QED
      BY <1>1, <2>1, <3>1
  <2>3. t[i] = t[j] /\ i \in i .. j - 1 /\ i .. j - 1 \subseteq 1 .. n - 1
    BY <1>8, <2>1, <2>2 DEF u
  <2>4. ASSUME NEW k \in i .. j - 1
        PROVE  \E p \in S : <<p, t[k]>> \in C
    <3>1. <<t[k + 1], t[k]>> \in C
      BY <2>3
    <3>2. CASE k = j - 1
      <4>1. k + 1 = j
        BY <2>1, <3>2
      <4>2. t[k + 1] \in S
        BY <2>3, <4>1
      <4> QED
        BY <3>1, <4>2
    <3>3. CASE k # j - 1
      <4>1. k + 1 \in i .. j - 1
        BY <2>1, <3>3
      <4>2. t[k + 1] \in S
        BY <4>1
      <4> QED
        BY <3>1, <4>2
    <3> QED
      BY <3>2, <3>3
  <2>5. S \in SUBSET P /\ t[i] \in S
    <3>1. \A k \in i .. j - 1 : t[k] \in P
      BY <1>1, <2>3
    <3> QED
      BY <2>3, <3>1
  <2>6. \A q \in S : \E p \in S : <<p, q>> \in C
    BY <2>4
  <2> HIDE DEF S
  <2> QED
    BY <2>5, <2>6 DEF Loop
<1>9. x < y \/ y < x
  BY <1>6
<1> QED
  BY <1>7, <1>8, <1>9

\* A walk along parameter connections is as long as there are entries.
LEMMA ParameterWalkCause ==
  ASSUME MapInv, FollowParameter, phase' = "rejected"
  PROVE  FlowDefect
<1> DEFINE C == ParameterConnections
           P == ParameterPlaceholders
           q == walk.sender
           r == walk.receiver
           t == Append(walk.trace, walk.sender)
           n == Len(walk.trace) + 1
<1>1. /\ phase = "parameters" /\ walk # NoWalk /\ IsPlaceholderPort(q) /\ Checked
      /\ \/ n >= Cardinality(ParameterEntries)
         \/ WalkOn(C, r, t)
      /\ flow \in Flows
  BY DEF FollowParameter, MapInv, FlowOK
<1>2. Trail(C, P, walk) /\ r \in ParameterReceivers /\ q \in ParameterSenders \cup P
  BY <1>1 DEF MapInv, ParameterWalkOK
<1>3. q \in P /\ r \notin P
  BY <1>1, <1>2, Disjoint
<1>4. \E s : <<s, q>> \in C
  BY <1>1, <1>3, ParameterConnectionsKnown
<1>5. \A k \in C : k = <<k[1], k[2]>> /\ k[1] # Nowhere
  BY <1>1, ParameterConnectionsKnown
<1>6. IsFiniteSet(ParameterEntries) /\ \A k \in C : <<k, 1>> \in ParameterEntries
  BY <1>1, EntriesFinite, EntriesOfConnections
<1> HIDE DEF q, r, t, C, P
<1>a. WayBack(C, P, walk, t)
  BY <1>2, <1>3, <1>4, WayOfWalk DEF q, t
<1>b. q = walk.sender /\ r = walk.receiver /\ n = Len(walk.trace) + 1
  BY DEF q, r, n
<1> HIDE DEF n
<1>7. /\ t \in Seq(P) /\ Len(t) = n /\ n \in Nat \ {0} /\ t[n] = q /\ Last(t) = q
      /\ <<t[1], r>> \in C
      /\ \A i \in 1 .. n - 1 : <<t[i + 1], t[i]>> \in C
  BY <1>a, <1>b DEF WayBack
<1>8. ~ WalkOn(C, r, t)
  <2> SUFFICES ASSUME WalkOn(C, r, t)
               PROVE  FALSE
    OBVIOUS
  <2>1. \E s : <<s, Last(t)>> \in C
    BY <1>4, <1>7
  <2>2. phase' = phase
    BY <1>5, <2>1, WalkGoesOn
  <2> QED
    BY <1>1, <2>2
<1>9. Cardinality(ParameterEntries) <= n
  <2>1. Cardinality(ParameterEntries) \in Nat
    BY <1>6, FS_CardinalityType
  <2> QED
    BY <1>1, <1>7, <1>8, <2>1
<1>10. \E s : <<s, t[n]>> \in C
  BY <1>4, <1>7
<1>11. Loop(P, C)
  BY <1>3, <1>6, <1>7, <1>9, <1>10, LongWalk
<1> QED
  BY <1>11 DEF FlowDefect, P, C, ParameterPlaceholders

-----------------------------------------------------------------------------
(* initialiseAudioConnections(): senders of different sample types.        *)

LEMMA SampleTypeCause ==
  ASSUME MapInv, NEW p, RefuseSenders(p)
  PROVE  FlowDefect
<1> DEFINE L == LocalConnections(p)
           I == 0 .. Width[p] - 1
           f == [k \in L |-> k[2][2]]
<1>1. phase = "offsets" /\ p \in ReceivePorts(CurrentType) /\ ~ SendersComplete(p)
  BY DEF RefuseSenders, ReadyToReceive, InOffsets, UnplacedReceivePorts
<1>2. audioFlat = Signals
  BY <1>1, FlatIsSignals
<1>3. PICK k \in audioFlat : k[2][1] = p /\ flow.sampleType[k[1][1]] = CurrentType
  BY <1>1 DEF ReceivePorts, Typed
<1>4. p \in AudioPort /\ p \in ConcreteReceivers(AudioPort)
  BY <1>3, ConnectedPorts
<1>5. Width[p] \in Nat
  BY <1>4, RoutingPorts
<1>6. ASSUME \A l \in audioFlat : l[2][1] = p => flow.sampleType[l[1][1]] = CurrentType
      PROVE  FALSE
  <2>1. \A l : l \in L <=> l \in audioFlat /\ l[2][1] = p
    BY <1>6 DEF LocalConnections, Typed
  <2>2. \A l \in L : l[2] = <<p, l[2][2]>> /\ l[2][2] \in I
    BY <2>1, ConnectedPorts
  <2>3. \A l, m \in L : l[2][2] = m[2][2] => l = m
    <3>1. \A l, m \in L : l[2][2] = m[2][2] => l[2] = m[2]
      BY <2>2
    <3> QED
      BY <2>1, <3>1, ConnectedPorts
  <2>4. ASSUME NEW i \in I
        PROVE  \E l \in L : l[2][2] = i
    <3> DEFINE r == <<p, i>>
    <3>1. r[1] = p /\ r[2] = i /\ r = <<r[1], r[2]>>
      OBVIOUS
    <3>2. r \in AudioReceivers
      BY <1>4, <3>1, ChannelsOfPorts DEF AudioReceivers
    <3> HIDE DEF r
    <3>3. PICK s \in AudioSenders : <<s, r>> \in audioFlat
      BY <1>1, <3>2, OneConnectionEach
    <3>4. <<s, r>>[2] = r
      OBVIOUS
    <3> QED
      BY <2>1, <3>1, <3>3, <3>4
  <2> HIDE DEF L, I
  <2>5. f \in Injection(L, I)
    BY <2>2, <2>3 DEF Injection, IsInjective
  <2>6. f \in Surjection(L, I)
    BY <2>2, <2>4 DEF Surjection
  <2>7. IsFiniteSet(I) /\ Cardinality(I) = Width[p]
    BY <1>5, SizeOfRange DEF I
  <2> HIDE DEF f
  <2>8. Cardinality(L) = Cardinality(I)
    BY <2>5, <2>6, <2>7, FS_Injection
  <2> QED
    BY <1>1, <2>7, <2>8 DEF SendersComplete, L
<1>7. PICK l \in audioFlat : l[2][1] = p /\ flow.sampleType[l[1][1]] # CurrentType
  BY <1>6
<1>8. k \in Signals /\ l \in Signals /\ k[2][1] = l[2][1]
      /\ flow.sampleType[k[1][1]] # flow.sampleType[l[1][1]]
  BY <1>2, <1>3, <1>7
<1> QED
  BY <1>8 DEF FlowDefect

-----------------------------------------------------------------------------
(* initialiseParameterInfrastructure(): double connections.                *)

LEMMA SeveralElements ==
  ASSUME NEW S, IsFiniteSet(S), NEW x \in S, NEW y \in S, x # y
  PROVE  Cardinality(S) > 1
<1>1. Cardinality(S) \in Nat
  BY FS_CardinalityType
<1>2. Cardinality(S) # 0
  BY FS_EmptySet
<1>3. Cardinality(S) # 1
  BY FS_Singleton
<1> QED
  BY <1>1, <1>2, <1>3

\* A receiver that occurs twice among the direct connections has several entries.
LEMMA DoubleReceiver ==
  ASSUME MapInv, NEW i \in DOMAIN parameterFlat, NEW j \in DOMAIN parameterFlat,
         i # j, parameterFlat[i][2] = parameterFlat[j][2]
  PROVE  FlowDefect
<1> DEFINE r == parameterFlat[i][2]
           E == {e \in ParameterEntries : e[1][2] = r}
<1>1. r \in ParameterReceivers
  <2>1. parameterFlat[i] \in ParameterSenders \X ParameterReceivers
    BY DEF MapInv, ParameterFlatOK
  <2> QED
    BY <2>1
<1> HIDE DEF r
<1>2. ~ OneEntry(r)
  BY <1>1 DEF MapInv, ParameterOnce, r
<1>3. PICK e, f \in ParameterEntries : e[1][2] = r /\ f[1][2] = r /\ e # f
  BY <1>2 DEF OneEntry
<1>4. IsFiniteSet(ParameterEntries) /\ E \subseteq ParameterEntries
  BY EntriesFinite DEF MapInv, FlowOK
<1>5. IsFiniteSet(E)
  BY <1>4, FS_Subset
<1>6. e \in E /\ f \in E
  BY <1>3
<1> HIDE DEF E
<1>7. Cardinality(E) > 1
  BY <1>3, <1>5, <1>6, SeveralElements
<1> QED
  BY <1>1, <1>7 DEF E, FlowDefect, ParameterReceivers

LEMMA ProtocolCause ==
  ASSUME MapInv, ~ ProtocolsConnect
  PROVE  FlowDefect
<1>1. CASE ~ IsInjective(parameterFlat)
  <2>1. PICK i, j \in DOMAIN parameterFlat : i # j /\ parameterFlat[i] = parameterFlat[j]
    BY <1>1 DEF IsInjective
  <2> QED
    BY <2>1, DoubleReceiver
<1>2. CASE ~ OneSender
  <2>1. PICK i, j \in DOMAIN parameterFlat :
          parameterFlat[i][2] = parameterFlat[j][2] /\ parameterFlat[i][1] # parameterFlat[j][1]
    BY <1>2 DEF OneSender
  <2> QED
    BY <2>1, DoubleReceiver
<1>3. CASE ~ OneReceiver
  <2>1. PICK i, j \in DOMAIN parameterFlat :
          /\ parameterFlat[i][1] = parameterFlat[j][1] /\ parameterFlat[i][2] # parameterFlat[j][2]
          /\ flow.protocol[parameterFlat[i][1]] = "MessageQueue"
    BY <1>3 DEF OneReceiver
  <2>2. \A n \in DOMAIN parameterFlat : parameterFlat[n] \in ParameterPaths
    <3> SUFFICES ASSUME NEW n \in DOMAIN parameterFlat
                 PROVE  parameterFlat[n] \in ParameterPaths
      OBVIOUS
    <3>1. /\ parameterFlat[n] \in ParameterSenders \X ParameterReceivers
          /\ Reaches(ParameterConnections, ParameterPlaceholders,
                     parameterFlat[n][1], parameterFlat[n][2])
      BY DEF MapInv, ParameterFlatOK
    <3> QED
      BY <3>1 DEF ParameterPaths, ParameterSenders, ParameterReceivers, ParameterPlaceholders
  <2>3. \E k, l \in ParameterPaths :
          k[1] = l[1] /\ k[2] # l[2] /\ flow.protocol[k[1]] = "MessageQueue"
    BY <2>1, <2>2
  <2> QED
    BY <2>3 DEF FlowDefect
<1> QED
  BY <1>1, <1>2, <1>3 DEF ProtocolsConnect

-----------------------------------------------------------------------------
(* initialiseSchedule(): components that wait for each other.              *)

\* Some nodes in an order in which they come after all that precede them.
Ordered(X, D, n, f) ==
  /\ f \in [1 .. n -> X]
  /\ \A i, j \in 1 .. n : i # j => f[i] # f[j]
  /\ \A j \in 1 .. n : \A p : <<p, f[j]>> \in D => \E i \in 1 .. j - 1 : f[i] = p

LEMMA OneMoreOrdered ==
  ASSUME NEW X, NEW D, NEW n \in Nat, NEW f, Ordered(X, D, n, f), NEW q \in X,
         \A i \in 1 .. n : f[i] # q, \A p : <<p, q>> \in D => \E i \in 1 .. n : f[i] = p
  PROVE  \E g : Ordered(X, D, n + 1, g)
<1> DEFINE g == [i \in 1 .. n + 1 |-> IF i = n + 1 THEN q ELSE f[i]]
<1>1. /\ f \in [1 .. n -> X]
      /\ \A i, j \in 1 .. n : i # j => f[i] # f[j]
      /\ \A j \in 1 .. n : \A p : <<p, f[j]>> \in D => \E i \in 1 .. j - 1 : f[i] = p
  BY DEF Ordered
<1>2. g[n + 1] = q /\ \A i \in 1 .. n : g[i] = f[i]
  OBVIOUS
<1>3. g \in [1 .. n + 1 -> X]
  BY <1>1
<1>a. 1 .. n + 1 = 1 .. n \cup {n + 1}
  OBVIOUS
<1> HIDE DEF g
<1>4. \A i, j \in 1 .. n + 1 : i # j => g[i] # g[j]
  BY <1>1, <1>2, <1>a
<1>5. ASSUME NEW j \in 1 .. n + 1, NEW p, <<p, g[j]>> \in D
      PROVE  \E i \in 1 .. j - 1 : g[i] = p
  <2>1. CASE j = n + 1
    <3>1. PICK i \in 1 .. n : f[i] = p
      BY <1>2, <1>5, <2>1
    <3> QED
      BY <1>2, <2>1, <3>1
  <2>2. CASE j # n + 1
    <3>1. j \in 1 .. n
      BY <2>2
    <3>2. PICK i \in 1 .. j - 1 : f[i] = p
      BY <1>1, <1>2, <1>5, <3>1
    <3>3. i \in 1 .. n
      BY <3>1, <3>2
    <3> QED
      BY <1>2, <3>2, <3>3
  <2> QED
    BY <2>1, <2>2
<1> QED
  BY <1>3, <1>4, <1>5 DEF Ordered

\* Finitely many nodes without a loop have an order.
LEMMA SortedWithoutLoop ==
  ASSUME NEW X, IsFiniteSet(X), NEW D, \A d \in D : d = <<d[1], d[2]>> /\ d[1] \in X /\ d[2] \in X,
         ~ Loop(X, D)
  PROVE  \E f : Ordered(X, D, Cardinality(X), f)
<1> DEFINE N == Cardinality(X)
           M == {n \in 0 .. N : \E f : Ordered(X, D, n, f)}
           m == Max(M)
<1>1. N \in Nat
  BY FS_CardinalityType
<1>2. 0 \in M
  <2> DEFINE e == [i \in 1 .. 0 |-> 0]
  <2>1. 1 .. 0 = {}
    OBVIOUS
  <2>2. Ordered(X, D, 0, e)
    BY <2>1 DEF Ordered
  <2> HIDE DEF e
  <2> QED
    BY <1>1, <2>2
<1>3. m \in M /\ \A n \in M : n <= m
  <2>1. M \subseteq 0 .. N /\ M # {}
    BY <1>2
  <2> HIDE DEF M, N
  <2> QED
    BY <1>1, <2>1, GreatestNumber
<1> HIDE DEF m
<1>4. m \in 0 .. N
  BY <1>3
<1>5. PICK f : Ordered(X, D, m, f)
  BY <1>3
<1>6. ASSUME m # N
      PROVE  FALSE
  <2> DEFINE R == {x \in X : \A i \in 1 .. m : f[i] # x}
  <2>1. R # {}
    <3> SUFFICES ASSUME R = {}
                 PROVE  FALSE
      OBVIOUS
    <3>1. f \in Surjection(1 .. m, X)
      <4>1. f \in [1 .. m -> X]
        BY <1>5 DEF Ordered
      <4>2. \A x \in X : \E i \in 1 .. m : f[i] = x
        OBVIOUS
      <4> QED
        BY <4>1, <4>2 DEF Surjection
    <3>2. m \in Nat
      BY <1>4
    <3>3. IsFiniteSet(1 .. m) /\ Cardinality(1 .. m) = m
      <4>1. /\ IsFiniteSet(1 .. m)
            /\ Cardinality(1 .. m) = IF 1 > m THEN 0 ELSE m - 1 + 1
        BY <3>2, FS_Interval
      <4>2. (IF 1 > m THEN 0 ELSE m - 1 + 1) = m
        BY <3>2
      <4> QED
        BY <4>1, <4>2
    <3> HIDE DEF R
    <3>4. N <= m
      BY <3>1, <3>3, FS_Surjection
    <3> QED
      BY <1>1, <1>4, <1>6, <3>4
  <2>2. R \in SUBSET X
    OBVIOUS
  <2>3. PICK q \in R : \A p \in R : <<p, q>> \notin D
    <3> HIDE DEF R
    <3> QED
      BY <2>1, <2>2 DEF Loop
  <2>4. q \in X /\ \A i \in 1 .. m : f[i] # q
    BY <2>3
  <2>5. ASSUME NEW p, <<p, q>> \in D
        PROVE  \E i \in 1 .. m : f[i] = p
    <3>1. p \in X
      <4>1. <<p, q>>[1] = p
        OBVIOUS
      <4> QED
        BY <2>5, <4>1
    <3> QED
      BY <2>3, <2>5, <3>1
  <2>6. \E g : Ordered(X, D, m + 1, g)
    <3>1. m \in Nat
      BY <1>4
    <3> QED
      BY <1>5, <2>4, <2>5, <3>1, OneMoreOrdered
  <2>7. m + 1 \in M
    BY <1>1, <1>4, <1>6, <2>6
  <2> QED
    BY <1>3, <1>4, <2>7
<1> QED
  BY <1>5, <1>6

\* Such an order is a schedule.
LEMMA OrderedIsSchedule ==
  ASSUME BufferInv, NEW D, D = Dependencies(finalConnections, ToSet(parameterFlat)),
         \A d \in D : d = <<d[1], d[2]>> /\ d[1] \in Components /\ d[2] \in Components,
         NEW f, Ordered(Components, D, Cardinality(Components), f)
  PROVE  f \in Schedules
<1> DEFINE X == Components
           N == Cardinality(Components)
<1>1. N \in Nat /\ IsFiniteSet(X)
  BY ComponentsFinite
<1>2. /\ f \in [1 .. N -> X]
      /\ \A i, j \in 1 .. N : i # j => f[i] # f[j]
      /\ \A j \in 1 .. N : \A p : <<p, f[j]>> \in D => \E i \in 1 .. j - 1 : f[i] = p
  BY DEF Ordered
<1>3. f \in SetToSeqs(X)
  BY <1>2 DEF SetToSeqs
<1>4. f \in Surjection(1 .. N, X)
  <2>1. f \in Injection(1 .. N, X)
    BY <1>2 DEF Injection, IsInjective
  <2>2. IsFiniteSet(1 .. N) /\ Cardinality(1 .. N) = N
    <3>1. /\ IsFiniteSet(1 .. N)
          /\ Cardinality(1 .. N) = IF 1 > N THEN 0 ELSE N - 1 + 1
      BY <1>1, FS_Interval
    <3>2. (IF 1 > N THEN 0 ELSE N - 1 + 1) = N
      BY <1>1
    <3> QED
      BY <3>1, <3>2
  <2> HIDE DEF X
  <2> QED
    BY <1>1, <2>1, <2>2, FS_Injection DEF X
<1>5. ASSUME NEW d \in D
      PROVE  \E i, j \in DOMAIN f : i < j /\ f[i] = d[1] /\ f[j] = d[2]
  <2>1. PICK j \in 1 .. N : f[j] = d[2]
    BY <1>4 DEF Surjection
  <2>2. <<d[1], f[j]>> \in D
    BY <2>1
  <2>3. PICK i \in 1 .. j - 1 : f[i] = d[1]
    BY <1>2, <2>2
  <2>4. i \in DOMAIN f /\ j \in DOMAIN f /\ i < j
    BY <1>1, <1>2
  <2> QED
    BY <2>1, <2>3, <2>4
<1> QED
  BY <1>3, <1>5 DEF Schedules, Orders

\* Ports that are no placeholders belong to atomic components or to the top level.
LEMMA ConcreteComponents ==
  /\ TopLevel \notin Atomic
  /\ \A k \in Signals : k[1][1][1] \in Atomic \cup {TopLevel} /\ k[2][1][1] \in Atomic \cup {TopLevel}
  /\ \A k \in ParameterPaths : k[1][1] \in Atomic \cup {TopLevel} /\ k[2][1] \in Atomic \cup {TopLevel}
<1>1. TopLevel \notin Atomic
  BY HierarchyAssumption
<1>2. ASSUME NEW ports \in SUBSET AnyPort, NEW p \in ConcreteSenders(ports) \cup ConcreteReceivers(ports)
      PROVE  p[1] \in Atomic \cup {TopLevel}
  <2>1. p \in ports /\ ~ IsPlaceholderPort(p)
    BY <1>2, ConcretePorts
  <2>2. p[1] \in Component
    BY <2>1, HierarchyAssumption DEF AnyPort
  <2> QED
    BY <2>1, <2>2 DEF Component, IsPlaceholderPort
<1>3. ASSUME NEW k \in Signals
      PROVE  k[1][1][1] \in Atomic \cup {TopLevel} /\ k[2][1][1] \in Atomic \cup {TopLevel}
  <2>1. k[1] \in AudioSenders /\ k[2] \in AudioReceivers
    BY DEF Signals
  <2>2. k[1][1] \in ConcreteSenders(AudioPort) /\ k[2][1] \in ConcreteReceivers(AudioPort)
    BY <2>1, ChannelsOfPorts DEF AudioSenders, AudioReceivers
  <2>3. AudioPort \in SUBSET AnyPort
    BY DEF AnyPort
  <2> QED
    BY <1>2, <2>2, <2>3
<1>4. ASSUME NEW k \in ParameterPaths
      PROVE  k[1][1] \in Atomic \cup {TopLevel} /\ k[2][1] \in Atomic \cup {TopLevel}
  <2>1. k[1] \in ConcreteSenders(ParameterPort) /\ k[2] \in ConcreteReceivers(ParameterPort)
    BY DEF ParameterPaths
  <2>2. ParameterPort \in SUBSET AnyPort
    BY DEF AnyPort
  <2> QED
    BY <1>2, <2>1, <2>2
<1> QED
  BY <1>1, <1>3, <1>4

\* A routing component comes between the senders and the receiver of signals.
ToRouting(d) ==
  \E k \in Signals : /\ k[2][1] \in DOMAIN routings /\ d = <<k[1][1][1], Routing(k[2][1])>>
                     /\ k[1][1][1] \in Atomic
FromRouting(d) ==
  \E p \in DOMAIN routings : d = <<Routing(p), p[1]>> /\ p[1] \in Atomic

LEMMA DependencyKinds ==
  ASSUME FlowInv, phase = "schedule",
         NEW d \in Dependencies(finalConnections, ToSet(parameterFlat))
  PROVE  /\ d = <<d[1], d[2]>>
         /\ \/ /\ d \in Dependencies(Signals, ParameterPaths)
               /\ d[1] \in Atomic /\ d[2] \in Atomic
            \/ ToRouting(d)
            \/ FromRouting(d)
<1>1. MapInv /\ BufferInv /\ audioFlat = Signals
  BY FlatIsSignals DEF FlowInv
<1>2. /\ TopLevel \notin {d[1], d[2]}
      /\ \/ \E c \in finalConnections : d = <<c[1][1][1], c[2][1][1]>>
         \/ \E k \in ToSet(parameterFlat) : d = <<k[1][1], k[2][1]>>
  BY DEF Dependencies
<1>3. d = <<d[1], d[2]>> /\ d[1] # TopLevel /\ d[2] # TopLevel
  BY <1>2
<1>4. ASSUME NEW k \in ToSet(parameterFlat), d = <<k[1][1], k[2][1]>>
      PROVE  d \in Dependencies(Signals, ParameterPaths) /\ d[1] \in Atomic /\ d[2] \in Atomic
  <2>1. k \in ParameterPaths
    <3>1. PICK i \in DOMAIN parameterFlat : k = parameterFlat[i]
      BY <1>4 DEF ToSet
    <3>2. /\ parameterFlat[i] \in ParameterSenders \X ParameterReceivers
          /\ Reaches(ParameterConnections, ParameterPlaceholders,
                     parameterFlat[i][1], parameterFlat[i][2])
      BY <1>1 DEF MapInv, ParameterFlatOK
    <3> QED
      BY <3>1, <3>2 DEF ParameterPaths, ParameterSenders, ParameterReceivers, ParameterPlaceholders
  <2>2. k[1][1] \in Atomic /\ k[2][1] \in Atomic
    BY <1>3, <1>4, <2>1, ConcreteComponents
  <2> QED
    BY <1>2, <1>4, <2>1, <2>2 DEF Dependencies
<1>5. ASSUME NEW c \in finalConnections, d = <<c[1][1][1], c[2][1][1]>>
      PROVE  \/ /\ d \in Dependencies(Signals, ParameterPaths)
                /\ d[1] \in Atomic /\ d[2] \in Atomic
             \/ ToRouting(d)
             \/ FromRouting(d)
  <2>1. CASE c \in audioFlat
    <3>1. c \in Signals
      BY <1>1, <2>1
    <3>2. c[1][1][1] \in Atomic /\ c[2][1][1] \in Atomic
      BY <1>3, <1>5, <3>1, ConcreteComponents
    <3> QED
      BY <1>2, <1>5, <3>1, <3>2 DEF Dependencies
  <2>2. ASSUME NEW k \in audioFlat, k[2][1] \in DOMAIN routings,
               c[1] = k[1], c[2][1] = RoutingIn(k[2][1])
        PROVE  ToRouting(d)
    <3>1. d = <<k[1][1][1], Routing(k[2][1])>>
      BY <1>5, <2>2 DEF RoutingIn
    <3>2. k \in Signals
      BY <1>1
    <3>3. k[1][1][1] \in Atomic
      BY <1>3, <3>1, <3>2, ConcreteComponents
    <3> QED
      BY <2>2, <3>1, <3>2, <3>3 DEF ToRouting
  <2>3. ASSUME NEW p \in DOMAIN routings, c[1][1] = RoutingOut(p), c[2][1] = p
        PROVE  FromRouting(d)
    <3>1. d = <<Routing(p), p[1]>>
      BY <1>5, <2>3 DEF RoutingOut
    <3>2. p \in ConcreteReceivers(AudioPort)
      BY <1>1 DEF BufferInv, RoutingsOK
    <3>3. p[1] \in Component /\ ~ IsPlaceholderPort(p)
      BY <3>2, ConcretePorts, HierarchyAssumption
    <3>4. p[1] \in Atomic
      BY <1>3, <3>1, <3>3 DEF Component, IsPlaceholderPort
    <3> QED
      BY <3>1, <3>4 DEF FromRouting
  <2> QED
    BY <1>1, <2>1, <2>2, <2>3 DEF BufferInv, FinalOK
<1> QED
  BY <1>2, <1>3, <1>4, <1>5

\* Routing components that wait for each other and for atomic ones would do so
\* without the routing components, too.
LEMMA LoopWithoutRouting ==
  ASSUME FlowInv, phase = "schedule",
         Loop(Components, Dependencies(finalConnections, ToSet(parameterFlat)))
  PROVE  Loop(Atomic, Dependencies(Signals, ParameterPaths))
<1> DEFINE D == Dependencies(finalConnections, ToSet(parameterFlat))
           B == Dependencies(Signals, ParameterPaths)
<1>1. PICK S \in SUBSET Components : S # {} /\ \A q \in S : \E p \in S : <<p, q>> \in D
  BY DEF Loop
<1> DEFINE T == S \cap Atomic
<1>2. /\ \A p \in DOMAIN routings : p \in AudioPort /\ Routing(p) \notin Atomic
      /\ \A p, r \in DOMAIN routings : Routing(p) = Routing(r) => p = r
  <2>1. DOMAIN routings \subseteq AudioPort
    BY ConcretePorts DEF FlowInv, BufferInv, RoutingsOK
  <2>2. \A p \in AudioPort : Routing(p) \notin Atomic
    BY RoutingNameAssumption DEF Routing, Component
  <2>3. \A p, r \in AudioPort : Routing(p) = Routing(r) => p = r
    BY RoutingPorts DEF RoutingOut
  <2> QED
    BY <2>1, <2>2, <2>3
<1>3. ASSUME NEW p, NEW q, <<p, q>> \in D
      PROVE  \/ <<p, q>> \in B /\ p \in Atomic /\ q \in Atomic
             \/ \E k \in Signals : /\ k[2][1] \in DOMAIN routings /\ p = k[1][1][1]
                                   /\ q = Routing(k[2][1]) /\ p \in Atomic
             \/ \E r \in DOMAIN routings : p = Routing(r) /\ q = r[1] /\ q \in Atomic
  <2> DEFINE d == <<p, q>>
  <2>1. d[1] = p /\ d[2] = q
    OBVIOUS
  <2> HIDE DEF d
  <2>2. \/ d \in B /\ d[1] \in Atomic /\ d[2] \in Atomic
        \/ ToRouting(d)
        \/ FromRouting(d)
    BY <1>3, DependencyKinds DEF d
  <2>3. ASSUME ToRouting(d)
        PROVE  \E k \in Signals : /\ k[2][1] \in DOMAIN routings /\ p = k[1][1][1]
                                  /\ q = Routing(k[2][1]) /\ p \in Atomic
    BY <2>1, <2>3 DEF ToRouting
  <2>4. ASSUME FromRouting(d)
        PROVE  \E r \in DOMAIN routings : p = Routing(r) /\ q = r[1] /\ q \in Atomic
    BY <2>1, <2>4 DEF FromRouting
  <2> QED
    BY <2>1, <2>2, <2>3, <2>4 DEF d
<1> HIDE DEF D, B
\* A routing component in S is preceded by an atomic one.
<1>4. ASSUME NEW r \in DOMAIN routings, Routing(r) \in S
      PROVE  \E k \in Signals : k[2][1] = r /\ k[1][1][1] \in T
  <2>1. PICK p \in S : <<p, Routing(r)>> \in D
    BY <1>1, <1>4
  <2>2. Routing(r) \notin Atomic
    BY <1>2
  <2>3. PICK k \in Signals : /\ k[2][1] \in DOMAIN routings /\ p = k[1][1][1]
                             /\ Routing(r) = Routing(k[2][1]) /\ p \in Atomic
    BY <1>3, <2>1, <2>2
  <2>4. k[2][1] = r
    BY <1>2, <2>3
  <2> QED
    BY <2>1, <2>3, <2>4
<1>5. T # {}
  <2>1. PICK q \in S : TRUE
    BY <1>1
  <2>2. q \in Atomic \/ \E r \in DOMAIN routings : q = Routing(r)
    BY <1>1 DEF Components
  <2> QED
    BY <1>4, <2>1, <2>2
<1>6. ASSUME NEW q \in T
      PROVE  \E p \in T : <<p, q>> \in B
  <2>1. PICK p \in S : <<p, q>> \in D
    BY <1>1
  <2>2. CASE <<p, q>> \in B /\ p \in Atomic
    BY <2>2
  <2>3. ASSUME NEW r \in DOMAIN routings, p = Routing(r), q = r[1]
        PROVE  \E x \in T : <<x, q>> \in B
    <3>1. PICK k \in Signals : k[2][1] = r /\ k[1][1][1] \in T
      BY <1>4, <2>1, <2>3
    <3>2. k[1][1][1] # TopLevel /\ q # TopLevel
      BY <3>1, ConcreteComponents
    <3>3. <<k[1][1][1], q>> = <<k[1][1][1], k[2][1][1]>>
      BY <2>3, <3>1
    <3>4. <<k[1][1][1], q>> \in B
      BY <3>2, <3>3 DEF B, Dependencies
    <3> QED
      BY <3>1, <3>4
  <2>4. \A r \in DOMAIN routings : q # Routing(r)
    BY <1>2
  <2> QED
    BY <1>3, <2>1, <2>2, <2>3, <2>4
<1>7. T \in SUBSET Atomic
  OBVIOUS
<1> HIDE DEF T
<1> QED
  BY <1>5, <1>6, <1>7 DEF Loop, B

LEMMA ScheduleCause ==
  ASSUME FlowInv, phase = "schedule", Schedules = {}
  PROVE  FlowDefect
<1> DEFINE D == Dependencies(finalConnections, ToSet(parameterFlat))
<1>1. BufferInv /\ DOMAIN routings \subseteq AudioPort
  BY ConcretePorts DEF FlowInv, BufferInv, RoutingsOK
<1>2. ASSUME NEW d \in D
      PROVE  d = <<d[1], d[2]>> /\ d[1] \in Components /\ d[2] \in Components
  <2>1. ASSUME ToRouting(d)
        PROVE  d[1] \in Components /\ d[2] \in Components
    BY <2>1 DEF ToRouting, Components
  <2>2. ASSUME FromRouting(d)
        PROVE  d[1] \in Components /\ d[2] \in Components
    BY <2>2 DEF FromRouting, Components
  <2> QED
    BY <2>1, <2>2, DependencyKinds DEF Components
<1>3. IsFiniteSet(Components)
  BY <1>1, ComponentsFinite
<1>4. ASSUME ~ Loop(Components, D)
      PROVE  FALSE
  <2> HIDE DEF D
  <2>1. PICK f : Ordered(Components, D, Cardinality(Components), f)
    BY <1>2, <1>3, <1>4, SortedWithoutLoop
  <2>2. f \in Schedules
    BY <1>1, <1>2, <2>1, OrderedIsSchedule DEF D
  <2> QED
    BY <2>2
<1>5. Loop(Atomic, Dependencies(Signals, ParameterPaths))
  BY <1>4, LoopWithoutRouting
<1> QED
  BY <1>5 DEF FlowDefect

-----------------------------------------------------------------------------
(* Every step that refuses the flow.                                       *)

\* A walk always finds something at its first placeholder.
LEMMA FirstStepFound ==
  ASSUME MapInv, LookAtAudioConnection \/ LookAtParameterConnection
  PROVE  phase' # "rejected"
<1>1. FlowOK /\ PendingOK
  BY DEF MapInv
<1>2. CASE LookAtAudioConnection
  <2> DEFINE k == CHOOSE c \in pending : TRUE
             C == AudioConnections
  <2>1. phase = "audio" /\ k \in pending /\ Checked
    BY <1>1, <1>2 DEF LookAtAudioConnection, FlowOK
  <2>2. phase' = phase \/ (IsPlaceholderPort(k[1][1]) /\ WalkOn(C, k[2], <<k[1]>>))
    BY <1>2 DEF LookAtAudioConnection
  <2> HIDE DEF k
  <2>3. k \in C
    BY <1>1, <2>1 DEF PendingOK
  <2>4. ASSUME IsPlaceholderPort(k[1][1]), WalkOn(C, k[2], <<k[1]>>)
        PROVE  phase' = phase
    <3>1. k[1] \in AudioPlaceholders
      BY <2>1, <2>3, <2>4, AudioConnectionsKnown, Disjoint
    <3>2. Last(<<k[1]>>) = k[1]
      BY DEF Last
    <3>3. \E s : <<s, Last(<<k[1]>>)>> \in C
      BY <2>1, <3>1, <3>2, AudioConnectionsKnown
    <3>4. \A c \in C : c = <<c[1], c[2]>> /\ c[1] # Nowhere
      BY <2>1, AudioConnectionsKnown
    <3> QED
      BY <2>4, <3>3, <3>4, WalkGoesOn
  <2> QED
    BY <2>1, <2>2, <2>4
<1>3. CASE LookAtParameterConnection
  <2> DEFINE e == CHOOSE c \in pending : TRUE
             k == e[1]
             C == ParameterConnections
  <2>1. phase = "parameters" /\ e \in pending /\ Checked /\ flow \in Flows
    BY <1>1, <1>3 DEF LookAtParameterConnection, FlowOK
  <2>2. phase' = phase \/ (IsPlaceholderPort(k[1]) /\ WalkOn(C, k[2], <<k[1]>>))
    BY <1>3 DEF LookAtParameterConnection
  <2> HIDE DEF e
  <2>3. k \in C
    BY <1>1, <2>1, EntriesOfConnections DEF PendingOK
  <2> HIDE DEF k
  <2>4. ASSUME IsPlaceholderPort(k[1]), WalkOn(C, k[2], <<k[1]>>)
        PROVE  phase' = phase
    <3>1. k[1] \in ParameterPlaceholders
      BY <2>1, <2>3, <2>4, ParameterConnectionsKnown, Disjoint
    <3>2. Last(<<k[1]>>) = k[1]
      BY DEF Last
    <3>3. \E s : <<s, Last(<<k[1]>>)>> \in C
      BY <2>1, <3>1, <3>2, ParameterConnectionsKnown
    <3>4. \A c \in C : c = <<c[1], c[2]>> /\ c[1] # Nowhere
      BY <2>1, ParameterConnectionsKnown
    <3> QED
      BY <2>4, <3>3, <3>4, WalkGoesOn
  <2> QED
    BY <2>1, <2>2, <2>4
<1> QED
  BY <1>2, <1>3

LEMMA RejectingStep ==
  ASSUME FlowInv, Next, phase # "rejected", phase' = "rejected"
  PROVE  FlowDefect
<1>1. MapInv /\ BufferInv /\ FlowOK
  BY DEF FlowInv, MapInv
<1>2. CASE CheckConnectionIntegrity
  <2>1. ~ Checked
    BY <1>2 DEF CheckConnectionIntegrity, Checked
  <2> QED
    BY <1>1, <2>1, IntegrityCause DEF FlowOK
<1>3. CASE LookAtAudioConnection \/ LookAtParameterConnection
  BY <1>1, <1>3, FirstStepFound
<1>4. CASE FollowAudio
  BY <1>1, <1>4, AudioWalkCause
<1>5. CASE FollowParameter
  BY <1>1, <1>5, ParameterWalkCause
<1>6. CASE ArriveAudio \/ EndAudio \/ ArriveParameter \/ EndParameters
  BY <1>6 DEF ArriveAudio, EndAudio, ArriveParameter, EndParameters
<1>7. ASSUME NEW p, PlaceSendPort(p) \/ PlaceReceivePort(p) \/ InsertRouting(p)
      PROVE  FlowDefect
  BY <1>7 DEF PlaceSendPort, PlaceReceivePort, InsertRouting
<1>8. ASSUME NEW p, RefuseSenders(p)
      PROVE  FlowDefect
  BY <1>1, <1>8, SampleTypeCause
<1>9. CASE EndType
  BY <1>9 DEF EndType
<1>10. CASE AssignBuffers
  BY <1>1, <1>10, BuffersAssigned
<1>11. CASE InitialiseParameterInfrastructure
  <2>1. ~ ProtocolsConnect
    BY <1>11 DEF InitialiseParameterInfrastructure
  <2> QED
    BY <1>1, <2>1, ProtocolCause
<1>12. CASE InitialiseSchedule
  <2>1. phase = "schedule" /\ Schedules = {}
    BY <1>12 DEF InitialiseSchedule
  <2> QED
    BY <2>1, ScheduleCause
<1>13. CASE BeginPeriod \/ ExecuteComponent \/ EndPeriod
  BY <1>13 DEF BeginPeriod, ExecuteComponent, EndPeriod
<1>14. CASE ResolveStep
  BY <1>2, <1>3, <1>4, <1>5, <1>6, <1>14 DEF ResolveStep
<1>15. CASE BufferStep
  BY <1>7, <1>8, <1>9, <1>10, <1>15 DEF BufferStep
<1> QED
  BY <1>11, <1>12, <1>13, <1>14, <1>15 DEF Next, Construct

LEMMA RejectionInductive ==
  ASSUME FlowInv, RejectedForCause, [Next]_vars
  PROVE  RejectedForCause'
<1>1. flow' = flow
  BY DEF vars, Next, Construct, ResolveStep, CheckConnectionIntegrity, LookAtAudioConnection,
         FollowAudio, ArriveAudio, EndAudio, LookAtParameterConnection, FollowParameter,
         ArriveParameter, EndParameters, BufferStep, PlaceSendPort, PlaceReceivePort,
         InsertRouting, RefuseSenders, EndType, AssignBuffers,
         InitialiseParameterInfrastructure, InitialiseSchedule, BeginPeriod, ExecuteComponent,
         EndPeriod
<1>2. FlowDefect' <=> FlowDefect
  BY <1>1, DefectsUnchanged
<1>3. ASSUME phase' = "rejected"
      PROVE  FlowDefect
  <2>1. CASE phase = "rejected"
    BY <2>1 DEF RejectedForCause
  <2>2. CASE phase # "rejected"
    <3>1. Next
      BY <1>3, <2>2 DEF vars
    <3> QED
      BY <1>3, <2>2, <3>1, RejectingStep
  <2> QED
    BY <2>1, <2>2
<1> QED
  BY <1>2, <1>3 DEF RejectedForCause

\* The constructor refuses a flow only for a defect of that flow, in hierarchies of any
\* depth with any connections: neither the memory it assigns nor the routing components it
\* inserts, nor the order in which it looks at the connections, makes it throw.
THEOREM OnlyDefectsRejected == Spec => []RejectedForCause
<1>1. Init => RejectedForCause
  BY DEF Init, RejectedForCause
<1>2. FlowInv /\ RejectedForCause /\ [Next]_vars => RejectedForCause'
  BY RejectionInductive
<1> QED
  BY <1>1, <1>2, FlowInvariant, PTL DEF Spec
=============================================================================
