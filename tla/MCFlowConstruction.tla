------------------------- MODULE MCFlowConstruction -------------------------
(***************************************************************************)
(* The top level has one input and two outputs and contains a composite C  *)
(* and an atomic component B; C contains the atomic component A.  A has an *)
(* input of two channels and an output of one, B the other way round.      *)
(***************************************************************************)
EXTENDS FlowConstruction

T == <<>>
C == <<"C">>
B == <<"B">>
A == <<"C", "A">>

MCAtomic    == {A, B}
MCComposite == {T, C}

MCWidth ==
  (<<T, "in">> :> 1) @@ (<<T, "out">> :> 2) @@ (<<C, "in">> :> 2) @@ (<<C, "out">> :> 1) @@
  (<<A, "in">> :> 2) @@ (<<A, "out">> :> 1) @@ (<<B, "in">> :> 1) @@ (<<B, "out">> :> 2)

MCAudioPort == DOMAIN MCWidth

MCParameterPort ==
  {<<T, "pin">>, <<T, "pout">>, <<C, "pin">>, <<C, "pout">>, <<A, "pin">>, <<A, "pout">>,
   <<B, "pin">>}

MCInput == {p \in MCAudioPort \cup MCParameterPort : p[2] \in {"in", "pin"}}

ChannelsOf(p) == {<<p, i>> : i \in 0 .. MCWidth[p] - 1}

Once(table) == [k \in table |-> 1]

\* A table in which each receiving channel has the sender that f names.
Table(f) == Once({<<f[r], r>> : r \in DOMAIN f})

TopSends    == UNION {ChannelsOf(p) : p \in {<<T, "in">>, <<C, "out">>, <<B, "out">>}}
TopReceives == UNION {ChannelsOf(p) : p \in {<<T, "out">>, <<C, "in">>, <<B, "in">>}}
InnerSends    == UNION {ChannelsOf(p) : p \in {<<C, "in">>, <<A, "out">>}}
InnerReceives == UNION {ChannelsOf(p) : p \in {<<C, "out">>, <<A, "in">>}}

\* Complete connections: each send channel is used.
TopAudio   == {Table(f) : f \in Surjection(TopReceives, TopSends)}
InnerAudio == {Table(f) : f \in Surjection(InnerReceives, InnerSends)}

In  == <<<<T, "in">>, 0>>
Out(i) == <<<<T, "out">>, i>>

\* A flow without loops: in -> C -> B -> out.
PlainTop ==
  Once({<<In, <<<<C, "in">>, 0>>>>, <<In, <<<<C, "in">>, 1>>>>,
        <<<<<<C, "out">>, 0>>, <<<<B, "in">>, 0>>>>,
        <<<<<<B, "out">>, 0>>, Out(0)>>, <<<<<<B, "out">>, 1>>, Out(1)>>})

PlainInner ==
  Once({<<<<<<C, "in">>, i>>, <<<<A, "in">>, i>>>> : i \in 0 .. 1}
       \cup {<<<<<<A, "out">>, 0>>, <<<<C, "out">>, 0>>>>})

\* Defective tables: a connection missing, doubled, registered twice, at the
\* wrong side of a port, and a send channel that is not used.
DefectiveTop ==
  {Once(DOMAIN PlainTop \ {k}) : k \in DOMAIN PlainTop}
  \cup {[PlainTop EXCEPT ![k] = 2] : k \in DOMAIN PlainTop}
  \cup {PlainTop @@ (k :> 1) : k \in {<<In, Out(0)>>, <<In, In>>, <<Out(1), In>>}}

Float  == [p \in MCAudioPort |-> "float"]

\* B processes samples of another type than the ports it is connected to.
DoubleComponent == [Float EXCEPT ![<<B, "in">>] = "double", ![<<B, "out">>] = "double"]

\* B converts samples for A.
DoubleSignal ==
  [Float EXCEPT ![<<B, "out">>] = "double", ![<<C, "in">>] = "double", ![<<A, "in">>] = "double"]

Buffered == [p \in MCParameterPort |-> "DoubleBuffering"]
Queued   == [p \in MCParameterPort |-> "MessageQueue"]
Mixed    == [Buffered EXCEPT ![<<B, "pin">>] = "MessageQueue"]

\* Every relation in which each port is used.
Covering(senders, receivers) ==
  {k \in SUBSET (senders \X receivers) :
     {c[1] : c \in k} = senders /\ {c[2] : c \in k} = receivers}

TopParameters ==
  {Once(k) : k \in Covering({<<T, "pin">>, <<C, "pout">>},
                            {<<T, "pout">>, <<C, "pin">>, <<B, "pin">>})}

InnerParameters ==
  {Once(k) : k \in Covering({<<C, "pin">>, <<A, "pout">>}, {<<C, "pout">>, <<A, "pin">>})}

PlainTopParameter ==
  Once({<<<<T, "pin">>, <<C, "pin">>>>, <<<<T, "pin">>, <<B, "pin">>>>,
        <<<<C, "pout">>, <<T, "pout">>>>})

PlainInnerParameter ==
  Once({<<<<C, "pin">>, <<A, "pin">>>>, <<<<A, "pout">>, <<C, "pout">>>>})

DefectiveTopParameters ==
  {Once(DOMAIN PlainTopParameter \ {k}) : k \in DOMAIN PlainTopParameter}
  \cup {[PlainTopParameter EXCEPT ![k] = 2] : k \in DOMAIN PlainTopParameter}
  \cup {PlainTopParameter @@ (<<<<T, "pout">>, <<T, "pin">>>> :> 1)}

FlowRecord(top, inner, types, topParameter, innerParameter, protocols) ==
  [audio |-> (T :> top) @@ (C :> inner), sampleType |-> types,
   parameter |-> (T :> topParameter) @@ (C :> innerParameter), protocol |-> protocols]

MCFlows ==
  {FlowRecord(t, i, Float, PlainTopParameter, PlainInnerParameter, Buffered) :
     t \in TopAudio, i \in InnerAudio}
  \cup {FlowRecord(t, PlainInner, y, PlainTopParameter, PlainInnerParameter, Buffered) :
     t \in TopAudio, y \in {DoubleComponent, DoubleSignal}}
  \cup {FlowRecord(t, PlainInner, Float, PlainTopParameter, PlainInnerParameter, Buffered) :
     t \in DefectiveTop}
  \cup {FlowRecord(PlainTop, PlainInner, Float, t, i, q) :
     t \in TopParameters, i \in InnerParameters, q \in {Buffered, Queued}}
  \cup {FlowRecord(PlainTop, PlainInner, Float, t, PlainInnerParameter, q) :
     t \in DefectiveTopParameters, q \in {Buffered, Mixed}}

\* Both channels of B, of another sample type, go to the two channels of A.
MCUnequalFlows ==
  {FlowRecord(Once({<<In, Out(0)>>, <<<<<<C, "out">>, 0>>, Out(1)>>, <<In, <<<<B, "in">>, 0>>>>}
                   \cup {<<<<<<B, "out">>, i>>, <<<<C, "in">>, i>>>> : i \in 0 .. 1}),
              PlainInner, [Float EXCEPT ![<<B, "out">>] = "double"],
              PlainTopParameter, PlainInnerParameter, Buffered)}

MCSampleTypes == <<"float", "double">>
MCSampleSize == ("float" :> 1) @@ ("double" :> 2)
MCChannelSamples == [t \in ToSet(MCSampleTypes) |-> 2]
=============================================================================
