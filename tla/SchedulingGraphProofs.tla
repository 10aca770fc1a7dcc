----------------------- MODULE SchedulingGraphProofs ------------------------
(***************************************************************************)
(* Every schedule the scheduling graph yields is valid, and every flow it  *)
(* refuses has a delay-free loop, for any flow.                            *)
(***************************************************************************)
EXTENDS SchedulingGraph, ProcessingOrders, CommonProofs

-----------------------------------------------------------------------------
(* Facts about sequences.                                                  *)

\* What a step of the search or of the loop that builds the schedule appends.
LEMMA AppendedLast ==
  ASSUME NEW S, NEW s \in Seq(S), NEW x \in S
  PROVE  /\ Append(s, x) \in Seq(S)
         /\ Len(Append(s, x)) = Len(s) + 1
         /\ \A i \in 1 .. Len(s) : Append(s, x)[i] = s[i]
         /\ Append(s, x)[Len(s) + 1] = x
         /\ ToSet(Append(s, x)) = ToSet(s) \cup {x}
<1>1. /\ Append(s, x) \in Seq(S)
      /\ Len(Append(s, x)) = Len(s) + 1
      /\ \A i \in 1 .. Len(s) : Append(s, x)[i] = s[i]
      /\ Append(s, x)[Len(s) + 1] = x
  BY AppendProperties
<1>2. DOMAIN s = 1 .. Len(s) /\ Len(s) \in Nat /\ DOMAIN Append(s, x) = 1 .. Len(s) + 1
  BY <1>1, LenProperties
<1>3. ToSet(Append(s, x)) = ToSet(s) \cup {x}
  BY <1>1, <1>2 DEF ToSet
<1> QED
  BY <1>1, <1>3

\* A vertex not yet in an injective sequence may be appended to it.
LEMMA AppendingNew ==
  ASSUME NEW S, NEW s \in Seq(S), NEW x \in S, IsInjective(s), x \notin ToSet(s)
  PROVE  IsInjective(Append(s, x))
<1>1. DOMAIN s = 1 .. Len(s) /\ Len(s) \in Nat
  BY LenProperties
<1>2. DOMAIN Append(s, x) = 1 .. Len(s) + 1
  BY AppendedLast, LenProperties
<1>3. \A i \in 1 .. Len(s) : s[i] # x
  BY <1>1 DEF ToSet
<1> QED
  BY <1>1, <1>2, <1>3, AppendedLast DEF IsInjective

\* Taking the last element from an injective sequence.
LEMMA Popping ==
  ASSUME NEW S, NEW s \in Seq(S), s # <<>>, IsInjective(s)
  PROVE  /\ Last(s) \in S
         /\ Last(s) \in ToSet(s)
         /\ Front(s) \in Seq(S)
         /\ Len(Front(s)) = Len(s) - 1
         /\ \A i \in 1 .. Len(s) - 1 : Front(s)[i] = s[i]
         /\ IsInjective(Front(s))
         /\ ToSet(Front(s)) = ToSet(s) \ {Last(s)}
<1>1. DOMAIN s = 1 .. Len(s) /\ Len(s) \in Nat /\ Len(s) # 0
  BY LenProperties, EmptySeq
<1>2. Last(s) = s[Len(s)] /\ Len(s) \in DOMAIN s
  BY <1>1 DEF Last
<1>3. Last(s) \in S /\ Last(s) \in ToSet(s)
  BY <1>1, <1>2, ElementOfSeq DEF ToSet
<1>4. /\ Front(s) \in Seq(S)
      /\ Len(Front(s)) = Len(s) - 1
      /\ \A i \in 1 .. Len(s) - 1 : Front(s)[i] = s[i]
  BY <1>1, SubSeqProperties DEF Front
<1>5. DOMAIN Front(s) = 1 .. Len(s) - 1
  BY <1>4, LenProperties
<1>6. IsInjective(Front(s))
  BY <1>1, <1>4, <1>5 DEF IsInjective
<1>7. ToSet(Front(s)) = ToSet(s) \ {Last(s)}
  BY <1>1, <1>2, <1>4, <1>5 DEF ToSet, IsInjective
<1> QED
  BY <1>3, <1>4, <1>6, <1>7

-----------------------------------------------------------------------------
(* The inductive invariant.                                                *)

LEMMA InitIInv == Init => IInv
<1> SUFFICES ASSUME Init PROVE IInv
  OBVIOUS
<1>1. \A S : <<>> \in Seq(S)
  BY EmptySeq
<1>2. TypeOK
  BY <1>1 DEF Init, TypeOK
<1>3. Once /\ DependentsFirst /\ ReverseOrder
  BY DEF Init, Once, DependentsFirst, ReverseOrder, IsInjective, Gray, Black, ToSet
<1> QED
  BY <1>2, <1>3 DEF Init, IInv, EdgesBuilt, NothingFinished, AllFinished

\* A step that leaves the search alone: the dependency graph is built.
LEMMA InitialiseIInv == IInv /\ Initialise => IInv'
<1> SUFFICES ASSUME IInv, Initialise PROVE IInv'
  OBVIOUS
<1>1. finished' = finished /\ stack' = stack /\ schedule' = schedule /\ remaining' = remaining
  BY DEF Initialise, searchVars, buildVars
<1>2. TypeOK'
  <2>1. Dependencies \subseteq Component \X Component
    BY GraphAssumption DEF IInv, TypeOK, Dependencies
  <2>2. \A v \in Atom \cup {Sink} : Predecessors(v) \subseteq Atom
    BY <2>1, GraphAssumption DEF Predecessors, Dependencies, Component
  <2>3. \A v \in Atom \cup {Sink} : {<<p, v>> : p \in Predecessors(v)} \subseteq Vertex \X Vertex
    BY <2>2 DEF Vertex
  <2>4. DependencyEdges \subseteq Vertex \X Vertex
    BY <2>3 DEF DependencyEdges, Vertex
  <2> QED
    BY <1>1, <2>4 DEF IInv, TypeOK, Initialise, flowVars
<1>3. DependencyEdges' = DependencyEdges
  BY DEF Initialise, flowVars, DependencyEdges, Predecessors, Successors, Dependencies
<1>4. EdgesBuilt' /\ Once' /\ AllFinished' /\ ReverseOrder'
  BY <1>1, <1>3 DEF IInv, Initialise, EdgesBuilt, Once, AllFinished, ReverseOrder, Gray, Black
<1>5. NothingFinished' /\ DependentsFirst'
  BY <1>1 DEF IInv, Initialise, NothingFinished, DependentsFirst
<1> QED
  BY <1>2, <1>4, <1>5 DEF IInv, Initialise

\* Steps that change nothing but the phase, and do not build a schedule.
LEMMA PhaseIInv ==
  ASSUME IInv, phase # "connected", UNCHANGED <<flowVars, edges, searchVars, buildVars>>,
         phase \notin {"build", "scheduled"}, phase' \in {"sort", "rejected"}
  PROVE  IInv'
<1>1. DependencyEdges' = DependencyEdges
  BY DEF flowVars, DependencyEdges, Predecessors, Successors, Dependencies
<1>2. TypeOK'
  BY DEF IInv, TypeOK, flowVars, searchVars, buildVars
<1>3. EdgesBuilt' /\ NothingFinished' /\ Once' /\ DependentsFirst' /\ AllFinished' /\ ReverseOrder'
  BY <1>1 DEF IInv, EdgesBuilt, NothingFinished, Once, DependentsFirst, AllFinished, ReverseOrder,
              Gray, Black, searchVars, buildVars
<1> QED
  BY <1>2, <1>3 DEF IInv

\* A vertex that is neither gray nor black becomes gray.
LEMMA DiscoverIInv ==
  ASSUME IInv, NEW v \in White, phase = "sort", stack' = Append(stack, v),
         UNCHANGED <<flowVars, phase, edges, finished, buildVars>>
  PROVE  IInv'
<1>1. v \in Vertex /\ v \notin ToSet(stack) /\ v \notin Black
  BY DEF White, Gray
<1>2. stack \in Seq(Vertex) /\ IsInjective(stack) /\ Gray \cap Black = {}
  BY DEF IInv, TypeOK, Once
<1>3. /\ stack' \in Seq(Vertex)
      /\ IsInjective(stack')
      /\ ToSet(stack') = ToSet(stack) \cup {v}
  BY <1>1, <1>2, AppendedLast, AppendingNew
<1>4. DependencyEdges' = DependencyEdges
  BY DEF flowVars, DependencyEdges, Predecessors, Successors, Dependencies
<1>5. TypeOK'
  BY <1>3 DEF IInv, TypeOK, flowVars, buildVars
<1>6. Once'
  BY <1>1, <1>2, <1>3 DEF IInv, Once, Gray, Black
<1>7. EdgesBuilt' /\ NothingFinished' /\ DependentsFirst' /\ AllFinished' /\ ReverseOrder'
  BY <1>4 DEF IInv, EdgesBuilt, NothingFinished, DependentsFirst, AllFinished, ReverseOrder,
              Black, buildVars
<1> QED
  BY <1>5, <1>6, <1>7 DEF IInv

\* The vertex on top of the stack, all of whose successors are black, is finished.
LEMMA FinishIInv == IInv /\ Finish => IInv'
<1> SUFFICES ASSUME IInv, Finish PROVE IInv'
  OBVIOUS
<1> DEFINE v == Last(stack)
<1>1. /\ phase = "sort" /\ phase' = phase /\ edges' = edges
      /\ finished' = Append(finished, v) /\ stack' = Front(stack)
      /\ remaining' = remaining /\ schedule' = schedule
  BY DEF Finish, buildVars
<1>2. /\ stack \in Seq(Vertex) /\ stack # <<>> /\ IsInjective(stack)
      /\ finished \in Seq(Vertex) /\ IsInjective(finished) /\ Gray \cap Black = {}
  BY DEF IInv, TypeOK, Once, Finish
<1>3. /\ v \in Vertex /\ v \in Gray
      /\ stack' \in Seq(Vertex) /\ IsInjective(stack')
      /\ Gray' = Gray \ {v}
  BY <1>1, <1>2, Popping DEF Gray
<1> HIDE DEF v
<1>4. v \notin Black
  BY <1>2, <1>3
<1>5. /\ finished' \in Seq(Vertex)
      /\ Len(finished') = Len(finished) + 1
      /\ \A i \in 1 .. Len(finished) : finished'[i] = finished[i]
      /\ finished'[Len(finished) + 1] = v
      /\ Black' = Black \cup {v}
  BY <1>1, <1>2, <1>3, AppendedLast DEF Black
<1>6. IsInjective(finished')
  BY <1>1, <1>2, <1>3, <1>4, AppendingNew DEF Black
<1>7. DOMAIN finished = 1 .. Len(finished) /\ Len(finished) \in Nat
      /\ DOMAIN finished' = 1 .. Len(finished) + 1
  BY <1>2, <1>5, LenProperties
<1>8. DependencyEdges' = DependencyEdges
  BY DEF Finish, flowVars, DependencyEdges, Predecessors, Successors, Dependencies
<1>9. TypeOK'
  BY <1>1, <1>3, <1>5, <1>7 DEF IInv, TypeOK, Finish, flowVars
<1>10. Once'
  BY <1>2, <1>3, <1>5, <1>6 DEF Once
<1>11. DependentsFirst'
  <2> SUFFICES ASSUME NEW i \in 1 .. Len(finished) + 1, NEW w \in Vertex,
                      <<finished'[i], w>> \in edges
               PROVE  \E j \in 1 .. i - 1 : finished'[j] = w
    BY <1>1, <1>7 DEF DependentsFirst
  <2>1. CASE i \in 1 .. Len(finished)
    <3>1. PICK j \in 1 .. i - 1 : finished[j] = w
      BY <1>5, <1>7, <2>1 DEF IInv, DependentsFirst
    <3> QED
      BY <1>5, <1>7, <2>1, <3>1
  <2>2. CASE i = Len(finished) + 1
    <3>1. <<v, w>> \in edges
      BY <1>5, <2>2
    <3>2. w \in Black
      BY <3>1 DEF Finish, v
    <3>3. PICK j \in 1 .. Len(finished) : finished[j] = w
      BY <1>7, <3>2 DEF Black, ToSet
    <3> QED
      BY <1>5, <1>7, <2>2, <3>3
  <2> QED
    BY <1>7, <2>1, <2>2
<1>12. EdgesBuilt' /\ NothingFinished' /\ AllFinished' /\ ReverseOrder'
  BY <1>1, <1>8 DEF IInv, EdgesBuilt, NothingFinished, AllFinished, ReverseOrder
<1> QED
  BY <1>1, <1>9, <1>10, <1>11, <1>12 DEF IInv

LEMMA BeginBuildIInv == IInv /\ BeginBuild => IInv'
<1> SUFFICES ASSUME IInv, BeginBuild PROVE IInv'
  OBVIOUS
<1>1. /\ phase = "sort" /\ phase' \in {"build", "rejected"}
      /\ edges' = edges /\ stack' = stack /\ finished' = finished
      /\ remaining' = Len(finished) /\ schedule' = schedule /\ schedule = <<>>
  BY DEF IInv, ReverseOrder, BeginBuild, searchVars
<1>2. finished \in Seq(Vertex) /\ Len(finished) \in Nat
  BY LenProperties DEF IInv, TypeOK
<1>3. DependencyEdges' = DependencyEdges
  BY DEF BeginBuild, flowVars, DependencyEdges, Predecessors, Successors, Dependencies
<1>4. TypeOK'
  BY <1>1, <1>2 DEF IInv, TypeOK, BeginBuild, flowVars
<1>5. AllFinished'
  <2>1. Gray = {}
    BY DEF BeginBuild, Gray, ToSet
  <2>2. Black \subseteq Vertex
    BY <1>2, LenProperties, ElementOfSeq DEF Black, ToSet
  <2> QED
    BY <1>1, <2>1, <2>2 DEF BeginBuild, White, AllFinished, Black
<1>6. ReverseOrder'
  <2>1. remaining' + 1 .. Len(finished') = {}
    BY <1>1, <1>2
  <2>2. DOMAIN schedule' = {}
    BY <1>1
  <2>3. ToSet(schedule') = {}
    BY <2>2 DEF ToSet
  <2> QED
    BY <1>1, <2>1, <2>2, <2>3 DEF ReverseOrder
<1>7. EdgesBuilt' /\ NothingFinished' /\ Once' /\ DependentsFirst'
  BY <1>1, <1>3 DEF IInv, EdgesBuilt, NothingFinished, Once, DependentsFirst, Gray, Black
<1> QED
  BY <1>1, <1>4, <1>5, <1>6, <1>7 DEF IInv

\* The next entry of the sorted list, from its end, goes to the schedule if it
\* is a component.
LEMMA AddComponentIInv == IInv /\ AddComponent => IInv'
<1> SUFFICES ASSUME IInv, AddComponent PROVE IInv'
  OBVIOUS
<1> DEFINE v == finished[remaining]
           n == Len(schedule)
<1>1. /\ phase = "build" /\ phase' = phase /\ edges' = edges
      /\ stack' = stack /\ finished' = finished
      /\ remaining > 0 /\ remaining' = remaining - 1
      /\ schedule' = IF v \in Atom THEN Append(schedule, v) ELSE schedule
  BY DEF AddComponent, IsProcessor, searchVars
<1>2. /\ finished \in Seq(Vertex) /\ Len(finished) \in Nat /\ DOMAIN finished = 1 .. Len(finished)
      /\ schedule \in Seq(Atom) /\ n \in Nat /\ DOMAIN schedule = 1 .. n
      /\ remaining \in 1 .. Len(finished)
  BY <1>1, LenProperties DEF IInv, TypeOK
<1>3. /\ ToSet(schedule) = {finished[p] : p \in remaining + 1 .. Len(finished)} \cap Atom
      /\ \A i, j \in DOMAIN schedule : i < j =>
           \E p, q \in remaining + 1 .. Len(finished) :
             p > q /\ schedule[i] = finished[p] /\ schedule[j] = finished[q]
  BY <1>1 DEF IInv, ReverseOrder
<1>4. DependencyEdges' = DependencyEdges
  BY DEF AddComponent, flowVars, DependencyEdges, Predecessors, Successors, Dependencies
<1>5. EdgesBuilt' /\ NothingFinished' /\ Once' /\ DependentsFirst' /\ AllFinished'
  BY <1>1, <1>4 DEF IInv, EdgesBuilt, NothingFinished, Once, DependentsFirst, AllFinished, Gray, Black
<1>6. remaining' + 1 .. Len(finished) = (remaining + 1 .. Len(finished)) \cup {remaining}
  BY <1>1, <1>2
<1>7. ASSUME v \in Atom
      PROVE  schedule' \in Seq(Atom) /\ ReverseOrder'
  <2>1. /\ schedule' \in Seq(Atom)
        /\ DOMAIN schedule' = 1 .. n + 1
        /\ \A i \in 1 .. n : schedule'[i] = schedule[i]
        /\ schedule'[n + 1] = v
        /\ ToSet(schedule') = ToSet(schedule) \cup {v}
    BY <1>1, <1>2, <1>7, AppendedLast, LenProperties
  <2>2. ToSet(schedule') = {finished[p] : p \in remaining' + 1 .. Len(finished)} \cap Atom
    BY <1>3, <1>6, <1>7, <2>1
  <2>3. ASSUME NEW i \in DOMAIN schedule', NEW j \in DOMAIN schedule', i < j
        PROVE  \E p, q \in remaining' + 1 .. Len(finished) :
                 p > q /\ schedule'[i] = finished[p] /\ schedule'[j] = finished[q]
    <3> i \in 1 .. n + 1 /\ j \in 1 .. n + 1
      BY <2>1
    <3>1. CASE j \in 1 .. n
      <4>1. i \in 1 .. n
        BY <1>2, <2>3, <3>1
      <4> i \in DOMAIN schedule /\ j \in DOMAIN schedule
        BY <1>2, <3>1, <4>1
      <4>2. PICK p \in remaining + 1 .. Len(finished), q \in remaining + 1 .. Len(finished) :
              p > q /\ schedule[i] = finished[p] /\ schedule[j] = finished[q]
        BY <1>3, <2>3
      <4>3. p \in remaining' + 1 .. Len(finished) /\ q \in remaining' + 1 .. Len(finished)
        BY <1>6
      <4>4. schedule'[i] = schedule[i] /\ schedule'[j] = schedule[j]
        BY <2>1, <3>1, <4>1
      <4> QED
        BY <4>2, <4>3, <4>4
    <3>2. CASE j = n + 1
      <4>1. i \in 1 .. n
        BY <1>2, <2>3, <3>2
      <4>2. schedule[i] \in ToSet(schedule)
        BY <1>2, <4>1 DEF ToSet
      <4>3. PICK p \in remaining + 1 .. Len(finished) : schedule[i] = finished[p]
        BY <1>3, <4>2
      <4>4. p > remaining /\ p \in remaining' + 1 .. Len(finished)
            /\ remaining \in remaining' + 1 .. Len(finished)
        BY <1>2, <1>6
      <4>5. schedule'[i] = schedule[i] /\ schedule'[j] = v
        BY <2>1, <3>2, <4>1
      <4> QED
        BY <4>3, <4>4, <4>5
    <3> QED
      BY <1>2, <3>1, <3>2
  <2>4. \A i, j \in DOMAIN schedule' : i < j =>
          \E p, q \in remaining' + 1 .. Len(finished) :
            p > q /\ schedule'[i] = finished[p] /\ schedule'[j] = finished[q]
    BY <2>3
  <2>5. ReverseOrder'
    <3>1. phase' \in {"build", "scheduled"}
      BY <1>1
    <3>2. finished' = finished
      BY <1>1
    <3>3. ToSet(schedule') = {finished'[p] : p \in remaining' + 1 .. Len(finished')} \cap Atom
      BY <2>2, <3>2, Zenon
    <3>4. \A i, j \in DOMAIN schedule' : i < j =>
            \E p, q \in remaining' + 1 .. Len(finished') :
              p > q /\ schedule'[i] = finished'[p] /\ schedule'[j] = finished'[q]
      BY <2>4, <3>2, Zenon
    <3> QED
      BY <3>1, <3>3, <3>4, Zenon DEF ReverseOrder
  <2> QED
    BY <2>1, <2>5
<1>8. ASSUME v \notin Atom
      PROVE  schedule' \in Seq(Atom) /\ ReverseOrder'
  <2>1. schedule' = schedule
    BY <1>1, <1>8
  <2>2. ToSet(schedule') = {finished[p] : p \in remaining' + 1 .. Len(finished)} \cap Atom
    BY <1>3, <1>6, <1>8, <2>1
  <2>3. \A i, j \in DOMAIN schedule : i < j =>
          \E p, q \in remaining' + 1 .. Len(finished) :
            p > q /\ schedule[i] = finished[p] /\ schedule[j] = finished[q]
    BY <1>3, <1>6
  <2>4. ReverseOrder'
    <3>1. phase' \in {"build", "scheduled"}
      BY <1>1
    <3>2. finished' = finished
      BY <1>1
    <3>3. ToSet(schedule') = {finished'[p] : p \in remaining' + 1 .. Len(finished')} \cap Atom
      BY <2>2, <3>2, Zenon
    <3>4. ASSUME NEW i \in DOMAIN schedule', NEW j \in DOMAIN schedule', i < j
          PROVE  \E p, q \in remaining' + 1 .. Len(finished') :
                   p > q /\ schedule'[i] = finished'[p] /\ schedule'[j] = finished'[q]
      <4>1. i \in DOMAIN schedule /\ j \in DOMAIN schedule
        BY <2>1
      <4>2. PICK p \in remaining' + 1 .. Len(finished), q \in remaining' + 1 .. Len(finished) :
              p > q /\ schedule[i] = finished[p] /\ schedule[j] = finished[q]
        BY <2>3, <3>4, <4>1, Zenon
      <4> QED
        BY <2>1, <3>2, <4>2
    <3> QED
      BY <3>1, <3>3, <3>4, Zenon DEF ReverseOrder
  <2> QED
    BY <1>2, <2>1, <2>4
<1>9. schedule' \in Seq(Atom) /\ ReverseOrder'
  BY <1>7, <1>8
<1>10. TypeOK'
  BY <1>1, <1>2, <1>9 DEF IInv, TypeOK, AddComponent, flowVars
<1> QED
  BY <1>1, <1>5, <1>9, <1>10 DEF IInv

LEMMA EndBuildIInv == IInv /\ EndBuild => IInv'
<1> SUFFICES ASSUME IInv, EndBuild PROVE IInv'
  OBVIOUS
<1>1. /\ phase = "build" /\ phase' = "scheduled" /\ edges' = edges
      /\ stack' = stack /\ finished' = finished
      /\ remaining' = remaining /\ remaining = 0 /\ schedule' = schedule
  BY DEF EndBuild, searchVars, buildVars
<1>2. DependencyEdges' = DependencyEdges
  BY DEF EndBuild, flowVars, DependencyEdges, Predecessors, Successors, Dependencies
<1>3. TypeOK'
  <2>1. connections' = connections /\ parameters' = parameters
    BY DEF EndBuild, flowVars
  <2>2. TypeOK
    BY DEF IInv
  <2>3. remaining' \in 0 .. Len(finished')
    BY <1>1, <2>2, Zenon DEF TypeOK
  <2>4. schedule' \in Seq(Atom) /\ stack' \in Seq(Vertex) /\ finished' \in Seq(Vertex)
    BY <1>1, <2>2, Zenon DEF TypeOK
  <2>5. connections' \subseteq AudioPairs /\ parameters' \subseteq ParameterPairs
        /\ edges' \subseteq Vertex \X Vertex
    BY <1>1, <2>1, <2>2, Zenon DEF TypeOK
  <2>6. phase' \in {"connected", "initialised", "sort", "build", "scheduled", "rejected"}
    BY <1>1
  <2> QED
    BY <2>3, <2>4, <2>5, <2>6, Zenon DEF TypeOK
<1>4. EdgesBuilt' /\ NothingFinished' /\ Once' /\ DependentsFirst' /\ AllFinished' /\ ReverseOrder'
  BY <1>1, <1>2 DEF IInv, EdgesBuilt, NothingFinished, Once, DependentsFirst, AllFinished,
                    ReverseOrder, Gray, Black
<1> QED
  BY <1>1, <1>3, <1>4 DEF IInv

LEMMA StutteringIInv == IInv /\ UNCHANGED vars => IInv'
<1> SUFFICES ASSUME IInv, UNCHANGED vars PROVE IInv'
  OBVIOUS
<1>1. DependencyEdges' = DependencyEdges
  BY DEF vars, flowVars, DependencyEdges, Predecessors, Successors, Dependencies
<1>2. TypeOK'
  BY DEF vars, flowVars, searchVars, buildVars, IInv, TypeOK
<1> QED
  BY <1>1, <1>2 DEF IInv, EdgesBuilt, NothingFinished, Once, DependentsFirst, AllFinished,
     ReverseOrder, Gray, Black, vars, flowVars, searchVars, buildVars

-----------------------------------------------------------------------------
\* In a state that satisfies the inductive invariant a finished schedule is
\* valid: a receiver is finished before its sender, and the schedule has the
\* components in the reverse order.
LEMMA IInvImpliesValidSchedule == IInv => ValidSchedule
<1> SUFFICES ASSUME IInv, phase = "scheduled"
             PROVE  /\ ToSet(schedule) = Atom
                    /\ \A i, j \in DOMAIN schedule : i # j => schedule[i] # schedule[j]
                    /\ \A i, j \in DOMAIN schedule :
                         <<schedule[i], schedule[j]>> \in AtomicConnections => i < j
  BY DEF ValidSchedule
<1>1. /\ finished \in Seq(Vertex) /\ DOMAIN finished = 1 .. Len(finished) /\ Len(finished) \in Nat
      /\ IsInjective(finished)
      /\ schedule \in Seq(Atom) /\ DOMAIN schedule = 1 .. Len(schedule) /\ Len(schedule) \in Nat
      /\ remaining = 0
  BY LenProperties DEF IInv, TypeOK, Once
<1>2. /\ ToSet(schedule) = {finished[p] : p \in 1 .. Len(finished)} \cap Atom
      /\ \A i, j \in DOMAIN schedule : i < j =>
           \E p, q \in 1 .. Len(finished) :
             p > q /\ schedule[i] = finished[p] /\ schedule[j] = finished[q]
  BY <1>1 DEF IInv, ReverseOrder
<1>3. ToSet(schedule) = Atom
  BY <1>1, <1>2 DEF IInv, AllFinished, Black, ToSet, Vertex
<1>4. \A i, j \in DOMAIN schedule : i < j => schedule[i] # schedule[j]
  BY <1>1, <1>2 DEF IsInjective
<1>5. \A i, j \in DOMAIN schedule : i # j => schedule[i] # schedule[j]
  BY <1>1, <1>4
<1>6. ASSUME NEW i \in DOMAIN schedule, NEW j \in DOMAIN schedule,
             <<schedule[i], schedule[j]>> \in AtomicConnections
      PROVE  i < j
  <2> DEFINE s == schedule[i]
             r == schedule[j]
  <2>1. s \in Atom /\ r \in Atom
    BY <1>1, ElementOfSeq
  <2>2. Node(r) = r
    BY <2>1, GraphAssumption DEF Node
  <2>3. s \in Predecessors(r)
    BY <1>6, <2>2 DEF AtomicConnections, Predecessors
  <2>4. <<s, r>> \in edges
    <3>1. <<s, r>> \in {<<q, r>> : q \in Predecessors(r)}
      BY <2>3
    <3>2. {<<q, r>> : q \in Predecessors(r)} \subseteq DependencyEdges
      BY <2>1 DEF DependencyEdges
    <3> QED
      BY <3>1, <3>2 DEF IInv, EdgesBuilt
  <2>5. PICK p \in 1 .. Len(finished) : finished[p] = s
    BY <1>2, <1>3, <2>1
  <2>6. PICK k \in 1 .. p - 1 : finished[k] = r
    BY <1>1, <2>1, <2>4, <2>5 DEF IInv, DependentsFirst, Vertex
  <2>7. i # j
    BY <1>1, <2>5, <2>6 DEF IsInjective
  <2>8. ~ (j < i)
    <3> SUFFICES ASSUME j < i PROVE FALSE
      OBVIOUS
    <3>1. PICK x \in 1 .. Len(finished), y \in 1 .. Len(finished) :
            x > y /\ r = finished[x] /\ s = finished[y]
      BY <1>2
    <3>2. x = k /\ y = p
      BY <1>1, <2>5, <2>6, <3>1 DEF IsInjective
    <3> QED
      BY <1>1, <3>1, <3>2
  <2> QED
    BY <1>1, <2>7, <2>8
<1> QED
  BY <1>3, <1>5, <1>6

-----------------------------------------------------------------------------
\* The strengthened invariant holds in every reachable state.
THEOREM SearchInvariant == Spec => []IInv
<1>1. IInv /\ [Next]_vars => IInv'
  <2> SUFFICES ASSUME IInv, [Next]_vars PROVE IInv'
    OBVIOUS
  <2>1. CASE Initialise
    BY <2>1, InitialiseIInv
  <2>2. CASE Check
    BY <2>2, PhaseIInv DEF Check
  <2>3. ASSUME NEW v \in Vertex, DiscoverRoot(v) PROVE IInv'
    <3>1. stack' = Append(stack, v)
      BY <2>3 DEF DiscoverRoot
    <3> QED
      BY <2>3, <3>1, DiscoverIInv DEF DiscoverRoot
  <2>4. ASSUME NEW v \in Vertex, Discover(v) PROVE IInv'
    BY <2>4, DiscoverIInv DEF Discover
  <2>5. CASE FindBackEdge
    BY <2>5, PhaseIInv DEF FindBackEdge
  <2>6. CASE Finish
    BY <2>6, FinishIInv
  <2>7. CASE BeginBuild
    BY <2>7, BeginBuildIInv
  <2>8. CASE AddComponent
    BY <2>8, AddComponentIInv
  <2>9. CASE EndBuild
    BY <2>9, EndBuildIInv
  <2>10. CASE UNCHANGED vars
    BY <2>10, StutteringIInv
  <2> QED
    BY <2>1, <2>2, <2>3, <2>4, <2>5, <2>6, <2>7, <2>8, <2>9, <2>10 DEF Next
<1> QED
  BY <1>1, InitIInv, PTL DEF Spec

\* The type invariant, for every flow.
THEOREM TypeCorrect == Spec => []TypeOK
<1>1. IInv => TypeOK
  BY DEF IInv
<1> QED
  BY <1>1, SearchInvariant, PTL

\* Whatever the connections and the order of the search, each component runs
\* once per period and after all components it receives anything from.
THEOREM SchedulesAreValid == Spec => []ValidSchedule
  BY IInvImpliesValidSchedule, SearchInvariant, PTL

-----------------------------------------------------------------------------
(* Why a flow is rejected.                                                 *)

\* Where the edges of the dependency graph lead: none into the source, none
\* out of the sink, and those between components are connections.
LEMMA EdgesBetweenAtoms ==
  ASSUME TypeOK, NEW d \in DependencyEdges
  PROVE  /\ d[1] \in Atom \cup {Source}
         /\ d[2] \in Atom \cup {Sink}
         /\ d[1] \in Atom /\ d[2] \in Atom => <<d[1], d[2]>> \in AtomicConnections
<1>1. Dependencies \subseteq Component \X Component
  BY GraphAssumption DEF TypeOK, Dependencies
<1>2. \A v \in Atom \cup {Sink} : Predecessors(v) \subseteq Atom
  BY <1>1, GraphAssumption DEF Predecessors, Dependencies, Component
<1>3. CASE d \in {<<Source, v>> : v \in {u \in Atom \cup {Sink} : Predecessors(u) = {}}}
  BY <1>3, GraphAssumption
<1>4. CASE d \in UNION {{<<p, v>> : p \in Predecessors(v)} : v \in Atom \cup {Sink}}
  <2>0. PICK v \in Atom \cup {Sink} : d \in {<<p, v>> : p \in Predecessors(v)}
    BY <1>4
  <2>1. PICK p \in Predecessors(v) : d = <<p, v>>
    BY <2>0
  <2>2. p \in Atom
    BY <1>2, <2>1
  <2>3. ASSUME v \in Atom
        PROVE  <<p, v>> \in AtomicConnections
    <3>1. Node(v) = v /\ v # TopLevel
      BY <2>3, GraphAssumption DEF Node
    <3>2. PICK e \in Dependencies : e[2] = v /\ p = e[1]
      BY <2>1, <3>1 DEF Predecessors
    <3>3. e = <<p, v>>
      BY <1>1, <3>2
    <3> QED
      BY <3>1, <3>2, <3>3 DEF AtomicConnections
  <2> QED
    BY <2>1, <2>2, <2>3
<1>5. CASE d \in {<<v, Sink>> : v \in {u \in Atom : Successors(u) = {}}}
  BY <1>5, GraphAssumption
<1> QED
  BY <1>3, <1>4, <1>5 DEF DependencyEdges

\* A set of vertices with edges that stay in it contains a loop of components:
\* the sink has no edge to follow, and the source is not needed.
LEMMA CycleIsLoop ==
  ASSUME TypeOK, edges = DependencyEdges,
         NEW C, C # {}, \A v \in C : \E w \in C : <<v, w>> \in edges
  PROVE  DelayFreeLoop
<1> DEFINE L == C \ {Source}
<1>1. \A v \in C : \E w \in L : <<v, w>> \in edges
  <2> SUFFICES ASSUME NEW v \in C PROVE \E w \in L : <<v, w>> \in edges
    OBVIOUS
  <2>1. PICK w \in C : <<v, w>> \in edges
    OBVIOUS
  <2>2. w # Source
    BY <2>1, EdgesBetweenAtoms, GraphAssumption
  <2> QED
    BY <2>1, <2>2
<1>2. L # {}
  BY <1>1
<1>3. L \subseteq Atom
  <2> SUFFICES ASSUME NEW v \in L PROVE v \in Atom
    OBVIOUS
  <2>1. PICK w \in L : <<v, w>> \in edges
    BY <1>1
  <2> QED
    BY <2>1, EdgesBetweenAtoms
<1>4. \A v \in L : \E w \in L : <<v, w>> \in AtomicConnections
  <2> SUFFICES ASSUME NEW v \in L PROVE \E w \in L : <<v, w>> \in AtomicConnections
    OBVIOUS
  <2>1. PICK w \in L : <<v, w>> \in edges
    BY <1>1
  <2> QED
    BY <1>3, <2>1, EdgesBetweenAtoms
<1> HIDE DEF L
<1> QED
  BY <1>2, <1>3, <1>4 DEF DelayFreeLoop

\* The end of the sort: every vertex is in the sorted list, once.
LEMMA AllSorted ==
  ASSUME IInv, stack = <<>>, White = {}
  PROVE  Len(finished) = Cardinality(Vertex)
<1>1. /\ finished \in Seq(Vertex) /\ IsInjective(finished)
      /\ DOMAIN finished = 1 .. Len(finished) /\ Len(finished) \in Nat
  BY LenProperties DEF IInv, TypeOK, Once
<1>2. Gray = {}
  BY DEF Gray, ToSet
<1>3. \A v \in Vertex : \E i \in 1 .. Len(finished) : finished[i] = v
  BY <1>1, <1>2 DEF White, Black, ToSet
<1>4. finished \in [1 .. Len(finished) -> Vertex]
  BY <1>1, LenProperties
<1>5. finished \in Bijection(1 .. Len(finished), Vertex)
  BY <1>1, <1>3, <1>4 DEF Bijection, Injection, Surjection
<1>6. ASSUME NEW n \in Nat
      PROVE  IsFiniteSet(1 .. n) /\ Cardinality(1 .. n) = n
  <2>1. /\ IsFiniteSet(1 .. n)
        /\ Cardinality(1 .. n) = IF 1 > n THEN 0 ELSE n - 1 + 1
    BY FS_Interval
  <2> QED
    BY <2>1
<1> QED
  BY <1>1, <1>5, <1>6, FS_Bijection DEF ExistsBijection

\* An edge from the end of the path on the stack back to one of its vertices.
LEMMA BackEdgeIsLoop == IInv /\ PathOnStack /\ FindBackEdge => DelayFreeLoop
<1> SUFFICES ASSUME IInv, PathOnStack, FindBackEdge PROVE DelayFreeLoop
  OBVIOUS
<1> DEFINE n == Len(stack)
<1>1. stack \in Seq(Vertex) /\ DOMAIN stack = 1 .. n /\ n \in Nat /\ n # 0 /\ Last(stack) = stack[n]
  BY LenProperties, EmptySeq DEF IInv, TypeOK, FindBackEdge, Last
<1>2. PICK v \in Gray : <<stack[n], v>> \in edges
  BY <1>1 DEF FindBackEdge
<1>3. PICK k \in 1 .. n : stack[k] = v
  BY <1>1 DEF Gray, ToSet
<1> DEFINE C == {stack[i] : i \in k .. n}
<1>4. C # {}
  BY <1>1, <1>3
<1>5. \A w \in C : \E x \in C : <<w, x>> \in edges
  <2> SUFFICES ASSUME NEW i \in k .. n PROVE \E x \in C : <<stack[i], x>> \in edges
    OBVIOUS
  <2>1. CASE i = n
    <3>1. v \in C
      BY <1>1, <1>3
    <3> QED
      BY <1>2, <2>1, <3>1
  <2>2. CASE i # n
    <3>1. i + 1 \in k .. n /\ i \in 1 .. n - 1
      <4>1. n \in Nat /\ k \in 1 .. n /\ i \in k .. n
        BY <1>1
      <4> HIDE DEF n
      <4> QED
        BY <2>2, <4>1
    <3>2. <<stack[i], stack[i + 1]>> \in edges
      BY <3>1 DEF PathOnStack
    <3> QED
      BY <3>1, <3>2
  <2> QED
    BY <2>1, <2>2
<1>6. TypeOK /\ edges = DependencyEdges
  BY DEF IInv, EdgesBuilt, FindBackEdge
<1> HIDE DEF C
<1> QED
  BY <1>4, <1>5, <1>6, CycleIsLoop

\* A step that changes neither the connections, the edges nor the stack: if it
\* rejects the flow, there is a loop.
LEMMA KeepsPath ==
  ASSUME LoopInv, UNCHANGED <<flowVars, edges, stack>>,
         phase' \in {"connected", "initialised"} => phase \in {"connected", "initialised"},
         phase' = "rejected" => phase = "rejected" \/ DelayFreeLoop
  PROVE  LoopInv'
<1>1. DelayFreeLoop' = DelayFreeLoop
  BY DEF flowVars, DelayFreeLoop, AtomicConnections, Dependencies
<1>2. PathOnStack'
  BY DEF LoopInv, PathOnStack
<1>3. OnlyLoopsRejected'
  BY <1>1 DEF LoopInv, OnlyLoopsRejected
<1> QED
  BY <1>2, <1>3 DEF LoopInv

\* A step of the search leaves a path on the stack.
LEMMA SearchKeepsPath ==
  ASSUME LoopInv, phase = "sort", UNCHANGED <<flowVars, phase, edges>>,
         \A i \in 1 .. Len(stack') - 1 : <<stack'[i], stack'[i + 1]>> \in edges
  PROVE  LoopInv'
BY DEF LoopInv, PathOnStack, OnlyLoopsRejected

LEMMA DiscoverLoopInv ==
  ASSUME IInv, LoopInv, NEW v \in Vertex, DiscoverRoot(v) \/ Discover(v)
  PROVE  LoopInv'
<1>1. phase = "sort" /\ UNCHANGED <<flowVars, phase, edges>>
  BY DEF DiscoverRoot, Discover
<1>2. CASE DiscoverRoot(v)
  <2>1. Len(stack') = 1
    BY <1>2 DEF DiscoverRoot
  <2>2. 1 .. Len(stack') - 1 = {}
    BY <2>1
  <2> QED
    BY <1>1, <2>2, SearchKeepsPath
<1>3. CASE Discover(v)
  <2> DEFINE n == Len(stack)
  <2>1. stack \in Seq(Vertex) /\ n \in Nat /\ n # 0 /\ Last(stack) = stack[n]
    BY <1>3, LenProperties, EmptySeq DEF IInv, TypeOK, Discover, Last
  <2>2. /\ Len(stack') = n + 1
        /\ \A i \in 1 .. n : stack'[i] = stack[i]
        /\ stack'[n + 1] = v
    BY <1>3, <2>1, AppendedLast DEF Discover
  <2>3. \A i \in 1 .. n - 1 : <<stack[i], stack[i + 1]>> \in edges
    BY DEF LoopInv, PathOnStack
  <2>4. <<stack[n], v>> \in edges
    BY <1>3, <2>1 DEF Discover
  <2> HIDE DEF n
  <2>5. \A i \in 1 .. Len(stack') - 1 : <<stack'[i], stack'[i + 1]>> \in edges
    BY <2>1, <2>2, <2>3, <2>4
  <2> QED
    BY <1>1, <2>5, SearchKeepsPath
<1> QED
  BY <1>2, <1>3

LEMMA FinishLoopInv == IInv /\ LoopInv /\ Finish => LoopInv'
<1> SUFFICES ASSUME IInv, LoopInv, Finish PROVE LoopInv'
  OBVIOUS
<1> DEFINE n == Len(stack)
<1>1. stack \in Seq(Vertex) /\ stack # <<>> /\ IsInjective(stack) /\ n \in Nat
  BY LenProperties DEF IInv, TypeOK, Once, Finish
<1>2. stack' = Front(stack)
  BY DEF Finish
<1>3. Len(stack') = n - 1 /\ \A i \in 1 .. n - 1 : stack'[i] = stack[i]
  BY <1>1, <1>2, Popping
<1>4. \A i \in 1 .. n - 1 : <<stack[i], stack[i + 1]>> \in edges
  BY DEF LoopInv, PathOnStack
<1> HIDE DEF n
<1>5. \A i \in 1 .. Len(stack') - 1 : <<stack'[i], stack'[i + 1]>> \in edges
  BY <1>1, <1>3, <1>4
<1> QED
  BY <1>5, SearchKeepsPath DEF Finish

\* Whatever the connections and the order of the search, a flow that is refused,
\* by the check before the sort, by the sort or by the test of the number of
\* sorted vertices, has a delay-free loop.
THEOREM RejectionsAreJustified == Spec => []OnlyLoopsRejected
<1>1. Init => LoopInv
  BY DEF Init, LoopInv, PathOnStack, OnlyLoopsRejected
<1>2. IInv /\ LoopInv /\ [Next]_vars => LoopInv'
  <2> SUFFICES ASSUME IInv, LoopInv, [Next]_vars PROVE LoopInv'
    OBVIOUS
  <2>1. CASE Initialise
    <3>1. stack = <<>> /\ stack' = <<>> /\ phase' = "initialised"
      BY <2>1 DEF LoopInv, PathOnStack, Initialise, searchVars
    <3>2. 1 .. Len(stack') - 1 = {}
      BY <3>1
    <3> QED
      BY <3>1, <3>2 DEF LoopInv, PathOnStack, OnlyLoopsRejected
  <2>2. CASE Check
    <3>1. phase = "initialised" /\ edges = DependencyEdges /\ TypeOK
      BY <2>2 DEF Check, IInv, EdgesBuilt
    <3>2. ~ CheckAcyclicGraph => DelayFreeLoop
      <4>1. ASSUME ~ CheckAcyclicGraph PROVE DelayFreeLoop
        <5>1. PICK C \in SUBSET ReachedFromSource :
                C # {} /\ \A v \in C : \E w \in C : <<v, w>> \in edges
          BY <4>1 DEF CheckAcyclicGraph, HasCycle
        <5> QED
          BY <3>1, <5>1, CycleIsLoop
      <4> QED
        BY <4>1
    <3>3. UNCHANGED <<flowVars, edges, stack>> /\ phase' \in {"sort", "rejected"}
          /\ (phase' = "rejected" => DelayFreeLoop)
      BY <2>2, <3>2 DEF Check, searchVars
    <3> QED
      BY <3>3, KeepsPath
  <2>3. ASSUME NEW v \in Vertex, DiscoverRoot(v) \/ Discover(v) PROVE LoopInv'
    BY <2>3, DiscoverLoopInv
  <2>4. CASE FindBackEdge
    <3>1. DelayFreeLoop
      BY <2>4, BackEdgeIsLoop DEF LoopInv
    <3> QED
      BY <2>4, <3>1, KeepsPath DEF FindBackEdge, searchVars
  <2>5. CASE Finish
    BY <2>5, FinishLoopInv
  <2>6. CASE BeginBuild
    <3>1. phase' = "build"
      BY <2>6, AllSorted DEF BeginBuild
    <3> QED
      BY <2>6, <3>1, KeepsPath DEF BeginBuild, searchVars
  <2>7. CASE AddComponent
    BY <2>7, KeepsPath DEF AddComponent, searchVars
  <2>8. CASE EndBuild
    BY <2>8, KeepsPath DEF EndBuild, searchVars
  <2>9. CASE UNCHANGED vars
    BY <2>9, KeepsPath DEF vars, searchVars
  <2> QED
    BY <2>1, <2>2, <2>3, <2>4, <2>5, <2>6, <2>7, <2>8, <2>9 DEF Next
<1>3. LoopInv => OnlyLoopsRejected
  BY DEF LoopInv
<1> QED
  BY <1>1, <1>2, <1>3, SearchInvariant, PTL DEF Spec

-----------------------------------------------------------------------------
(* The graph implements ComponentSchedule.                                 *)

\* The orders of the abstract specification, which has its own instance of the
\* modules that define them.
LEMMA OrdersAgree ==
  ASSUME NEW A, NEW D
  PROVE  Schedules!Orders(A, D) = Orders(A, D)
<1>1. Schedules!Cardinality(A) = Cardinality(A)
  BY DEF Schedules!Cardinality, Cardinality, Schedules!IsFiniteSet, IsFiniteSet
<1> QED
  BY <1>1 DEF Schedules!Orders, Orders, Schedules!SetToSeqs, SetToSeqs

\* Components that wait for each other cannot be put in order: in any order, the
\* last one of them has another one after it.
LEMMA LoopHasNoOrder ==
  ASSUME NEW A, IsFiniteSet(A), NEW D,
         NEW C \in SUBSET A, C # {}, \A a \in C : \E b \in C : <<a, b>> \in D
  PROVE  Schedules!Orders(A, D) = {}
<1> SUFFICES ASSUME NEW s \in Schedules!Orders(A, D)
             PROVE  FALSE
  OBVIOUS
<1> DEFINE N == Cardinality(A)
           I == {i \in 1 .. N : s[i] \in C}
<1>1. N \in Nat
  BY FS_CardinalityType
<1>2. /\ s \in [1 .. N -> A]
      /\ \A i, j \in 1 .. N : i # j => s[i] # s[j]
      /\ \A d \in D : \E i, j \in DOMAIN s : i < j /\ s[i] = d[1] /\ s[j] = d[2]
  BY OrdersAgree DEF Orders, SetToSeqs
<1>3. ASSUME NEW a \in C
      PROVE  \E i, j \in 1 .. N : i < j /\ s[i] = a /\ s[j] \in C
  <2>1. PICK b \in C : <<a, b>> \in D
    OBVIOUS
  <2>2. \E i, j \in DOMAIN s : i < j /\ s[i] = <<a, b>>[1] /\ s[j] = <<a, b>>[2]
    BY <1>2, <2>1
  <2> QED
    BY <1>2, <2>2
<1>4. I # {}
  BY <1>3
<1>5. PICK m \in I : \A n \in I : n <= m
  <2>1. I \subseteq 0 .. N
    BY <1>1
  <2> HIDE DEF I, N
  <2> QED
    BY <1>1, <1>4, <2>1, GreatestNumber
<1>6. PICK i \in 1 .. N, j \in 1 .. N : i < j /\ s[i] = s[m] /\ s[j] \in C
  <2>1. s[m] \in C
    BY <1>5
  <2> QED
    BY <1>3, <2>1
<1>7. i = m
  BY <1>2, <1>5, <1>6
<1>8. j \in I
  BY <1>6
<1> HIDE DEF I, N
<1> QED
  BY <1>1, <1>5, <1>6, <1>7, <1>8

\* Connections from one component to another.
LEMMA ConnectionsOfAtoms ==
  ASSUME TypeOK, NEW d \in AtomicConnections
  PROVE  d = <<d[1], d[2]>> /\ d[1] \in Atom /\ d[2] \in Atom
<1>1. Dependencies \subseteq Component \X Component /\ \A e \in Dependencies : e[1] # TopLevel
  BY GraphAssumption DEF TypeOK, Dependencies
<1>2. d \in Component \X Component /\ d[1] # TopLevel /\ d[2] # TopLevel
  BY <1>1 DEF AtomicConnections
<1> QED
  BY <1>2 DEF Component

\* What is delivered is such an order.
LEMMA ValidIsOrder ==
  TypeOK /\ ValidSchedule /\ phase = "scheduled"
    => schedule \in Schedules!Orders(Atom, AtomicConnections)
<1> SUFFICES ASSUME TypeOK, ValidSchedule, phase = "scheduled"
             PROVE  schedule \in Schedules!Orders(Atom, AtomicConnections)
  OBVIOUS
<1> DEFINE n == Len(schedule)
<1>1. /\ schedule \in [1 .. n -> Atom] /\ n \in Nat
  BY LenProperties DEF TypeOK
<1>2. /\ \A i, j \in 1 .. n : i # j => schedule[i] # schedule[j]
      /\ \A a \in Atom : \E i \in 1 .. n : schedule[i] = a
      /\ \A i, j \in 1 .. n : <<schedule[i], schedule[j]>> \in AtomicConnections => i < j
  BY <1>1 DEF ValidSchedule, ToSet
<1>3. Cardinality(Atom) = n
  <2>1. schedule \in Bijection(1 .. n, Atom)
    BY <1>1, <1>2 DEF Bijection, Injection, Surjection, IsInjective
  <2>2. IsFiniteSet(1 .. n) /\ Cardinality(1 .. n) = n
    <3>1. /\ IsFiniteSet(1 .. n)
          /\ Cardinality(1 .. n) = IF 1 > n THEN 0 ELSE n - 1 + 1
      BY <1>1, FS_Interval
    <3>2. (IF 1 > n THEN 0 ELSE n - 1 + 1) = n
      BY <1>1
    <3> QED
      BY <3>1, <3>2
  <2> HIDE DEF n
  <2> QED
    BY <2>1, <2>2, FS_Bijection DEF ExistsBijection
<1>4. ASSUME NEW d \in AtomicConnections
      PROVE  \E i, j \in DOMAIN schedule : i < j /\ schedule[i] = d[1] /\ schedule[j] = d[2]
  <2>1. d = <<d[1], d[2]>> /\ d[1] \in Atom /\ d[2] \in Atom
    BY ConnectionsOfAtoms
  <2>2. PICK i \in 1 .. n, j \in 1 .. n : schedule[i] = d[1] /\ schedule[j] = d[2]
    BY <1>2, <2>1
  <2>3. i < j
    BY <1>2, <2>1, <2>2
  <2> QED
    BY <1>1, <2>2, <2>3
<1> HIDE DEF n
<1> QED
  BY <1>1, <1>2, <1>3, <1>4, OrdersAgree DEF Orders, SetToSeqs

\* At first nothing has been decided.
LEMMA ScheduleInit == Init => Schedules!Init
<1> SUFFICES ASSUME Init
             PROVE  Schedules!Init
  OBVIOUS
<1>1. TypeOK /\ phase = "connected"
  BY InitIInv DEF IInv, Init
<1>2. AtomicConnections \subseteq Atom \X Atom
  BY <1>1, ConnectionsOfAtoms
<1> QED
  BY <1>1, <1>2 DEF Schedules!Init

\* A step delivers an order, refuses the flow because there is none, or decides
\* nothing.
LEMMA ScheduleStep ==
  ASSUME TypeOK, TypeOK', ValidSchedule', OnlyLoopsRejected', [Next]_vars
  PROVE  [Schedules!Next]_Schedules!scheduleVars
<1> DEFINE S == IF phase = "scheduled" THEN schedule ELSE <<>>
           O == CASE phase = "scheduled" -> "delivered"
                  [] phase = "rejected"  -> "refused"
                  [] OTHER               -> "open"
<1>1. CASE UNCHANGED vars
  <2>1. /\ AtomicConnections' = AtomicConnections /\ O' = O /\ S' = S
    BY <1>1 DEF vars, flowVars, buildVars, AtomicConnections, Dependencies
  <2> QED
    BY <2>1 DEF Schedules!scheduleVars
<1>2. CASE Next
  <2>1. phase \notin {"scheduled", "rejected"} /\ UNCHANGED flowVars
    BY <1>2 DEF Next, Initialise, Check, DiscoverRoot, Discover, FindBackEdge, Finish, BeginBuild,
                AddComponent, EndBuild
  <2>2. O = "open" /\ S = <<>> /\ AtomicConnections' = AtomicConnections
    BY <2>1 DEF flowVars, AtomicConnections, Dependencies
  <2>3. CASE phase' = "scheduled"
    <3>1. O' = "delivered" /\ S' = schedule'
      BY <2>3
    <3>2. (TypeOK /\ ValidSchedule /\ phase = "scheduled"
             => schedule \in Schedules!Orders(Atom, AtomicConnections))'
      BY ValidIsOrder, PTL
    <3>3. schedule' \in Schedules!Orders(Atom, AtomicConnections)
      BY <2>2, <2>3, <3>2
    <3> QED
      BY <2>2, <3>1, <3>3 DEF Schedules!Next, Schedules!Deliver
  <2>4. CASE phase' = "rejected"
    <3>1. O' = "refused" /\ S' = <<>>
      BY <2>4
    <3>2. DelayFreeLoop
      BY <2>1, <2>2, <2>4 DEF OnlyLoopsRejected, DelayFreeLoop
    <3>3. Schedules!Orders(Atom, AtomicConnections) = {}
      BY <3>2, LoopHasNoOrder, GraphAssumption DEF DelayFreeLoop
    <3> QED
      BY <2>2, <3>1, <3>3 DEF Schedules!Next, Schedules!Refuse
  <2>5. CASE phase' \notin {"scheduled", "rejected"}
    <3>1. O' = "open" /\ S' = <<>>
      BY <2>5
    <3> QED
      BY <2>2, <3>1 DEF Schedules!scheduleVars
  <2> QED
    BY <2>3, <2>4, <2>5
<1> QED
  BY <1>1, <1>2

\* For every flow the graph delivers an order in which its components can be
\* executed, or throws; and it throws only if the connections admit no order.
THEOREM ScheduleImplemented == Spec => OrderIfPossible
<1>1. TypeOK /\ TypeOK' /\ ValidSchedule' /\ OnlyLoopsRejected' /\ [Next]_vars
      => [Schedules!Next]_Schedules!scheduleVars
  BY ScheduleStep
<1> QED
  BY <1>1, ScheduleInit, TypeCorrect, SchedulesAreValid, RejectionsAreJustified, PTL
  DEF Spec, OrderIfPossible, Schedules!Spec
=============================================================================
