-------------------------- MODULE SchedulingGraph ---------------------------
(***************************************************************************)
(* rrl::SchedulingGraph (scheduling_graph.cpp): the order in which the     *)
(* atomic components of a signal flow are executed in every period.  From  *)
(* the connections between the components a graph of dependencies is       *)
(* built, between an artificial source and an artificial sink, and sorted  *)
(* topologically by the depth-first search of the Boost Graph Library.     *)
(* The order in which the search takes vertices and edges is left open.    *)
(***************************************************************************)
EXTENDS Integers, Sequences, FiniteSets, SequencesExt

CONSTANTS
  Atom,             \* the atomic components, however deeply they are nested
  TopLevel,         \* the composite component that is the signal flow
  Source, Sink,     \* the artificial vertices
  AudioPairs,       \* audio connections to consider: <<sender, receiver>>
  ParameterPairs    \* parameter connections to consider: <<receiver, sender>>

Component == Atom \cup {TopLevel}
Vertex    == Atom \cup {Source, Sink}

ASSUME GraphAssumption ==
  /\ AudioPairs \cup ParameterPairs \subseteq Component \X Component
  /\ Source # Sink /\ {Source, Sink, TopLevel} \cap Atom = {}
  /\ IsFiniteSet(Atom)

VARIABLES
  connections,   \* AudioConnectionMap: a set of <<sender, receiver>>
  parameters,    \* ParameterConnectionMap: a set of <<receiver, sender>>
  phase,         \* how far AudioSignalFlow::initialiseSchedule() is
  edges,         \* mDependencyGraph
  stack,         \* the search: vertices discovered and not finished (gray)
  finished,      \* the search: vertices finished (black), in this order
  remaining,     \* the length of the part of "finished" not yet looked at
  schedule       \* mProcessingSchedule

searchVars == <<stack, finished>>
flowVars   == <<connections, parameters>>
buildVars  == <<remaining, schedule>>
vars == <<flowVars, phase, edges, searchVars, buildVars>>

Gray  == ToSet(stack)
Black == ToSet(finished)
White == Vertex \ (Gray \cup Black)

TypeOK ==
  /\ connections \subseteq AudioPairs
  /\ parameters \subseteq ParameterPairs
  /\ phase \in {"connected", "initialised", "sort", "build", "scheduled", "rejected"}
  /\ edges \subseteq Vertex \X Vertex
  /\ stack \in Seq(Vertex)
  /\ finished \in Seq(Vertex)
  /\ remaining \in 0 .. Len(finished)
  /\ schedule \in Seq(Atom)

Init ==
  /\ connections \in SUBSET AudioPairs
  /\ parameters \in SUBSET ParameterPairs
  /\ phase = "connected"
  /\ edges = {}
  /\ stack = <<>>
  /\ finished = <<>>
  /\ remaining = 0
  /\ schedule = <<>>

-----------------------------------------------------------------------------
(* initialise(): the dependency graph.  Connections that start at the      *)
(* top-level component are not counted.                                    *)

\* The component behind a vertex; the sink stands for the top-level component.
Node(v) == IF v = Sink THEN TopLevel ELSE v

Dependencies == {d \in connections : d[1] # TopLevel}
                \cup {<<d[2], d[1]>> : d \in {q \in parameters : q[2] # TopLevel}}

\* mutant: connections between parameter ports do not count
AudioPredecessors(v) ==
  {d[1] : d \in {e \in connections : e[1] # TopLevel /\ e[2] = Node(v)}}

Predecessors(v) == {d[1] : d \in {e \in Dependencies : e[2] = Node(v)}}
Successors(v)   == {d[2] : d \in {e \in Dependencies : e[1] = Node(v)}}

DependencyEdges ==
  {<<Source, v>> : v \in {u \in Atom \cup {Sink} : Predecessors(u) = {}}}
  \cup (UNION {{<<p, v>> : p \in Predecessors(v)} : v \in Atom \cup {Sink}})
  \cup {<<v, Sink>> : v \in {u \in Atom : Successors(u) = {}}}

Initialise ==
  /\ phase = "connected"
  /\ edges' = DependencyEdges
  /\ phase' = "initialised"
  /\ UNCHANGED <<flowVars, searchVars, buildVars>>

-----------------------------------------------------------------------------
(* sequentialSchedule()                                                    *)

Closed(S) == \A e \in edges : e[1] \in S => e[2] \in S

\* The vertices depth_first_visit() comes to when it starts at the source.
ReachedFromSource == {v \in Vertex : \A S \in SUBSET Vertex : Source \in S /\ Closed(S) => v \in S}

\* A search meets a back edge if and only if there is a cycle where it goes.
HasCycle(S) ==
  \E C \in SUBSET S : C # {} /\ \A v \in C : \E w \in C : <<v, w>> \in edges

\* checkAcyclicGraph() looks at what can be reached from the source, and does not
\* see a loop that nothing leads to: that one is left to the sort.
CheckAcyclicGraph == ~ HasCycle(ReachedFromSource)

Check ==
  /\ phase = "initialised"
  /\ phase' = IF CheckAcyclicGraph THEN "sort" ELSE "rejected"
  /\ UNCHANGED <<flowVars, edges, searchVars, buildVars>>

\* topological_sort() starts from every vertex it has not come to yet.
DiscoverRoot(v) ==
  /\ phase = "sort"
  /\ stack = <<>>
  /\ v \in White
  /\ stack' = <<v>>
  /\ UNCHANGED <<flowVars, phase, edges, finished, buildVars>>

Discover(v) ==
  /\ phase = "sort"
  /\ stack # <<>>
  /\ v \in White
  /\ <<Last(stack), v>> \in edges
  /\ stack' = Append(stack, v)
  /\ UNCHANGED <<flowVars, phase, edges, finished, buildVars>>

\* mutant: vertices seen before are taken for vertices on the current path
FindVisited ==
  /\ phase = "sort"
  /\ stack # <<>>
  /\ \E v \in Gray \cup Black : <<Last(stack), v>> \in edges
  /\ phase' = "rejected"
  /\ UNCHANGED <<flowVars, edges, searchVars, buildVars>>

\* mutant: back edges are ignored
IgnoreBackEdge == FALSE /\ UNCHANGED vars

\* The exception not_a_dag.
FindBackEdge ==
  /\ phase = "sort"
  /\ stack # <<>>
  /\ \E v \in Gray : <<Last(stack), v>> \in edges
  /\ phase' = "rejected"
  /\ UNCHANGED <<flowVars, edges, searchVars, buildVars>>

Finish ==
  /\ phase = "sort"
  /\ stack # <<>>
  /\ \A v \in Vertex : <<Last(stack), v>> \in edges => v \in Black
  /\ finished' = Append(finished, Last(stack))
  /\ stack' = Front(stack)
  /\ UNCHANGED <<flowVars, phase, edges, buildVars>>

\* All vertices are finished; the sorted list must have one entry for each.
BeginBuild ==
  /\ phase = "sort"
  /\ stack = <<>>
  /\ White = {}
  /\ phase' = IF Len(finished) = Cardinality(Vertex) THEN "build" ELSE "rejected"
  /\ remaining' = Len(finished)
  /\ UNCHANGED <<flowVars, edges, searchVars, schedule>>

AnyVertex(v) == TRUE   \* mutant: the artificial vertices are scheduled as well

IsProcessor(v) == v \in Atom

\* mutant: the sorted list is not taken in reverse
AddComponentInSortOrder ==
  /\ phase = "build"
  /\ remaining > 0
  /\ LET v == finished[Len(finished) + 1 - remaining]
     IN schedule' = IF IsProcessor(v) THEN Append(schedule, v) ELSE schedule
  /\ remaining' = remaining - 1
  /\ UNCHANGED <<flowVars, phase, edges, searchVars>>

\* The sorted list has the last vertex first and is taken in reverse.
AddComponent ==
  /\ phase = "build"
  /\ remaining > 0
  /\ LET v == finished[remaining]
     IN schedule' = IF IsProcessor(v) THEN Append(schedule, v) ELSE schedule
  /\ remaining' = remaining - 1
  /\ UNCHANGED <<flowVars, phase, edges, searchVars>>

EndBuild ==
  /\ phase = "build"
  /\ remaining = 0
  /\ phase' = "scheduled"
  /\ UNCHANGED <<flowVars, edges, searchVars, buildVars>>

-----------------------------------------------------------------------------
Next ==
  \/ Initialise
  \/ Check
  \/ \E v \in Vertex : DiscoverRoot(v) \/ Discover(v)
  \/ FindBackEdge
  \/ Finish
  \/ BeginBuild
  \/ AddComponent
  \/ EndBuild

\* The thread that constructs the AudioSignalFlow goes on.
Spec == Init /\ [][Next]_vars /\ WF_vars(Next)

-----------------------------------------------------------------------------
\* The connections from one atomic component to another.
AtomicConnections == {d \in Dependencies : d[2] # TopLevel}

\* A set of components each of which waits for another one of them.
DelayFreeLoop ==
  \E C \in SUBSET Atom : C # {} /\ \A a \in C : \E b \in C : <<a, b>> \in AtomicConnections

\* In every period each component runs once, and whatever it receives over an
\* audio or a parameter connection was sent earlier in the same period.
ValidSchedule ==
  phase = "scheduled" =>
    /\ ToSet(schedule) = Atom
    /\ \A i, j \in DOMAIN schedule : i # j => schedule[i] # schedule[j]
    /\ \A i, j \in DOMAIN schedule : <<schedule[i], schedule[j]>> \in AtomicConnections => i < j

\* Only flows with a delay-free loop are rejected.
OnlyLoopsRejected == phase = "rejected" => DelayFreeLoop

\* What a flow gets is decided in a single step, as in the constructor's call of
\* sequentialSchedule(): an order of the components that no connection forbids,
\* or an exception, and that only if there is no such order.
Schedules == INSTANCE ComponentSchedule WITH
  Element      <- Atom,
  dependencies <- AtomicConnections,
  outcome      <- CASE phase = "scheduled" -> "delivered"
                    [] phase = "rejected"  -> "refused"
                    [] OTHER               -> "open",
  order        <- IF phase = "scheduled" THEN schedule ELSE <<>>

\* The graph implements ComponentSchedule.
OrderIfPossible == Schedules!Spec

\* Every flow is scheduled or rejected.
Decided == <>(phase \in {"scheduled", "rejected"})

-----------------------------------------------------------------------------
(* The inductive invariant behind ValidSchedule.                           *)

EdgesBuilt == phase # "connected" => edges = DependencyEdges

NothingFinished == phase \in {"connected", "initialised"} => finished = <<>>

\* A vertex is discovered once and finished once.
Once ==
  /\ IsInjective(finished)
  /\ IsInjective(stack)
  /\ Gray \cap Black = {}

\* A vertex is finished after everything that depends on it.
DependentsFirst ==
  \A i \in DOMAIN finished : \A v \in Vertex :
    <<finished[i], v>> \in edges => \E j \in 1 .. i - 1 : finished[j] = v

AllFinished == phase \in {"build", "scheduled"} => Black = Vertex

\* The schedule holds the components looked at, in the reverse of the order in
\* which they were finished.
ReverseOrder ==
  IF phase \in {"build", "scheduled"}
  THEN /\ ToSet(schedule) = {finished[p] : p \in remaining + 1 .. Len(finished)} \cap Atom
       /\ \A i, j \in DOMAIN schedule : i < j =>
            \E p, q \in remaining + 1 .. Len(finished) :
              /\ p > q
              /\ schedule[i] = finished[p]
              /\ schedule[j] = finished[q]
  ELSE schedule = <<>>

IInv ==
  /\ TypeOK
  /\ EdgesBuilt
  /\ NothingFinished
  /\ Once
  /\ DependentsFirst
  /\ AllFinished
  /\ ReverseOrder
  /\ phase = "scheduled" => remaining = 0

\* What makes OnlyLoopsRejected inductive: the vertices under discovery are a
\* path, so that an edge from its end back to one of them closes a loop.
PathOnStack ==
  /\ phase \in {"connected", "initialised"} => stack = <<>>
  /\ \A i \in 1 .. Len(stack) - 1 : <<stack[i], stack[i + 1]>> \in edges

LoopInv == PathOnStack /\ OnlyLoopsRejected
=============================================================================
