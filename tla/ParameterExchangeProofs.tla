---------------------- MODULE ParameterExchangeProofs ----------------------
(***************************************************************************)
(* Proofs about ParameterExchange, for every flow whose schedule respects  *)
(* the parameter connections (ScheduleAssumption), every number of updates *)
(* and every number of exceptions.                                         *)
(***************************************************************************)
EXTENDS ParameterExchange, TLAPS

\* A vector all of whose elements stem from S stems from S.
LEMMA ProvenanceUniform ==
  ASSUME NEW S
  PROVE  Provenance(Uniform(S)) = S
  BY FlowAssumption DEF Provenance, Uniform

\* What the operations of a protocol leave in the two objects and the flags.
LEMMA WriteFrontFacts ==
  ASSUME NEW V, NEW I, NEW p \in Protocol(V, I), NEW v \in V
  PROVE  /\ WriteFront(p, v) \in Protocol(V, I)
         /\ BackData(WriteFront(p, v)) = BackData(p)
         /\ FrontData(WriteFront(p, v)) = v
         /\ BackObject(WriteFront(p, v)) = BackObject(p)
         /\ WriteFront(p, v).changed = p.changed
  BY DEF Protocol, WriteFront, BackData, FrontData, BackObject, FrontObject, Other, BufferId

LEMMA SwapBuffersFacts ==
  ASSUME NEW V, NEW I, NEW p \in Protocol(V, I)
  PROVE  /\ SwapBuffers(p, FALSE) \in Protocol(V, I)
         /\ BackData(SwapBuffers(p, FALSE)) = FrontData(p)
         /\ \A i \in I : Changed(SwapBuffers(p, FALSE), i)
  BY DEF Protocol, SwapBuffers, BackData, FrontData, BackObject, FrontObject, Other, BufferId, Changed

LEMMA ResetChangedFacts ==
  ASSUME NEW V, NEW I, NEW p \in Protocol(V, I), NEW i \in I
  PROVE  /\ ResetChanged(p, i) \in Protocol(V, I)
         /\ BackData(ResetChanged(p, i)) = BackData(p)
         /\ FrontData(ResetChanged(p, i)) = FrontData(p)
         /\ BackObject(ResetChanged(p, i)) = BackObject(p)
         /\ ~ Changed(ResetChanged(p, i), i)
         /\ \A j \in I \ {i} : Changed(ResetChanged(p, i), j) = Changed(p, j)
  BY DEF Protocol, ResetChanged, BackData, FrontData, BackObject, FrontObject, Other, BufferId, Changed

LEMMA DataTypes ==
  ASSUME NEW V, NEW I, NEW p \in Protocol(V, I)
  PROVE  BackData(p) \in V /\ FrontData(p) \in V /\ BackObject(p) \in BufferId
  BY DEF Protocol, BackData, FrontData, BackObject, FrontObject, Other, BufferId

LEMMA ProvenanceType ==
  ASSUME NEW p \in Parameter
  PROVE  Provenance(p) \in SUBSET Version
  BY DEF Parameter, Provenance

-----------------------------------------------------------------------------
\* While a cycle runs, every input of the current component carries the latest
\* version: the control thread has published it, or an earlier component has.
LEMMA InputsLatest ==
  ASSUME IInv, audio # "idle", position \in DOMAIN Schedule,
         NEW k \in In(Current)
  PROVE  BackData(protocol[k]) = Uniform({version})
  <1>1. CASE Sender[k] = Control
    BY <1>1 DEF IInv, MutexHeld, UpdateIdle, ControlPublished, Out, In
  <1>2. CASE Sender[k] # Control
    <2>1. k \in Connection /\ Current \in Receivers[k]
      BY DEF In
    <2>2. Sender[k] \in Component
      BY <1>2, <2>1, FlowAssumption DEF Owner
    <2>3. PICK i \in DOMAIN Schedule : Schedule[i] = Sender[k]
      BY <2>2, ScheduleAssumption
    <2>4. i < position
      BY <2>1, <2>3, ScheduleAssumption DEF Current
    <2>5. \A j \in In(Sender[k]) : held[j][Sender[k]] = {version}
      BY <2>3, <2>4 DEF IInv, CaughtUp, UpToDate
    <2>6. UNION {held[j][Sender[k]] : j \in In(Sender[k])} = {version}
      <3>1. In(Sender[k]) # {}
        BY <2>2, ScheduleAssumption
      <3>2. {held[j][Sender[k]] : j \in In(Sender[k])} = {{version}}
        BY <2>5, <3>1
      <3> QED
        BY <3>2
    <2>7. BackData(protocol[k]) = Uniform(UNION {held[j][Sender[k]] : j \in In(Sender[k])})
      BY <2>1, <2>2 DEF IInv, OutputsMatch, Out
    <2>8. QED
      BY <2>6, <2>7
  <1>3. QED
    BY <1>1, <1>2

LEMMA InitIInv == Init => IInv
  <1> SUFFICES ASSUME Init PROVE IInv
    OBVIOUS
  <1>1. 0 \in Version /\ {0} \in SUBSET Version
    BY FlowAssumption DEF Version
  <1>2. Uniform({0}) \in Parameter
    BY <1>1 DEF Uniform, Parameter
  <1>3. \A k \in Connection :
          /\ protocol[k] \in Protocol(Parameter, Receivers[k])
          /\ BackData(protocol[k]) = Uniform({0})
    BY <1>2 DEF Init, NewProtocol, Protocol, BackData, BackObject, FrontObject, Other, BufferId
  <1>4. TypeOK
    BY <1>1, <1>3, FlowAssumption, ScheduleAssumption DEF Init, TypeOK, BufferId
  <1>5. \A k \in Connection : \A r \in Owner : held[k][r] = {0}
    BY DEF Init
  <1>6. \A k \in Connection : Receivers[k] \subseteq Owner
    BY FlowAssumption
  <1>7. NoLostUpdate
    BY <1>3, <1>5, <1>6, ProvenanceUniform DEF NoLostUpdate
  <1>8. \A c \in Component : \A k \in In(c) : held[k][c] = {0}
    BY <1>5 DEF In, Owner
  <1>9. GlitchFree
    BY <1>1, <1>8 DEF GlitchFree
  <1>10. OutputsMatch
    <2> SUFFICES ASSUME NEW c \in Component, NEW k \in Out(c)
                 PROVE  BackData(protocol[k]) = Uniform(UNION {held[j][c] : j \in In(c)})
      BY DEF OutputsMatch
    <2>1. UNION {held[j][c] : j \in In(c)} = {0}
      BY <1>8, ScheduleAssumption
    <2>2. QED
      BY <2>1, <1>3 DEF Out
  <1>11. MutexHeld /\ UpdateIdle /\ CaughtUp /\ ReadingBack
    BY DEF Init, MutexHeld, UpdateIdle, CaughtUp, ReadingBack
  <1>12. ControlPublished
    BY <1>3 DEF Init, ControlPublished, Out
  <1>13. QED
    BY <1>4, <1>7, <1>9, <1>10, <1>11, <1>12 DEF IInv

-----------------------------------------------------------------------------
\* Steps that touch neither a protocol nor what a component holds.
LEMMA QuietStep ==
  ASSUME IInv, UNCHANGED <<protocol, held>>,
         version' = version, unwritten' = unwritten, unswapped' = unswapped
  PROVE  NoLostUpdate' /\ GlitchFree' /\ ControlPublished' /\ OutputsMatch'
  <1>1. NoLostUpdate'
    BY DEF IInv, NoLostUpdate
  <1>2. GlitchFree'
    BY DEF IInv, GlitchFree
  <1>3. ControlPublished'
    BY DEF IInv, ControlPublished
  <1>4. OutputsMatch'
    BY DEF IInv, OutputsMatch
  <1>5. QED
    BY <1>1, <1>2, <1>3, <1>4

LEMMA BeginCycleIInv == IInv /\ BeginCycle => IInv'
  <1> SUFFICES ASSUME IInv, BeginCycle PROVE IInv'
    OBVIOUS
  <1>1. TypeOK'
    BY ScheduleAssumption DEF IInv, TypeOK, BeginCycle, controlVars
  <1>2. MutexHeld' /\ UpdateIdle'
    BY DEF IInv, MutexHeld, UpdateIdle, BeginCycle, LockAvailable, controlVars
  <1>3. CaughtUp' /\ ReadingBack'
    BY ScheduleAssumption DEF CaughtUp, ReadingBack, BeginCycle
  <1>4. QED
    BY <1>1, <1>2, <1>3, QuietStep DEF IInv, BeginCycle, controlVars

LEMMA SkipComponentIInv == IInv /\ SkipComponent => IInv'
  <1> SUFFICES ASSUME IInv, SkipComponent PROVE IInv'
    OBVIOUS
  <1> USE DEF SkipComponent, controlVars
  <1>0. position \in DOMAIN Schedule /\ Current \in Component
    BY ScheduleAssumption DEF IInv, TypeOK, Current
  <1>1. TypeOK'
    BY <1>0, ScheduleAssumption DEF IInv, TypeOK
  <1>2. MutexHeld' /\ UpdateIdle'
    BY DEF IInv, MutexHeld, UpdateIdle
  <1>3. UpToDate(Current)
    <2> SUFFICES ASSUME NEW k \in In(Current) PROVE held[k][Current] = {version}
      BY DEF UpToDate
    <2>1. ~ Changed(protocol[k], Current)
      BY DEF ChangedInputs
    <2>2. held[k][Current] = Provenance(BackData(protocol[k]))
      BY <2>1 DEF IInv, NoLostUpdate, In
    <2>3. QED
      BY <1>0, <2>2, InputsLatest, ProvenanceUniform
  <1>4. CaughtUp'
    <2> SUFFICES ASSUME NEW i \in DOMAIN Schedule, i < position + 1
                 PROVE  UpToDate(Schedule[i])'
      BY DEF CaughtUp
    <2>1. i = position \/ i < position
      BY ScheduleAssumption DEF IInv, TypeOK
    <2>2. UpToDate(Schedule[i])
      BY <2>1, <1>3 DEF IInv, CaughtUp, Current
    <2>3. QED
      BY <2>2 DEF UpToDate
  <1>5. ReadingBack'
    BY DEF ReadingBack
  <1>6. QED
    BY <1>1, <1>2, <1>4, <1>5, QuietStep DEF IInv

LEMMA EnterComponentIInv == IInv /\ EnterComponent => IInv'
  <1> SUFFICES ASSUME IInv, EnterComponent PROVE IInv'
    OBVIOUS
  <1> USE DEF EnterComponent, controlVars
  <1>0. position \in DOMAIN Schedule
    BY ScheduleAssumption DEF IInv, TypeOK
  <1>1. \A k \in Connection : BackObject(protocol[k]) \in BufferId
    BY DataTypes DEF IInv, TypeOK
  <1>2. TypeOK'
    BY <1>1 DEF IInv, TypeOK, InputObject
  <1>3. MutexHeld' /\ UpdateIdle'
    BY DEF IInv, MutexHeld, UpdateIdle
  <1>4. CaughtUp'
    BY DEF IInv, CaughtUp, UpToDate
  <1>5. ReadingBack'
    <2>1. ChangedInputs(Current)' = ChangedInputs(Current)
      BY DEF ChangedInputs, Current, In
    <2>2. QED
      BY <1>0, <2>1 DEF ReadingBack, ChangedInputs, In, InputObject
  <1>6. QED
    BY <1>2, <1>3, <1>4, <1>5, QuietStep DEF IInv

LEMMA EndCycleIInv == IInv /\ EndCycle => IInv'
  <1> SUFFICES ASSUME IInv, EndCycle PROVE IInv'
    OBVIOUS
  <1> USE DEF EndCycle, controlVars
  <1>1. TypeOK'
    BY DEF IInv, TypeOK
  <1>2. MutexHeld' /\ UpdateIdle'
    BY DEF IInv, MutexHeld, UpdateIdle
  <1>3. CaughtUp' /\ ReadingBack'
    BY DEF CaughtUp, ReadingBack
  <1>4. QED
    BY <1>1, <1>2, <1>3, QuietStep DEF IInv

LEMMA EndUpdateIInv == IInv /\ EndUpdate => IInv'
  <1> SUFFICES ASSUME IInv, EndUpdate PROVE IInv'
    OBVIOUS
  <1> USE DEF EndUpdate, audioVars
  <1>1. TypeOK'
    BY DEF IInv, TypeOK
  <1>2. MutexHeld' /\ UpdateIdle'
    BY DEF IInv, MutexHeld, UpdateIdle
  <1>3. CaughtUp' /\ ReadingBack'
    BY DEF IInv, MutexHeld, CaughtUp, ReadingBack
  <1>4. QED
    BY <1>1, <1>2, <1>3, QuietStep DEF IInv

\* An exception only disturbs front objects of components, which nobody reads.
LEMMA FailComponentIInv == IInv /\ FailComponent => IInv'
  <1> SUFFICES ASSUME IInv, FailComponent PROVE IInv'
    OBVIOUS
  <1> USE DEF FailComponent, controlVars
  <1>0. position \in DOMAIN Schedule /\ Current \in Component
    BY ScheduleAssumption DEF IInv, TypeOK, Current
  <1>1. Uniform({}) \in Parameter
    BY DEF Uniform, Parameter
  <1>2. \A k \in Connection :
          /\ protocol'[k] \in Protocol(Parameter, Receivers[k])
          /\ BackData(protocol'[k]) = BackData(protocol[k])
          /\ protocol'[k].changed = protocol[k].changed
          /\ Sender[k] = Control => protocol'[k] = protocol[k]
    <2> SUFFICES ASSUME NEW k \in Connection
                 PROVE  /\ protocol'[k] \in Protocol(Parameter, Receivers[k])
                        /\ BackData(protocol'[k]) = BackData(protocol[k])
                        /\ protocol'[k].changed = protocol[k].changed
                        /\ Sender[k] = Control => protocol'[k] = protocol[k]
      OBVIOUS
    <2>1. protocol[k] \in Protocol(Parameter, Receivers[k])
      BY DEF IInv, TypeOK
    <2>2. CASE protocol' = protocol
      BY <2>1, <2>2
    <2>3. CASE protocol'[k] = Abandoned(k, Current)
      BY <2>1, <2>3, <1>0, <1>1, WriteFrontFacts, FlowAssumption DEF Abandoned
    <2>4. QED
      BY <2>2, <2>3
  <1>3. TypeOK'
    <2>1. DOMAIN protocol' = Connection
      BY DEF IInv, TypeOK
    <2>2. failures + 1 \in 0 .. MaxFailures
      BY FlowAssumption DEF IInv, TypeOK
    <2>3. QED
      BY <1>2, <2>1, <2>2 DEF IInv, TypeOK
  <1>4. MutexHeld' /\ UpdateIdle'
    BY DEF IInv, TypeOK, MutexHeld, UpdateIdle
  <1>5. NoLostUpdate'
    BY <1>2 DEF IInv, NoLostUpdate, Changed
  <1>6. GlitchFree'
    BY DEF IInv, GlitchFree
  <1>7. ControlPublished'
    <2> SUFFICES ASSUME NEW k \in Out(Control)
                 PROVE  /\ k \notin unswapped => BackData(protocol[k]) = Uniform({version})
                        /\ k \in unswapped =>
                             \A e \in Element : <<k, e>> \notin unwritten =>
                               FrontData(protocol[k])[e] = {version}
      BY <1>2 DEF ControlPublished, Out
    <2>1. QED
      BY DEF IInv, ControlPublished
  <1>8. OutputsMatch'
    <2> SUFFICES ASSUME NEW b \in Component, NEW k \in Out(b)
                 PROVE  (BackData(protocol[k]) = Uniform(UNION {held[j][b] : j \in In(b)}))'
      BY DEF OutputsMatch
    <2>1. BackData(protocol'[k]) = BackData(protocol[k])
      BY <1>2 DEF Out
    <2>2. BackData(protocol[k]) = Uniform(UNION {held[j][b] : j \in In(b)})
      BY DEF IInv, OutputsMatch
    <2>3. QED
      BY <2>1, <2>2
  <1>9. CaughtUp' /\ ReadingBack'
    BY DEF CaughtUp, ReadingBack
  <1>10. QED
    BY <1>3, <1>4, <1>5, <1>6, <1>7, <1>8, <1>9 DEF IInv

\* What a component that finishes leaves behind: it has caught up with the
\* latest version, and so have its outputs.
LEMMA FinishFacts ==
  ASSUME IInv, FinishComponent
  PROVE  /\ Current \in Component /\ position \in DOMAIN Schedule
         /\ \A k \in In(Current) : held'[k][Current] = {version}
         /\ \A k \in Connection : \A r \in Owner \ {Current} : held'[k][r] = held[k][r]
         /\ held' \in [Connection -> [Owner -> SUBSET Version]]
         /\ \A k \in Connection : k \notin In(Current) => held'[k] = held[k]
         /\ \A k \in Out(Current) :
              /\ BackData(protocol'[k]) = Uniform({version})
              /\ \A r \in Receivers[k] : Changed(protocol'[k], r)
         /\ \A k \in ChangedInputs(Current) : protocol'[k] = ResetChanged(protocol[k], Current)
         /\ \A k \in Connection : k \notin Out(Current) \cup ChangedInputs(Current) =>
              protocol'[k] = protocol[k]
         /\ \A k \in Connection : protocol'[k] \in Protocol(Parameter, Receivers[k])
  <1> DEFINE c == Current
             now == [k \in Connection |->
                       IF k \in ChangedInputs(c)
                       THEN [held[k] EXCEPT ![c] = Provenance(protocol[k].data[reading[k]])]
                       ELSE held[k]]
             result == Uniform(UNION {now[k][c] : k \in In(c)})
  <1>1. position \in DOMAIN Schedule /\ c \in Component
    BY ScheduleAssumption DEF IInv, ReadingBack, FinishComponent, Current
  <1>2. held' = now
    BY DEF FinishComponent
  <1>3. \A k \in Connection : protocol[k] \in Protocol(Parameter, Receivers[k])
    BY DEF IInv, TypeOK
  <1>4. \A k \in ChangedInputs(c) : protocol[k].data[reading[k]] = BackData(protocol[k])
    BY DEF IInv, ReadingBack, FinishComponent, BackData
  <1>5. \A k \in In(c) : Provenance(BackData(protocol[k])) = {version}
    BY <1>1, InputsLatest, ProvenanceUniform DEF FinishComponent
  <1>6. held \in [Connection -> [Owner -> SUBSET Version]] /\ c \in Owner /\ version \in Version
    BY <1>1 DEF IInv, TypeOK, Owner
  <1>7. ASSUME NEW k \in In(c) PROVE now[k][c] = {version}
    <2>1. k \in Connection /\ c \in Receivers[k]
      BY DEF In
    <2>2. CASE k \in ChangedInputs(c)
      BY <2>1, <2>2, <1>4, <1>5, <1>6
    <2>3. CASE k \notin ChangedInputs(c)
      <3>1. ~ Changed(protocol[k], c)
        BY <2>3 DEF ChangedInputs
      <3>2. held[k][c] = Provenance(BackData(protocol[k]))
        BY <3>1, <2>1 DEF IInv, NoLostUpdate
      <3>3. QED
        BY <3>2, <2>1, <2>3, <1>5
    <2>4. QED
      BY <2>2, <2>3
  <1>8. UNION {now[k][c] : k \in In(c)} = {version}
    <2> HIDE DEF now, c, result
    <2>1. In(c) # {}
      BY <1>1, ScheduleAssumption
    <2>2. QED
      BY <1>7, <2>1
  <1>9. result = Uniform({version}) /\ result \in Parameter
    BY <1>6, <1>8 DEF Uniform, Parameter
  <1>10. \A k \in ChangedInputs(c) : k \in Connection /\ c \in Receivers[k] /\ Sender[k] # c
    BY <1>1, ScheduleAssumption DEF ChangedInputs, In, Current
  <1>11. protocol' = [k \in Connection |->
            IF Sender[k] = c THEN SwapBuffers(WriteFront(protocol[k], result), FALSE)
            ELSE IF k \in ChangedInputs(c) THEN ResetChanged(protocol[k], c)
            ELSE protocol[k]]
    BY DEF FinishComponent
  <1> HIDE DEF c, result
  <1>12. \A k \in Out(c) :
           /\ BackData(protocol'[k]) = Uniform({version})
           /\ \A r \in Receivers[k] : Changed(protocol'[k], r)
           /\ protocol'[k] \in Protocol(Parameter, Receivers[k])
    <2> SUFFICES ASSUME NEW k \in Out(c)
                 PROVE  /\ BackData(protocol'[k]) = Uniform({version})
                        /\ \A r \in Receivers[k] : Changed(protocol'[k], r)
                        /\ protocol'[k] \in Protocol(Parameter, Receivers[k])
      OBVIOUS
    <2>1. k \in Connection /\ Sender[k] = c
      BY DEF Out
    <2>2. protocol'[k] = SwapBuffers(WriteFront(protocol[k], result), FALSE)
      BY <1>11, <2>1
    <2>3. /\ WriteFront(protocol[k], result) \in Protocol(Parameter, Receivers[k])
          /\ FrontData(WriteFront(protocol[k], result)) = result
      BY <1>3, <1>9, <2>1, WriteFrontFacts
    <2> DEFINE q == WriteFront(protocol[k], result)
    <2> HIDE DEF q
    <2>4. q \in Protocol(Parameter, Receivers[k])
      BY <2>3 DEF q
    <2>5. /\ SwapBuffers(q, FALSE) \in Protocol(Parameter, Receivers[k])
          /\ BackData(SwapBuffers(q, FALSE)) = FrontData(q)
          /\ \A r \in Receivers[k] : Changed(SwapBuffers(q, FALSE), r)
      BY <2>4, SwapBuffersFacts
    <2>6. protocol'[k] = SwapBuffers(q, FALSE) /\ FrontData(q) = Uniform({version})
      BY <1>9, <2>2, <2>3 DEF q
    <2>7. QED
      BY <2>5, <2>6
  <1>13. \A k \in ChangedInputs(c) : protocol'[k] = ResetChanged(protocol[k], c)
    BY <1>10, <1>11
  <1>14. \A k \in Connection : k \notin Out(c) \cup ChangedInputs(c) => protocol'[k] = protocol[k]
    BY <1>11 DEF Out
  <1>15. \A k \in Connection : protocol'[k] \in Protocol(Parameter, Receivers[k])
    BY <1>3, <1>10, <1>12, <1>13, <1>14, ResetChangedFacts
  <1>16. \A k \in Connection : k \notin In(c) => now[k] = held[k]
    BY DEF ChangedInputs
  <1>17. \A k \in Connection : \A r \in Owner \ {c} : now[k][r] = held[k][r]
    BY <1>6
  <1>18. now \in [Connection -> [Owner -> SUBSET Version]]
    <2>1. \A k \in ChangedInputs(c) : Provenance(protocol[k].data[reading[k]]) \in SUBSET Version
      BY <1>3, <1>4, <1>10, DataTypes, ProvenanceType
    <2>2. QED
      BY <2>1, <1>6
  <1> HIDE DEF now
  <1>19. QED
    BY <1>1, <1>2, <1>7, <1>12, <1>13, <1>14, <1>15, <1>16, <1>17, <1>18 DEF c

LEMMA FinishComponentIInv == IInv /\ FinishComponent => IInv'
  <1> SUFFICES ASSUME IInv, FinishComponent PROVE IInv'
    OBVIOUS
  <1> DEFINE c == Current
  <1>1. c \in Component /\ c \in Owner /\ position \in DOMAIN Schedule /\ position \in Nat
    BY FinishFacts, ScheduleAssumption DEF Owner
  <1>2. \A k \in In(c) : held'[k][c] = {version}
    BY FinishFacts
  <1>3. \A k \in Connection : protocol[k] \in Protocol(Parameter, Receivers[k])
    BY DEF IInv, TypeOK
  <1>4. \A k \in Connection : k \notin Out(c) => BackData(protocol'[k]) = BackData(protocol[k])
    <2>1. \A k \in ChangedInputs(c) : k \in Connection /\ c \in Receivers[k]
      BY DEF ChangedInputs, In
    <2>2. QED
      BY <1>3, <2>1, FinishFacts, ResetChangedFacts
  <1>5. version' = version /\ mutex' = mutex /\ control' = control /\ audio' = "schedule"
        /\ unwritten' = unwritten /\ unswapped' = unswapped /\ position' = position + 1
        /\ reading' = reading /\ failures' = failures /\ audio = "process"
    BY DEF FinishComponent, controlVars
  <1>6. TypeOK'
    <2>1. DOMAIN protocol' = Connection
      BY DEF FinishComponent
    <2>2. position + 1 \in 1 .. Len(Schedule) + 1
      BY <1>1, ScheduleAssumption
    <2>3. QED
      BY <1>5, <2>1, <2>2, FinishFacts DEF IInv, TypeOK
  <1>7. MutexHeld' /\ UpdateIdle'
    BY <1>5 DEF IInv, MutexHeld, UpdateIdle
  <1>8. NoLostUpdate'
    <2> SUFFICES ASSUME NEW k \in Connection, NEW r \in Receivers[k], ~ Changed(protocol'[k], r)
                 PROVE  held'[k][r] = Provenance(BackData(protocol'[k]))
      BY DEF NoLostUpdate
    <2>0. r \in Owner /\ k \notin Out(c)
      BY FinishFacts, FlowAssumption
    <2>1. BackData(protocol'[k]) = BackData(protocol[k])
      BY <1>4, <2>0
    <2>2. CASE r = c
      <3>1. k \in In(c)
        BY <2>2 DEF In
      <3>2. BackData(protocol[k]) = Uniform({version})
        BY <1>1, <1>5, <3>1, InputsLatest
      <3>3. QED
        BY <1>2, <2>1, <2>2, <3>1, <3>2, ProvenanceUniform
    <2>3. CASE r # c
      <3>1. ~ Changed(protocol[k], r)
        BY <1>3, <2>0, <2>3, FinishFacts, ResetChangedFacts DEF ChangedInputs, In
      <3>2. held'[k][r] = held[k][r]
        BY <2>0, <2>3, FinishFacts
      <3>3. QED
        BY <2>1, <3>1, <3>2 DEF IInv, NoLostUpdate
    <2>4. QED
      BY <2>2, <2>3
  <1>9. GlitchFree'
    <2> SUFFICES ASSUME NEW b \in Component
                 PROVE  \E v \in Version : \A k \in In(b) : held'[k][b] = {v}
      BY DEF GlitchFree
    <2>1. CASE b = c
      BY <1>2, <2>1 DEF IInv, TypeOK
    <2>2. CASE b # c
      <3>1. \A k \in In(b) : held'[k][b] = held[k][b]
        BY <2>2, FinishFacts DEF In, Owner
      <3>2. QED
        BY <3>1 DEF IInv, GlitchFree
    <2>3. QED
      BY <2>1, <2>2
  <1>10. ControlPublished'
    <2> SUFFICES ASSUME NEW k \in Out(Control)
                 PROVE  (k \notin unswapped => BackData(protocol[k]) = Uniform({version}))'
      BY <1>5 DEF ControlPublished, IInv, MutexHeld, UpdateIdle
    <2>1. k \in Connection /\ k \notin Out(c)
      BY <1>1, FlowAssumption DEF Out
    <2>2. QED
      BY <1>4, <1>5, <2>1 DEF IInv, ControlPublished
  <1>11. OutputsMatch'
    <2> SUFFICES ASSUME NEW b \in Component, NEW k \in Out(b)
                 PROVE  (BackData(protocol[k]) = Uniform(UNION {held[j][b] : j \in In(b)}))'
      BY DEF OutputsMatch
    <2>1. CASE b = c
      <3>1. In(c) # {}
        BY <1>1, ScheduleAssumption
      <3>2. UNION {held'[j][c] : j \in In(c)} = {version}
        BY <1>2, <3>1
      <3>3. BackData(protocol'[k]) = Uniform({version})
        BY <2>1, FinishFacts
      <3>4. UNION {held'[j][b] : j \in In(b)} = {version}
        BY <2>1, <3>2
      <3>5. QED
        BY <3>3, <3>4
    <2>2. CASE b # c
      <3>1. k \in Connection /\ k \notin Out(c)
        BY <2>2 DEF Out
      <3>2. \A j \in In(b) : held'[j][b] = held[j][b]
        BY <2>2, FinishFacts DEF In, Owner
      <3>3. {held'[j][b] : j \in In(b)} = {held[j][b] : j \in In(b)}
        BY <3>2
      <3>4. BackData(protocol[k]) = Uniform(UNION {held[j][b] : j \in In(b)})
        BY DEF IInv, OutputsMatch
      <3>5. QED
        BY <1>4, <3>1, <3>3, <3>4
    <2>3. QED
      BY <2>1, <2>2
  <1>12. CaughtUp'
    <2> SUFFICES ASSUME NEW i \in DOMAIN Schedule, i < position + 1, NEW k \in In(Schedule[i])
                 PROVE  held'[k][Schedule[i]] = {version}
      BY <1>5 DEF CaughtUp, UpToDate
    <2>1. CASE Schedule[i] = c
      BY <1>2, <2>1
    <2>2. CASE Schedule[i] # c
      <3>1. i < position
        BY <1>1, <2>2, ScheduleAssumption DEF Current
      <3>2. held[k][Schedule[i]] = {version}
        BY <1>5, <3>1 DEF IInv, CaughtUp, UpToDate
      <3>3. k \in Connection /\ Schedule[i] \in Owner
        BY ScheduleAssumption DEF In, Owner
      <3>4. QED
        BY <2>2, <3>2, <3>3, FinishFacts
    <2>3. QED
      BY <2>1, <2>2
  <1>13. ReadingBack'
    BY <1>5 DEF ReadingBack
  <1>14. QED
    BY <1>6, <1>7, <1>8, <1>9, <1>10, <1>11, <1>12, <1>13 DEF IInv

-----------------------------------------------------------------------------
LEMMA BeginUpdateIInv == IInv /\ BeginUpdate => IInv'
  <1> SUFFICES ASSUME IInv, BeginUpdate PROVE IInv'
    OBVIOUS
  <1> USE DEF BeginUpdate, audioVars
  <1>1. TypeOK'
    BY FlowAssumption DEF IInv, TypeOK, Version
  <1>2. MutexHeld' /\ UpdateIdle'
    BY DEF IInv, MutexHeld, UpdateIdle, LockAvailable
  <1>3. NoLostUpdate' /\ GlitchFree' /\ OutputsMatch'
    BY DEF IInv, NoLostUpdate, GlitchFree, OutputsMatch
  <1>4. ControlPublished'
    BY DEF ControlPublished
  <1>5. CaughtUp' /\ ReadingBack'
    BY DEF IInv, MutexHeld, LockAvailable, CaughtUp, ReadingBack
  <1>6. QED
    BY <1>1, <1>2, <1>3, <1>4, <1>5 DEF IInv

LEMMA WriteElementIInv ==
  ASSUME IInv, NEW k \in Connection, NEW e \in Element, WriteElement(k, e)
  PROVE  IInv'
  <1> USE DEF WriteElement, audioVars
  <1> DEFINE value == [FrontData(protocol[k]) EXCEPT ![e] = {version}]
  <1>1. protocol[k] \in Protocol(Parameter, Receivers[k])
    BY DEF IInv, TypeOK
  <1>2. Sender[k] = Control /\ k \in Out(Control) /\ version \in Version /\ audio = "idle"
    BY DEF IInv, TypeOK, MutexHeld, Out
  <1>3. FrontData(protocol[k]) \in Parameter /\ value \in Parameter
    BY <1>1, <1>2, DataTypes DEF Parameter
  <1>4. protocol' = [protocol EXCEPT ![k] = WriteFront(protocol[k], value)]
    OBVIOUS
  <1> HIDE DEF value
  <1>5. /\ protocol'[k] \in Protocol(Parameter, Receivers[k])
        /\ BackData(protocol'[k]) = BackData(protocol[k])
        /\ FrontData(protocol'[k]) = value
        /\ protocol'[k].changed = protocol[k].changed
    BY <1>1, <1>3, <1>4, WriteFrontFacts DEF IInv, TypeOK
  <1>6. /\ DOMAIN protocol' = Connection
        /\ \A j \in Connection \ {k} : protocol'[j] = protocol[j]
    BY <1>4 DEF IInv, TypeOK
  <1>7. TypeOK'
    BY <1>5, <1>6 DEF IInv, TypeOK
  <1>8. MutexHeld' /\ UpdateIdle'
    BY DEF IInv, MutexHeld, UpdateIdle
  <1>9. NoLostUpdate'
    BY <1>5, <1>6 DEF IInv, NoLostUpdate, Changed
  <1>10. GlitchFree'
    BY DEF IInv, GlitchFree
  <1>11. ControlPublished'
    <2> SUFFICES ASSUME NEW j \in Out(Control)
                 PROVE  /\ j \notin unswapped => BackData(protocol'[j]) = Uniform({version})
                        /\ j \in unswapped =>
                             \A d \in Element : <<j, d>> \notin unwritten' =>
                               FrontData(protocol'[j])[d] = {version}
      BY DEF ControlPublished
    <2>1. CASE j = k
      <3>1. \A d \in Element : value[d] = IF d = e THEN {version} ELSE FrontData(protocol[k])[d]
        BY <1>3 DEF value, Parameter
      <3>2. \A d \in Element : <<k, d>> \notin unwritten' => d = e \/ <<k, d>> \notin unwritten
        OBVIOUS
      <3>3. QED
        BY <2>1, <3>1, <3>2, <1>5 DEF IInv, ControlPublished
    <2>2. CASE j # k
      <3>1. protocol'[j] = protocol[j]
        BY <2>2, <1>6 DEF Out
      <3>2. \A d \in Element : <<j, d>> \notin unwritten' => <<j, d>> \notin unwritten
        BY <2>2
      <3>3. QED
        BY <3>1, <3>2 DEF IInv, ControlPublished
    <2>3. QED
      BY <2>1, <2>2
  <1>12. OutputsMatch'
    BY <1>5, <1>6 DEF IInv, OutputsMatch, Out
  <1>13. CaughtUp' /\ ReadingBack'
    BY <1>2 DEF CaughtUp, ReadingBack
  <1>14. QED
    BY <1>7, <1>8, <1>9, <1>10, <1>11, <1>12, <1>13 DEF IInv

LEMMA PublishIInv ==
  ASSUME IInv, NEW k \in Connection, Publish(k)
  PROVE  IInv'
  <1> USE DEF Publish, audioVars
  <1>1. protocol[k] \in Protocol(Parameter, Receivers[k])
    BY DEF IInv, TypeOK
  <1>2. Sender[k] = Control /\ k \in Out(Control) /\ audio = "idle"
    BY DEF IInv, TypeOK, MutexHeld, Out
  <1>3. FrontData(protocol[k]) = Uniform({version})
    <2>1. \A e \in Element : FrontData(protocol[k])[e] = {version}
      BY <1>2 DEF IInv, ControlPublished
    <2>2. FrontData(protocol[k]) \in [Element -> SUBSET Version]
      BY <1>1, DataTypes DEF Parameter
    <2>3. QED
      BY <2>1, <2>2 DEF Uniform
  <1>4. /\ protocol'[k] \in Protocol(Parameter, Receivers[k])
        /\ BackData(protocol'[k]) = Uniform({version})
        /\ \A r \in Receivers[k] : Changed(protocol'[k], r)
    <2>1. protocol'[k] = SwapBuffers(protocol[k], FALSE)
      BY DEF IInv, TypeOK
    <2>2. /\ SwapBuffers(protocol[k], FALSE) \in Protocol(Parameter, Receivers[k])
          /\ BackData(SwapBuffers(protocol[k], FALSE)) = FrontData(protocol[k])
          /\ \A r \in Receivers[k] : Changed(SwapBuffers(protocol[k], FALSE), r)
      <3> HIDE DEF Publish
      <3> QED
        BY <1>1, SwapBuffersFacts
    <2> QED
      BY <1>3, <2>1, <2>2
  <1>5. /\ DOMAIN protocol' = Connection
        /\ \A j \in Connection \ {k} : protocol'[j] = protocol[j]
    BY DEF IInv, TypeOK
  <1>6. TypeOK'
    <2>1. TypeOK
      BY DEF IInv
    <2>2. \A j \in Connection : protocol'[j] \in Protocol(Parameter, Receivers[j])
      BY <1>4, <1>5, <2>1 DEF TypeOK
    <2>3. unswapped' \subseteq Out(Control)
      BY <2>1 DEF TypeOK
    <2> QED
      BY <1>5, <2>1, <2>2, <2>3, Zenon DEF TypeOK
  <1>7. MutexHeld' /\ UpdateIdle'
    BY DEF IInv, MutexHeld, UpdateIdle
  <1>8. NoLostUpdate'
    BY <1>4, <1>5 DEF IInv, NoLostUpdate
  <1>9. GlitchFree'
    BY DEF IInv, GlitchFree
  <1>10. ControlPublished'
    <2> SUFFICES ASSUME NEW j \in Out(Control)
                 PROVE  /\ j \notin unswapped' => BackData(protocol'[j]) = Uniform({version})
                        /\ j \in unswapped' =>
                             \A d \in Element : <<j, d>> \notin unwritten =>
                               FrontData(protocol'[j])[d] = {version}
      BY DEF ControlPublished
    <2>1. CASE j = k
      BY <1>4, <2>1
    <2>2. CASE j # k
      BY <2>2, <1>5 DEF IInv, ControlPublished, Out
    <2>3. QED
      BY <2>1, <2>2
  <1>11. OutputsMatch'
    <2> SUFFICES ASSUME NEW b \in Component, NEW j \in Out(b)
                 PROVE  (BackData(protocol[j]) = Uniform(UNION {held[i][b] : i \in In(b)}))'
      BY DEF OutputsMatch
    <2>1. protocol'[j] = protocol[j]
      BY <1>2, <1>5, FlowAssumption DEF Out
    <2>2. QED
      BY <2>1 DEF IInv, OutputsMatch
  <1>12. CaughtUp' /\ ReadingBack'
    BY <1>2 DEF CaughtUp, ReadingBack
  <1>13. QED
    BY <1>6, <1>7, <1>8, <1>9, <1>10, <1>11, <1>12 DEF IInv

LEMMA PollOutputIInv ==
  ASSUME IInv, NEW k \in Connection, PollOutput(k)
  PROVE  IInv'
  <1> USE DEF PollOutput, audioVars, controlVars
  <1>1. protocol[k] \in Protocol(Parameter, Receivers[k])
    BY DEF IInv, TypeOK
  <1>2. Sender[k] # Control /\ audio = "idle" /\ Control \in Owner
    BY ScheduleAssumption DEF IInv, MutexHeld, Owner
  <1>3. /\ protocol'[k] \in Protocol(Parameter, Receivers[k])
        /\ BackData(protocol'[k]) = BackData(protocol[k])
        /\ \A r \in Receivers[k] \ {Control} : Changed(protocol'[k], r) = Changed(protocol[k], r)
    BY <1>1, ResetChangedFacts DEF IInv, TypeOK
  <1>4. /\ DOMAIN protocol' = Connection
        /\ \A j \in Connection \ {k} : protocol'[j] = protocol[j]
    BY DEF IInv, TypeOK
  <1>5. Provenance(BackData(protocol[k])) \in SUBSET Version
    BY <1>1, DataTypes, ProvenanceType
  <1>6. /\ held' \in [Connection -> [Owner -> SUBSET Version]]
        /\ held'[k][Control] = Provenance(BackData(protocol[k]))
        /\ \A j \in Connection : \A r \in Owner : j # k \/ r # Control => held'[j][r] = held[j][r]
    BY <1>2, <1>5 DEF IInv, TypeOK
  <1>7. TypeOK'
    BY <1>3, <1>4, <1>6 DEF IInv, TypeOK
  <1>8. MutexHeld' /\ UpdateIdle'
    BY DEF IInv, MutexHeld, UpdateIdle
  <1>9. NoLostUpdate'
    <2> SUFFICES ASSUME NEW j \in Connection, NEW r \in Receivers[j], ~ Changed(protocol'[j], r)
                 PROVE  held'[j][r] = Provenance(BackData(protocol'[j]))
      BY DEF NoLostUpdate
    <2>1. BackData(protocol'[j]) = BackData(protocol[j]) /\ r \in Owner
      BY <1>3, <1>4, FlowAssumption
    <2>2. CASE j = k /\ r = Control
      BY <2>1, <2>2, <1>6
    <2>3. CASE j # k \/ r # Control
      BY <2>1, <2>3, <1>3, <1>4, <1>6 DEF IInv, NoLostUpdate
    <2>4. QED
      BY <2>2, <2>3
  <1>10. \A j \in Connection : \A c \in Component : held'[j][c] = held[j][c]
    BY <1>6, FlowAssumption DEF Owner
  <1>11. GlitchFree'
    BY <1>10 DEF IInv, GlitchFree, In
  <1>12. ControlPublished'
    <2> SUFFICES ASSUME NEW j \in Out(Control) PROVE protocol'[j] = protocol[j]
      BY DEF IInv, ControlPublished
    <2>1. QED
      BY <1>2, <1>4 DEF Out
  <1>13. OutputsMatch'
    <2> SUFFICES ASSUME NEW b \in Component, NEW j \in Out(b)
                 PROVE  (BackData(protocol[j]) = Uniform(UNION {held[i][b] : i \in In(b)}))'
      BY DEF OutputsMatch
    <2>1. BackData(protocol'[j]) = BackData(protocol[j])
      BY <1>3, <1>4 DEF Out
    <2>2. {held'[i][b] : i \in In(b)} = {held[i][b] : i \in In(b)}
      BY <1>10 DEF In
    <2>3. QED
      BY <2>1, <2>2 DEF IInv, OutputsMatch
  <1>14. CaughtUp' /\ ReadingBack'
    BY <1>2 DEF CaughtUp, ReadingBack
  <1>15. QED
    BY <1>7, <1>8, <1>9, <1>11, <1>12, <1>13, <1>14 DEF IInv

LEMMA StutterIInv == IInv /\ UNCHANGED vars => IInv'
  <1> SUFFICES ASSUME IInv, UNCHANGED vars PROVE IInv'
    OBVIOUS
  <1> USE DEF vars, audioVars, controlVars
  <1>1. TypeOK' /\ MutexHeld' /\ UpdateIdle'
    BY DEF IInv, TypeOK, MutexHeld, UpdateIdle
  <1>2. CaughtUp' /\ ReadingBack'
    BY DEF IInv, CaughtUp, UpToDate, ReadingBack, ChangedInputs, Current, In
  <1>3. QED
    BY <1>1, <1>2, QuietStep DEF IInv

LEMMA NextIInv == IInv /\ [Next]_vars => IInv'
  BY BeginCycleIInv, SkipComponentIInv, EnterComponentIInv, FinishComponentIInv,
     FailComponentIInv, EndCycleIInv, BeginUpdateIInv, WriteElementIInv, PublishIInv,
     PollOutputIInv, EndUpdateIInv, StutterIInv DEF Next, AudioStep, UpdateStep

-----------------------------------------------------------------------------
THEOREM Inductive == Spec => []IInv
  BY InitIInv, NextIInv, PTL DEF Spec

\* The variables keep their types, and the mutex excludes the two threads
\* from each other's critical sections.
THEOREM TypeCorrect == Spec => []TypeOK
  <1>1. IInv => TypeOK
    BY DEF IInv
  <1>2. QED
    BY <1>1, Inductive, PTL

\* No swapBuffers() is missed: a receiver that sees no change holds the value
\* of the back object, for every flow and whatever components throw.
THEOREM UpdatesNotLost == Spec => []NoLostUpdate
  <1>1. IInv => NoLostUpdate
    BY DEF IInv
  <1>2. QED
    BY <1>1, Inductive, PTL

\* Components never mix parameters of different updates of the control thread,
\* for every schedule that respects the connections.
THEOREM NoGlitches == Spec => []GlitchFree
  <1>1. IInv => GlitchFree
    BY DEF IInv
  <1>2. QED
    BY <1>1, Inductive, PTL

\* A component only ever takes over the latest version of a parameter.
THEOREM LatestTakenOver == Spec => AlwaysLatest
  <1> DEFINE Latest == \A k \in Connection : \A c \in Component :
                         held'[k][c] # held[k][c] => held'[k][c] = {version}
  <1>1. ASSUME IInv, FinishComponent PROVE Latest
    <2> SUFFICES ASSUME NEW k \in Connection, NEW c \in Component, held'[k][c] # held[k][c]
                 PROVE  held'[k][c] = {version}
      OBVIOUS
    <2>1. c = Current /\ k \in In(c)
      BY <1>1, FinishFacts DEF Owner
    <2>2. QED
      BY <1>1, <2>1, FinishFacts
  <1>2. ASSUME IInv, NEW k \in Connection, PollOutput(k) PROVE Latest
    BY <1>2, FlowAssumption DEF PollOutput, IInv, TypeOK, Owner
  <1>3. ASSUME UNCHANGED held PROVE Latest
    BY <1>3
  <1>4. IInv /\ [Next]_vars => [Latest]_vars
    BY <1>1, <1>2, <1>3 DEF Next, AudioStep, UpdateStep, BeginCycle, SkipComponent,
       EnterComponent, FailComponent, EndCycle, BeginUpdate, WriteElement, Publish,
       EndUpdate, vars
  <1>5. QED
    BY <1>4, Inductive, PTL DEF Spec, AlwaysLatest
=============================================================================
