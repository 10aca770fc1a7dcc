----------------------- MODULE ReverbRenderingProofs ------------------------
(***************************************************************************)
(* The reverberation renderer and the object channel allocator in it, for  *)
(* any scenes, any number of channels and any limit of updates in a        *)
(* period: first the two loops of setObjects(), what holds between any two *)
(* of their rounds and what each of them does to the allocation; then the  *)
(* stages of a period.                                                     *)
(***************************************************************************)
EXTENDS ReverbRendering, CommonProofs

-----------------------------------------------------------------------------
(* The iterators.                                                          *)

\* Ids are numbers, and the end iterator is behind all of them.
LEMMA IdsBeforeEnd == End \in Nat /\ ObjectId \subseteq Nat /\ \A id \in ObjectId : id < End
BY AllocatorAssumption DEF End

\* begin() is the first key, or the end if there is none.
LEMMA FirstKeyFirst ==
  ASSUME NEW map, DOMAIN map \subseteq ObjectId
  PROVE  /\ FirstKey(map) \in DOMAIN map \cup {End}
         /\ \A k \in DOMAIN map : FirstKey(map) <= k
<1> DEFINE S == DOMAIN map \cup {End}
<1>1. S \subseteq Nat /\ S # {}
  BY IdsBeforeEnd
<1>2. Min(S) \in S /\ \A n \in S : Min(S) <= n
  BY <1>1, LeastNumber
<1> QED
  BY <1>2 DEF FirstKey

\* ++ goes to the next key, or to the end if there is none.
LEMMA NextKeyNext ==
  ASSUME NEW map, DOMAIN map \subseteq ObjectId, NEW key \in ObjectId
  PROVE  /\ NextKey(map, key) \in DOMAIN map \cup {End}
         /\ key < NextKey(map, key)
         /\ \A k \in DOMAIN map : k > key => NextKey(map, key) <= k
<1> DEFINE S == {k \in DOMAIN map : k > key} \cup {End}
<1>1. S \subseteq Nat /\ S # {} /\ \A n \in S : key < n
  BY IdsBeforeEnd
<1>2. Min(S) \in S /\ \A n \in S : Min(S) <= n
  BY <1>1, LeastNumber
<1> QED
  BY <1>1, <1>2 DEF NextKey

-----------------------------------------------------------------------------
(* The invariant of the loops.                                             *)

Requested == Range(sortedIds)

\* The ids before idIt.
Met(id) == \E i \in 1 .. idIt - 1 : id = sortedIds[i]

AllocatorTyped ==
  /\ DOMAIN lookup \subseteq ObjectId /\ lookup \in [DOMAIN lookup -> Channel]
  /\ unused \in Seq(Channel)
  /\ sortedIds \in Seq(ObjectId)
  /\ pass \in {"none", "remove", "insert"} /\ idIt \in 1 .. Len(sortedIds) + 1
  /\ lookupIt \in DOMAIN lookup \cup {End}

Accounted ==
  /\ IsInjective(lookup) /\ IsInjective(unused)
  /\ Range(lookup) \cap Range(unused) = {}
  /\ Range(lookup) \cup Range(unused) = Channel

SortedRequest ==
  /\ Len(sortedIds) <= MaxChannels
  /\ \A m, n \in DOMAIN sortedIds : m < n => sortedIds[m] < sortedIds[n]

\* The first pass: all ids that have been met are behind lookupIt, and so are no
\* keys but those of requested objects.
RemovePass ==
  pass = "remove" =>
    /\ \A i \in 1 .. idIt - 1 : sortedIds[i] < lookupIt
    /\ \A k \in DOMAIN lookup : k < lookupIt => k \in Requested

\* The second one: the keys behind lookupIt are the ids that have been met.
InsertPass ==
  pass = "insert" =>
    /\ DOMAIN lookup \subseteq Requested
    /\ \A i \in 1 .. idIt - 1 : sortedIds[i] \in DOMAIN lookup /\ sortedIds[i] < lookupIt
    /\ \A k \in DOMAIN lookup : k < lookupIt => Met(k)

AllocatorInv ==
  AllocatorTyped /\ Accounted /\ SortedRequest /\ RemovePass /\ InsertPass

-----------------------------------------------------------------------------
(* The channels.                                                           *)

\* Initially all channels are on the stack, the first one on top.
LEMMA InitialChannels ==
  ASSUME AllocatorInit
  PROVE  AllocatorInv
<1>1. lookup = <<>> /\ DOMAIN lookup = {} /\ Range(lookup) = {} /\ lookup \in [DOMAIN lookup -> Channel]
  BY DEF AllocatorInit, Range
<1>2. sortedIds = <<>> /\ Len(sortedIds) = 0 /\ DOMAIN sortedIds = {} /\ sortedIds \in Seq(ObjectId)
  BY DEF AllocatorInit
<1>3. MaxChannels \in Nat /\ DOMAIN unused = 1 .. MaxChannels
      /\ \A n \in 1 .. MaxChannels : unused[n] = MaxChannels - n
  BY AllocatorAssumption DEF AllocatorInit
<1>4. unused \in [1 .. MaxChannels -> Channel]
  BY <1>3 DEF AllocatorInit, Channel
<1>5. unused \in Seq(Channel)
  BY <1>3, <1>4, IsASeq
<1>6. IsInjective(unused) /\ IsInjective(lookup)
  BY <1>1, <1>3 DEF IsInjective
<1>7. Range(unused) = Channel
  <2>1. ASSUME NEW ch \in Channel
        PROVE  ch \in Range(unused)
    <3>1. MaxChannels - ch \in 1 .. MaxChannels /\ MaxChannels - (MaxChannels - ch) = ch
      BY <1>3 DEF Channel
    <3>2. unused[MaxChannels - ch] = ch
      BY <1>3, <3>1
    <3> QED
      BY <1>3, <3>1, <3>2 DEF Range
  <2> QED
    BY <1>3, <1>4, <2>1 DEF Range
<1>8. Accounted
  BY <1>1, <1>6, <1>7 DEF Accounted
<1>9. AllocatorTyped
  BY <1>1, <1>2, <1>5 DEF AllocatorTyped, AllocatorInit
<1>10. SortedRequest
  BY <1>2, <1>3 DEF SortedRequest
<1> QED
  BY <1>8, <1>9, <1>10 DEF AllocatorInv, RemovePass, InsertPass, AllocatorInit

\* releaseChannel() puts the channel of the erased object on the stack.
LEMMA ReleasedChannel ==
  ASSUME AllocatorTyped, Accounted, NEW id \in DOMAIN lookup,
         lookup' = Restrict(lookup, DOMAIN lookup \ {id}),
         unused' = Append(unused, lookup[id])
  PROVE  /\ DOMAIN lookup' = DOMAIN lookup \ {id} /\ lookup' \in [DOMAIN lookup' -> Channel]
         /\ unused' \in Seq(Channel)
         /\ Accounted'
<1> DEFINE ch == lookup[id]
           n == Len(unused)
<1>1. lookup \in [DOMAIN lookup -> Channel] /\ unused \in Seq(Channel) /\ ch \in Channel
  BY DEF AllocatorTyped
<1>2. /\ DOMAIN lookup' = DOMAIN lookup \ {id}
      /\ \A k \in DOMAIN lookup \ {id} : lookup'[k] = lookup[k]
      /\ lookup' \in [DOMAIN lookup' -> Channel]
  BY <1>1 DEF Restrict
<1>3. /\ unused' \in Seq(Channel) /\ n \in Nat /\ DOMAIN unused = 1 .. n
      /\ DOMAIN unused' = 1 .. n + 1
      /\ \A i \in 1 .. n : unused'[i] = unused[i]
      /\ unused'[n + 1] = ch
  <2>1. /\ Append(unused, ch) \in Seq(Channel) /\ Len(Append(unused, ch)) = n + 1
        /\ \A i \in 1 .. n : Append(unused, ch)[i] = unused[i]
        /\ Append(unused, ch)[n + 1] = ch
    BY <1>1, AppendProperties
  <2> QED
    BY <1>1, <2>1, LenProperties
<1>4. ch \notin Range(unused)
  BY <1>1 DEF Accounted, Range
<1>5. IsInjective(lookup')
  BY <1>2 DEF Accounted, IsInjective
<1>6. IsInjective(unused')
  <2>1. ASSUME NEW a \in 1 .. n + 1, NEW b \in 1 .. n + 1, unused'[a] = unused'[b]
        PROVE  a = b
    <3>1. CASE a = n + 1 /\ b = n + 1
      BY <3>1
    <3>2. CASE a # n + 1 /\ b # n + 1
      <4>1. a \in 1 .. n /\ b \in 1 .. n
        BY <1>3, <3>2
      <4> QED
        BY <1>3, <2>1, <4>1 DEF Accounted, IsInjective
    <3>3. CASE a = n + 1 /\ b # n + 1
      <4>1. b \in 1 .. n
        BY <1>3, <3>3
      <4> QED
        BY <1>3, <1>4, <2>1, <3>3, <4>1 DEF Range
    <3>4. CASE a # n + 1 /\ b = n + 1
      <4>1. a \in 1 .. n
        BY <1>3, <3>4
      <4> QED
        BY <1>3, <1>4, <2>1, <3>4, <4>1 DEF Range
    <3> QED
      BY <3>1, <3>2, <3>3, <3>4
  <2> QED
    BY <1>3, <2>1 DEF IsInjective
<1>7. Range(lookup') = Range(lookup) \ {ch}
  <2>1. \A k \in DOMAIN lookup : lookup[k] = ch => k = id
    BY DEF Accounted, IsInjective
  <2> QED
    BY <1>2, <2>1 DEF Range
<1>8. Range(unused') = Range(unused) \cup {ch}
  <2>1. ASSUME NEW c \in Range(unused')
        PROVE  c \in Range(unused) \cup {ch}
    <3>1. PICK a \in 1 .. n + 1 : c = unused'[a]
      BY <1>3, <2>1 DEF Range
    <3>2. a \in 1 .. n \/ a = n + 1
      BY <1>3
    <3> QED
      BY <1>3, <3>1, <3>2 DEF Range
  <2>2. ASSUME NEW c \in Range(unused) \cup {ch}
        PROVE  c \in Range(unused')
    <3>1. CASE c = ch
      <4>1. n + 1 \in 1 .. n + 1
        BY <1>3
      <4> QED
        BY <1>3, <3>1, <4>1 DEF Range
    <3>2. CASE c # ch
      <4>1. PICK a \in 1 .. n : c = unused[a]
        BY <1>3, <2>2, <3>2 DEF Range
      <4>2. a \in 1 .. n + 1
        BY <1>3
      <4> QED
        BY <1>3, <4>1, <4>2 DEF Range
    <3> QED
      BY <3>1, <3>2
  <2> QED
    BY <2>1, <2>2
<1>9. ch \in Range(lookup)
  BY DEF Range
<1>10. Accounted'
  BY <1>4, <1>5, <1>6, <1>7, <1>8, <1>9 DEF Accounted
<1> QED
  BY <1>2, <1>3, <1>10

\* getUnusedChannel() takes the channel from the top of the stack.
LEMMA TakenChannel ==
  ASSUME AllocatorTyped, Accounted, unused # <<>>, NEW id \in ObjectId \ DOMAIN lookup,
         lookup' = [i \in DOMAIN lookup \cup {id} |-> IF i = id THEN Last(unused) ELSE lookup[i]],
         unused' = Front(unused)
  PROVE  /\ DOMAIN lookup' = DOMAIN lookup \cup {id} /\ lookup' \in [DOMAIN lookup' -> Channel]
         /\ Last(unused) \in Channel \ Range(lookup)
         /\ unused' \in Seq(Channel)
         /\ Accounted'
<1> DEFINE ch == Last(unused)
           n == Len(unused)
<1>1. lookup \in [DOMAIN lookup -> Channel] /\ unused \in Seq(Channel) /\ DOMAIN unused = 1 .. n
  BY LenProperties DEF AllocatorTyped
<1>2. /\ n \in Nat \ {0} /\ ch \in Channel /\ ch = unused[n]
      /\ unused' \in Seq(Channel) /\ DOMAIN unused' = 1 .. n - 1
      /\ \A i \in 1 .. n - 1 : unused'[i] = unused[i]
  <2>1. /\ n \in Nat \ {0} /\ ch \in Channel /\ ch = unused[n]
        /\ Front(unused) \in Seq(Channel) /\ Len(Front(unused)) = n - 1
        /\ \A i \in 1 .. n - 1 : Front(unused)[i] = unused[i]
    BY <1>1, FrontAndLast
  <2> QED
    BY <2>1, LenProperties
<1> HIDE DEF ch
<1>3. /\ DOMAIN lookup' = DOMAIN lookup \cup {id} /\ lookup'[id] = ch
      /\ \A k \in DOMAIN lookup : lookup'[k] = lookup[k]
      /\ lookup' \in [DOMAIN lookup' -> Channel]
  BY <1>1, <1>2 DEF ch
<1>4. ch \in Range(unused)
  BY <1>1, <1>2 DEF Range
<1>5. ch \notin Range(lookup)
  BY <1>4 DEF Accounted
<1>6. IsInjective(lookup')
  BY <1>3, <1>5 DEF Accounted, IsInjective, Range
<1>7. IsInjective(unused')
  BY <1>1, <1>2 DEF Accounted, IsInjective
<1>8. Range(lookup') = Range(lookup) \cup {ch}
  BY <1>3 DEF Range
<1>9. Range(unused') = Range(unused) \ {ch}
  <2>1. ASSUME NEW c \in Range(unused')
        PROVE  c \in Range(unused) \ {ch}
    <3>1. PICK a \in 1 .. n - 1 : c = unused[a]
      BY <1>2, <2>1 DEF Range
    <3>2. a \in 1 .. n /\ a # n /\ n \in 1 .. n
      BY <1>2
    <3> QED
      BY <1>1, <1>2, <3>1, <3>2 DEF Range, Accounted, IsInjective
  <2>2. ASSUME NEW c \in Range(unused) \ {ch}
        PROVE  c \in Range(unused')
    <3>1. PICK a \in 1 .. n : c = unused[a]
      BY <1>1, <2>2 DEF Range
    <3>2. a \in 1 .. n - 1
      BY <1>2, <2>2, <3>1
    <3> QED
      BY <1>2, <3>1, <3>2 DEF Range
  <2> QED
    BY <2>1, <2>2
<1>10. Accounted'
  BY <1>4, <1>6, <1>7, <1>8, <1>9 DEF Accounted
<1> QED
  BY <1>2, <1>3, <1>5, <1>10 DEF ch

\* There are mMaxChannels channels.
LEMMA ChannelCount == IsFiniteSet(Channel) /\ Cardinality(Channel) = MaxChannels
<1>1. MaxChannels \in Nat /\ MaxChannels - 1 \in Int /\ 0 \in Int
  BY AllocatorAssumption
<1>2. /\ IsFiniteSet(0 .. MaxChannels - 1)
      /\ Cardinality(0 .. MaxChannels - 1) =
            IF 0 > MaxChannels - 1 THEN 0 ELSE MaxChannels - 1 - 0 + 1
  BY <1>1, FS_Interval
<1> QED
  BY <1>1, <1>2 DEF Channel

\* If an id is not in the map and the others are requested, there is a channel for it.
LEMMA ChannelLeft ==
  ASSUME AllocatorTyped, Accounted, SortedRequest,
         DOMAIN lookup \subseteq Requested, NEW id \in Requested \ DOMAIN lookup
  PROVE  unused # <<>>
<1> DEFINE n == Len(sortedIds)
           m == Cardinality(Requested)
           k == Cardinality(DOMAIN lookup)
<1>1. /\ n \in Nat /\ DOMAIN sortedIds = 1 .. n /\ n <= MaxChannels /\ MaxChannels \in Nat
      /\ sortedIds \in Surjection(1 .. n, Requested)
  <2>1. n \in Nat /\ DOMAIN sortedIds = 1 .. n /\ sortedIds \in [1 .. n -> Requested]
    BY LenProperties DEF AllocatorTyped, Requested, Range
  <2> QED
    BY <2>1, AllocatorAssumption DEF SortedRequest, Surjection, Requested, Range
<1>2. IsFiniteSet(1 .. n) /\ Cardinality(1 .. n) = n
  <2>1. n \in Int /\ 1 \in Int
    BY <1>1
  <2>2. IsFiniteSet(1 .. n) /\ Cardinality(1 .. n) = IF 1 > n THEN 0 ELSE n - 1 + 1
    <3> HIDE DEF n
    <3> QED
      BY <2>1, FS_Interval
  <2> QED
    BY <1>1, <2>2
<1>3. IsFiniteSet(Requested) /\ m <= n /\ m \in Nat
  BY <1>1, <1>2, FS_Surjection, FS_CardinalityType
<1>4. IsFiniteSet(DOMAIN lookup) /\ k \in Nat /\ k < m
  <2>1. DOMAIN lookup \in SUBSET Requested /\ DOMAIN lookup # Requested
    OBVIOUS
  <2>2. IsFiniteSet(DOMAIN lookup) /\ k <= m /\ k # m
    BY <1>3, <2>1, FS_Subset
  <2> QED
    BY <1>3, <2>2, FS_CardinalityType
<1>5. ASSUME unused = <<>>
      PROVE  FALSE
  <2>1. Range(lookup) = Channel
    BY <1>5 DEF Accounted, Range
  <2>2. lookup \in Surjection(DOMAIN lookup, Channel)
    BY <2>1 DEF Surjection, Range, AllocatorTyped
  <2>3. Cardinality(Channel) <= k
    BY <1>4, <2>2, FS_Surjection
  <2>4. Cardinality(Channel) = MaxChannels
    BY ChannelCount
  <2> QED
    BY <1>1, <1>3, <1>4, <2>3, <2>4
<1> QED
  BY <1>5

-----------------------------------------------------------------------------
(* The rounds of the loops, each with what it does to the allocation.      *)

\* The ids and keys are numbers, the ids in ascending order.
LEMMA IdsAndKeys ==
  ASSUME AllocatorTyped, SortedRequest
  PROVE  /\ Len(sortedIds) \in Nat /\ DOMAIN sortedIds = 1 .. Len(sortedIds) /\ idIt \in Nat \ {0}
         /\ \A i \in 1 .. Len(sortedIds) : sortedIds[i] \in ObjectId /\ sortedIds[i] \in Nat
         /\ Requested \subseteq ObjectId
         /\ DOMAIN lookup \subseteq Nat /\ lookupIt \in Nat /\ End \in Nat
         /\ \A k \in DOMAIN lookup : k < End
         /\ \A id \in ObjectId : id \in Nat /\ id < End
         /\ \A i \in 1 .. idIt - 1 : i \in 1 .. Len(sortedIds)
         /\ ~ IdsExhausted =>
              /\ idIt \in 1 .. Len(sortedIds) /\ sortedIds[idIt] \in Requested
              /\ \A i \in 1 .. idIt - 1 : sortedIds[i] < sortedIds[idIt]
              /\ \A i \in 1 .. Len(sortedIds) : i > idIt => sortedIds[idIt] < sortedIds[i]
<1>1. Len(sortedIds) \in Nat /\ DOMAIN sortedIds = 1 .. Len(sortedIds)
      /\ idIt \in 1 .. Len(sortedIds) + 1
  BY LenProperties DEF AllocatorTyped
<1>2. \A i \in 1 .. Len(sortedIds) : sortedIds[i] \in ObjectId /\ sortedIds[i] \in Nat
  BY ElementOfSeq, IdsBeforeEnd DEF AllocatorTyped
<1>3. Requested \subseteq ObjectId
  BY <1>1, <1>2 DEF Requested, Range
<1>4. /\ DOMAIN lookup \subseteq Nat /\ lookupIt \in Nat /\ End \in Nat
      /\ \A k \in DOMAIN lookup : k < End
      /\ \A id \in ObjectId : id \in Nat /\ id < End
  BY IdsBeforeEnd DEF AllocatorTyped
<1>5. ASSUME ~ IdsExhausted
      PROVE  /\ idIt \in 1 .. Len(sortedIds) /\ sortedIds[idIt] \in Requested
             /\ \A i \in 1 .. idIt - 1 : sortedIds[i] < sortedIds[idIt]
             /\ \A i \in 1 .. Len(sortedIds) : i > idIt => sortedIds[idIt] < sortedIds[i]
  <2>1. idIt \in 1 .. Len(sortedIds)
    BY <1>1, <1>5 DEF IdsExhausted
  <2>2. sortedIds[idIt] \in Requested
    BY <1>1, <2>1 DEF Requested, Range
  <2> QED
    BY <1>1, <2>1, <2>2 DEF SortedRequest
<1> QED
  BY <1>1, <1>2, <1>3, <1>4, <1>5

\* setObjects() begins.
LEMMA SetObjectsBegins ==
  ASSUME AllocatorInv, NEW ids, ids \subseteq ObjectId, SetObjects(ids)
  PROVE  /\ AllocatorInv' /\ Requested' = ids
         /\ Allocation!Request
<1> DEFINE n == Cardinality(ids)
<1>1. /\ pass = "none" /\ pass' = "remove" /\ idIt' = 1 /\ lookupIt' = FirstKey(lookup)
      /\ lookup' = lookup /\ unused' = unused /\ n <= MaxChannels
      /\ sortedIds' \in Sorted(ids)
  BY DEF SetObjects
<1>2. /\ sortedIds' \in [1 .. n -> ids] /\ Range(sortedIds') = ids
      /\ \A a, b \in DOMAIN sortedIds' : a < b => sortedIds'[a] < sortedIds'[b]
  BY <1>1 DEF Sorted
<1>3. n \in Nat
  <2>1. ObjectId \subseteq 0 .. InvalidObjectId - 1 /\ InvalidObjectId - 1 \in Int
    BY AllocatorAssumption
  <2>2. IsFiniteSet(0 .. InvalidObjectId - 1)
    BY <2>1, FS_Interval
  <2>3. ids \in SUBSET (0 .. InvalidObjectId - 1)
    BY <2>1
  <2>4. IsFiniteSet(ids)
    BY <2>2, <2>3, FS_Subset
  <2> QED
    BY <2>4, FS_CardinalityType
<1>4. sortedIds' \in Seq(ObjectId) /\ Len(sortedIds') = n
  <2>1. sortedIds' \in [1 .. n -> ObjectId]
    BY <1>2
  <2>2. sortedIds' \in Seq(ObjectId)
    BY <1>3, <2>1, IsASeq
  <2> QED
    BY <1>3, <2>1, <2>2, LenProperties
<1>5. /\ FirstKey(lookup) \in DOMAIN lookup \cup {End}
      /\ \A k \in DOMAIN lookup : FirstKey(lookup) <= k
  BY FirstKeyFirst DEF AllocatorInv, AllocatorTyped
<1>6. AllocatorTyped'
  BY <1>1, <1>3, <1>4, <1>5 DEF AllocatorInv, AllocatorTyped
<1>7. Accounted'
  BY <1>1 DEF AllocatorInv, Accounted
<1>8. SortedRequest'
  BY <1>1, <1>2, <1>4 DEF SortedRequest
<1>9. RemovePass' /\ InsertPass'
  <2>1. DOMAIN lookup \subseteq Nat
    BY IdsBeforeEnd DEF AllocatorInv, AllocatorTyped
  <2>2. FirstKey(lookup) \in Nat
    BY <1>5, <2>1, IdsBeforeEnd
  <2>3. 1 .. 1 - 1 = {}
    OBVIOUS
  <2> QED
    BY <1>1, <1>5, <2>1, <2>2, <2>3 DEF RemovePass, InsertPass
<1>10. Requested' = ids
  BY <1>2 DEF Requested
<1>11. Injection(ids, Channel) # {}
  <2> DEFINE pos(id) == CHOOSE i \in 1 .. n : sortedIds'[i] = id
             f == [id \in ids |-> pos(id) - 1]
  <2>1. ASSUME NEW id \in ids
        PROVE  pos(id) \in 1 .. n /\ sortedIds'[pos(id)] = id
    <3>1. \E i \in 1 .. n : sortedIds'[i] = id
      BY <1>2 DEF Range
    <3> QED
      BY <3>1
  <2>2. ASSUME NEW id \in ids
        PROVE  f[id] \in Channel /\ f[id] = pos(id) - 1
    <3> HIDE DEF pos
    <3> QED
      BY <1>1, <1>3, <2>1, AllocatorAssumption DEF Channel
  <2>3. ASSUME NEW a \in ids, NEW b \in ids, f[a] = f[b]
        PROVE  a = b
    <3>1. pos(a) = pos(b)
      <4> HIDE DEF pos, f
      <4> QED
        BY <1>3, <2>1, <2>2, <2>3
    <3> QED
      BY <2>1, <3>1
  <2>4. f \in [ids -> Channel] /\ DOMAIN f = ids
    BY <2>2
  <2> HIDE DEF f
  <2> QED
    BY <2>3, <2>4 DEF Injection, IsInjective
<1>12. Allocation!Request
  BY <1>1, <1>2, <1>11
  DEF Allocation!Request, Allocation!Injection, Allocation!IsInjective, Injection, IsInjective
<1> QED
  BY <1>6, <1>7, <1>8, <1>9, <1>10, <1>12 DEF AllocatorInv

\* A round of the first loop releases the channel of an object that is not requested,
\* or leaves the allocation alone.
LEMMA RemoveRound ==
  ASSUME AllocatorInv, RemoveStep
  PROVE  /\ AllocatorInv' /\ Requested' = Requested /\ pass' = pass
         /\ Allocation!Release \/ UNCHANGED Allocation!allocationVars
<1>1. /\ pass = "remove" /\ pass' = "remove" /\ sortedIds' = sortedIds
      /\ lookupIt \in DOMAIN lookup /\ lookupIt \in ObjectId
      /\ AllocatorTyped /\ Accounted /\ SortedRequest
      /\ \A i \in 1 .. idIt - 1 : sortedIds[i] < lookupIt
      /\ \A k \in DOMAIN lookup : k < lookupIt => k \in Requested
      /\ DOMAIN lookup \subseteq ObjectId
  BY DEF AllocatorInv, RemoveStep, AllocatorTyped, RemovePass
<1>2. SortedRequest' /\ InsertPass' /\ Requested' = Requested
  BY <1>1 DEF SortedRequest, InsertPass, Requested
<1> DEFINE next == NextKey(lookup, lookupIt)
<1>3. /\ next \in DOMAIN lookup \cup {End} /\ lookupIt < next
      /\ \A k \in DOMAIN lookup : k > lookupIt => next <= k
  BY <1>1, NextKeyNext
<1> HIDE DEF next
<1>4. /\ Len(sortedIds) \in Nat /\ DOMAIN sortedIds = 1 .. Len(sortedIds)
      /\ \A i \in 1 .. Len(sortedIds) : sortedIds[i] \in Nat
      /\ DOMAIN lookup \subseteq Nat /\ lookupIt \in Nat /\ End \in Nat
      /\ idIt \in Nat \ {0}
      /\ \A i \in 1 .. idIt - 1 : i \in 1 .. Len(sortedIds)
      /\ ~ IdsExhausted =>
           /\ idIt \in 1 .. Len(sortedIds) /\ sortedIds[idIt] \in Requested
           /\ \A i \in 1 .. idIt - 1 : sortedIds[i] < sortedIds[idIt]
           /\ \A i \in 1 .. Len(sortedIds) : i > idIt => sortedIds[idIt] < sortedIds[i]
  BY <1>1, IdsAndKeys
<1>5. CASE ReleaseChannel
  <2>1. /\ lookup' = Restrict(lookup, DOMAIN lookup \ {lookupIt})
        /\ unused' = Append(unused, lookup[lookupIt])
        /\ lookupIt' = next /\ idIt' = idIt /\ Gone
    BY <1>5 DEF ReleaseChannel, next
  <2>2. lookupIt \notin Requested
    <3>1. ASSUME NEW i \in 1 .. Len(sortedIds)
          PROVE  sortedIds[i] # lookupIt
      <4>1. CASE i \in 1 .. idIt - 1
        BY <1>1, <1>4, <4>1
      <4>2. CASE i \notin 1 .. idIt - 1
        <5>1. ~ IdsExhausted
          BY <1>4, <4>2 DEF IdsExhausted
        <5>2. lookupIt < sortedIds[idIt] /\ (i = idIt \/ sortedIds[idIt] < sortedIds[i])
          BY <1>4, <2>1, <4>2, <5>1 DEF Gone
        <5> QED
          BY <1>4, <5>1, <5>2
      <4> QED
        BY <4>1, <4>2
    <3> QED
      BY <1>4, <3>1 DEF Requested, Range
  <2>3. /\ DOMAIN lookup' = DOMAIN lookup \ {lookupIt} /\ lookup' \in [DOMAIN lookup' -> Channel]
        /\ unused' \in Seq(Channel) /\ Accounted'
    BY <1>1, <2>1, ReleasedChannel
  <2>4. AllocatorTyped'
    <3>1. next # lookupIt
      BY <1>3, <1>4
    <3> QED
      BY <1>1, <1>3, <2>1, <2>3, <3>1 DEF AllocatorTyped
  <2>5. RemovePass'
    <3>1. ASSUME NEW i \in 1 .. idIt - 1
          PROVE  sortedIds[i] < next
      BY <1>1, <1>3, <1>4
    <3>2. ASSUME NEW k \in DOMAIN lookup \ {lookupIt}, k < next
          PROVE  k \in Requested
      BY <1>1, <1>3, <1>4, <3>2
    <3> QED
      BY <1>1, <1>2, <2>1, <2>3, <3>1, <3>2 DEF RemovePass
  <2>6. Allocation!Release
    BY <1>1, <2>1, <2>2 DEF Allocation!Release, Allocation!Restrict, Restrict, Requested
  <2> QED
    BY <1>1, <1>2, <2>3, <2>4, <2>5, <2>6 DEF AllocatorInv
<1>6. CASE SkipId
  <2>1. /\ ~ IdsExhausted /\ ~ lookupIt < sortedIds[idIt]
        /\ lookup' = lookup /\ unused' = unused /\ idIt' = idIt + 1
        /\ lookupIt' = IF sortedIds[idIt] < lookupIt THEN lookupIt ELSE next
    BY <1>6 DEF SkipId, Gone, next
  <2>2. idIt \in 1 .. Len(sortedIds) /\ sortedIds[idIt] \in Requested /\ sortedIds[idIt] <= lookupIt
    BY <1>4, <2>1
  <2>3. AllocatorTyped'
    BY <1>1, <1>3, <1>4, <2>1, <2>2 DEF AllocatorTyped
  <2>4. Accounted'
    BY <1>1, <2>1 DEF Accounted
  <2>5. sortedIds[idIt] < lookupIt' /\ lookupIt <= lookupIt'
    BY <1>3, <1>4, <2>1, <2>2
  <2>6. \A i \in 1 .. idIt' - 1 : sortedIds[i] < lookupIt'
    <3>1. ASSUME NEW i \in 1 .. idIt' - 1
          PROVE  sortedIds[i] < lookupIt'
      <4>1. i \in 1 .. idIt - 1 \/ i = idIt
        BY <1>4, <2>1
      <4>2. sortedIds[i] \in Nat /\ lookupIt' \in Nat
        BY <1>3, <1>4, <2>1, <2>2, <4>1
      <4> QED
        BY <1>1, <1>4, <2>5, <4>1, <4>2
    <3> QED
      BY <3>1
  <2>7. \A k \in DOMAIN lookup : k < lookupIt' => k \in Requested
    <3>1. ASSUME NEW k \in DOMAIN lookup, k < lookupIt', ~ k < lookupIt
          PROVE  k \in Requested
      <4>1. lookupIt' = next /\ sortedIds[idIt] = lookupIt
        BY <1>4, <2>1, <2>2, <3>1
      <4>2. k = lookupIt
        BY <1>3, <1>4, <3>1, <4>1
      <4> QED
        BY <2>2, <4>1, <4>2
    <3> QED
      BY <1>1, <3>1
  <2>8. RemovePass'
    BY <1>1, <1>2, <2>1, <2>6, <2>7 DEF RemovePass
  <2>9. UNCHANGED Allocation!allocationVars
    BY <1>1, <2>1 DEF Allocation!allocationVars
  <2> QED
    BY <1>1, <1>2, <2>3, <2>4, <2>8, <2>9 DEF AllocatorInv
<1> QED
  BY <1>5, <1>6 DEF RemoveStep

\* After the first loop, all objects that have a channel are requested.
LEMMA RemoveEnds ==
  ASSUME AllocatorInv, EndRemove
  PROVE  /\ AllocatorInv' /\ Requested' = Requested /\ pass' = "insert"
         /\ UNCHANGED Allocation!allocationVars
<1>1. /\ pass = "remove" /\ pass' = "insert" /\ idIt' = 1 /\ lookupIt' = FirstKey(lookup)
      /\ lookup' = lookup /\ unused' = unused /\ sortedIds' = sortedIds /\ lookupIt = End
  BY DEF EndRemove
<1>2. /\ FirstKey(lookup) \in DOMAIN lookup \cup {End}
      /\ \A k \in DOMAIN lookup : FirstKey(lookup) <= k
  BY FirstKeyFirst DEF AllocatorInv, AllocatorTyped
<1>3. /\ DOMAIN lookup \subseteq Nat /\ \A k \in DOMAIN lookup : k < End
      /\ Len(sortedIds) \in Nat /\ End \in Nat
  BY IdsAndKeys DEF AllocatorInv
<1>4. DOMAIN lookup \subseteq Requested
  BY <1>1, <1>3 DEF AllocatorInv, RemovePass
<1>5. AllocatorTyped'
  BY <1>1, <1>2, <1>3 DEF AllocatorInv, AllocatorTyped
<1>6. Accounted' /\ SortedRequest' /\ RemovePass'
  BY <1>1 DEF AllocatorInv, Accounted, SortedRequest, RemovePass
<1>7. InsertPass'
  <2>1. ASSUME NEW k \in DOMAIN lookup, k < FirstKey(lookup)
        PROVE  FALSE
    BY <1>2, <1>3, <2>1
  <2>2. 1 .. 1 - 1 = {}
    OBVIOUS
  <2> QED
    BY <1>1, <1>4, <2>1, <2>2 DEF InsertPass, Requested
<1> QED
  BY <1>1, <1>5, <1>6, <1>7 DEF AllocatorInv, Allocation!allocationVars, Requested

\* In the second loop, the id at hand is not behind the key at hand.  If they differ, the
\* object has no channel yet, and there is one for it.
LEMMA InsertRound ==
  ASSUME AllocatorInv, InsertStep
  PROVE  /\ AllocatorInv' /\ Requested' = Requested /\ pass' = pass
         /\ Allocation!Allocate \/ UNCHANGED Allocation!allocationVars
<1> DEFINE id == sortedIds[idIt]
           next == NextKey(lookup, lookupIt)
<1>1. /\ pass = "insert" /\ ~ IdsExhausted /\ idIt' = idIt + 1 /\ sortedIds' = sortedIds
      /\ AllocatorTyped /\ Accounted /\ SortedRequest
      /\ DOMAIN lookup \subseteq Requested
      /\ \A i \in 1 .. idIt - 1 : sortedIds[i] \in DOMAIN lookup /\ sortedIds[i] < lookupIt
      /\ \A k \in DOMAIN lookup : k < lookupIt => \E i \in 1 .. idIt - 1 : k = sortedIds[i]
      /\ DOMAIN lookup \subseteq ObjectId /\ lookupIt \in DOMAIN lookup \cup {End}
  BY DEF AllocatorInv, InsertStep, AllocatorTyped, InsertPass, Met
<1>2. SortedRequest' /\ Requested' = Requested
  BY <1>1 DEF SortedRequest, Requested
<1>3. /\ Len(sortedIds) \in Nat /\ DOMAIN sortedIds = 1 .. Len(sortedIds)
      /\ \A i \in 1 .. Len(sortedIds) : sortedIds[i] \in ObjectId /\ sortedIds[i] \in Nat
      /\ DOMAIN lookup \subseteq Nat /\ lookupIt \in Nat /\ End \in Nat
      /\ \A k \in ObjectId : k \in Nat /\ k < End
      /\ idIt \in Nat \ {0} /\ idIt \in 1 .. Len(sortedIds) /\ id \in Requested
      /\ \A i \in 1 .. idIt - 1 : i \in 1 .. Len(sortedIds) /\ sortedIds[i] < id
      /\ \A i \in 1 .. Len(sortedIds) : i > idIt => id < sortedIds[i]
  <2> HIDE DEF id
  <2> QED
    BY <1>1, IdsAndKeys DEF id
<1>4. id \in ObjectId /\ id \in Nat
  BY <1>3
<1>5. \A i \in 1 .. idIt : i \in 1 .. idIt - 1 \/ i = idIt
  BY <1>3
<1>6. id <= lookupIt
  <2>1. CASE lookupIt = End
    BY <1>3, <1>4, <2>1
  <2>2. CASE lookupIt # End
    <3>1. lookupIt \in Requested
      BY <1>1, <2>2
    <3>2. PICK j \in 1 .. Len(sortedIds) : lookupIt = sortedIds[j]
      BY <1>3, <3>1 DEF Requested, Range
    <3>3. j \notin 1 .. idIt - 1
      <4> HIDE DEF id
      <4> QED
        BY <1>1, <1>3, <3>2
    <3>4. j = idIt \/ j > idIt
      BY <1>3, <3>3
    <3> QED
      BY <1>3, <1>4, <3>2, <3>4
  <2> QED
    BY <2>1, <2>2
<1>7. CASE AllocateChannel
  <2>1. id < lookupIt
    BY <1>7 DEF AllocateChannel
  <2>2. id \notin DOMAIN lookup
    <3> HIDE DEF id
    <3> QED
      BY <1>1, <1>3, <1>4, <2>1
  <2>3. unused # <<>>
    BY <1>1, <1>3, <2>2, ChannelLeft
  <2>4. /\ unused' = Front(unused) /\ pass' = pass /\ lookupIt' = lookupIt
        /\ lookup' = [i \in DOMAIN lookup \cup {id} |-> IF i = id THEN Last(unused) ELSE lookup[i]]
    BY <1>7, <2>2, <2>3 DEF AllocateChannel, UnusedPopped
  <2> HIDE DEF id
  <2>5. /\ DOMAIN lookup' = DOMAIN lookup \cup {id} /\ lookup' \in [DOMAIN lookup' -> Channel]
        /\ Last(unused) \in Channel \ Range(lookup)
        /\ unused' \in Seq(Channel) /\ Accounted'
    BY <1>1, <1>4, <2>2, <2>3, <2>4, TakenChannel
  <2>6. AllocatorTyped'
    <3>1. DOMAIN lookup' \subseteq ObjectId /\ lookupIt' \in DOMAIN lookup' \cup {End}
      BY <1>1, <1>4, <2>4, <2>5
    <3>2. idIt' \in 1 .. Len(sortedIds') + 1
      BY <1>1, <1>3
    <3> QED
      BY <1>1, <2>4, <2>5, <3>1, <3>2 DEF AllocatorTyped
  <2>7. RemovePass'
    BY <1>1, <2>4 DEF RemovePass
  <2>8. InsertPass'
    <3>1. DOMAIN lookup' \subseteq Requested'
      BY <1>1, <1>2, <1>3, <2>5
    <3>2. \A i \in 1 .. idIt' - 1 : i \in 1 .. idIt
      BY <1>1, <1>3
    <3>3. \A i \in 1 .. idIt' - 1 : sortedIds[i] \in DOMAIN lookup' /\ sortedIds[i] < lookupIt'
      BY <1>1, <1>5, <2>1, <2>4, <2>5, <3>2 DEF id
    <3>4. ASSUME NEW k \in DOMAIN lookup', k < lookupIt'
          PROVE  \E i \in 1 .. idIt' - 1 : k = sortedIds[i]
      <4>1. CASE k = id
        <5>1. idIt \in 1 .. idIt' - 1
          BY <1>1, <1>3
        <5> QED
          BY <4>1, <5>1 DEF id
      <4>2. CASE k # id
        <5>1. PICK i \in 1 .. idIt - 1 : k = sortedIds[i]
          BY <1>1, <2>4, <2>5, <3>4, <4>2
        <5>2. i \in 1 .. idIt' - 1
          BY <1>1, <1>3
        <5> QED
          BY <5>1, <5>2
      <4> QED
        BY <4>1, <4>2
    <3> QED
      BY <1>1, <3>1, <3>3, <3>4 DEF InsertPass, Met
  <2>9. Allocation!Allocate
    <3>1. id \in Range(sortedIds) \ DOMAIN lookup
      BY <1>3, <2>2 DEF Requested
    <3> QED
      BY <1>1, <2>4, <2>5, <3>1 DEF Allocation!Allocate, Allocation!Range, Range
  <2> QED
    BY <1>2, <2>4, <2>5, <2>6, <2>7, <2>8, <2>9 DEF AllocatorInv
<1>8. CASE KeepChannel
  <2>1. /\ lookupIt <= id /\ lookupIt' = next
        /\ lookup' = lookup /\ unused' = unused /\ pass' = pass
    BY <1>8 DEF KeepChannel
  <2> HIDE DEF id, next
  <2>2. id = lookupIt /\ lookupIt \in DOMAIN lookup
    BY <1>1, <1>3, <1>4, <1>6, <2>1
  <2>3. /\ next \in DOMAIN lookup \cup {End} /\ lookupIt < next /\ next \in Nat
        /\ \A k \in DOMAIN lookup : k > lookupIt => next <= k
    <3>1. /\ next \in DOMAIN lookup \cup {End} /\ lookupIt < next
          /\ \A k \in DOMAIN lookup : k > lookupIt => next <= k
      BY <1>1, <1>4, <2>2, NextKeyNext DEF next
    <3> QED
      BY <1>3, <3>1
  <2>4. AllocatorTyped'
    <3>1. idIt' \in 1 .. Len(sortedIds') + 1
      BY <1>1, <1>3
    <3> QED
      BY <1>1, <2>1, <2>3, <3>1 DEF AllocatorTyped
  <2>5. Accounted' /\ RemovePass'
    BY <1>1, <2>1 DEF Accounted, RemovePass
  <2>6. InsertPass'
    <3>1. \A i \in 1 .. idIt' - 1 : i \in 1 .. idIt
      BY <1>1, <1>3
    <3>2. ASSUME NEW i \in 1 .. idIt' - 1
          PROVE  sortedIds[i] \in DOMAIN lookup /\ sortedIds[i] < next
      <4>1. CASE i = idIt
        BY <2>2, <2>3, <4>1 DEF id
      <4>2. CASE i # idIt
        <5>1. i \in 1 .. idIt - 1
          BY <1>5, <3>1, <4>2
        <5>2. sortedIds[i] \in DOMAIN lookup /\ sortedIds[i] < lookupIt /\ sortedIds[i] \in Nat
          BY <1>1, <1>3, <5>1
        <5> QED
          BY <1>3, <2>3, <5>2
      <4> QED
        BY <4>1, <4>2
    <3>3. ASSUME NEW k \in DOMAIN lookup, k < next
          PROVE  \E i \in 1 .. idIt' - 1 : k = sortedIds[i]
      <4>1. CASE k = id
        <5>1. idIt \in 1 .. idIt' - 1
          BY <1>1, <1>3
        <5> QED
          BY <4>1, <5>1 DEF id
      <4>2. CASE k # id
        <5>1. k < lookupIt
          BY <1>3, <2>2, <2>3, <3>3, <4>2
        <5>2. PICK i \in 1 .. idIt - 1 : k = sortedIds[i]
          BY <1>1, <5>1
        <5>3. i \in 1 .. idIt' - 1
          BY <1>1, <1>3
        <5> QED
          BY <5>2, <5>3
      <4> QED
        BY <4>1, <4>2
    <3> QED
      BY <1>1, <1>2, <2>1, <3>2, <3>3 DEF InsertPass, Met
  <2>7. UNCHANGED Allocation!allocationVars
    BY <1>1, <2>1 DEF Allocation!allocationVars
  <2> QED
    BY <1>2, <2>1, <2>4, <2>5, <2>6, <2>7 DEF AllocatorInv
<1> QED
  BY <1>7, <1>8 DEF InsertStep

\* After the second loop, each requested object has a channel and no other one does.
LEMMA InsertEnds ==
  ASSUME AllocatorInv, EndInsert
  PROVE  /\ AllocatorInv' /\ pass' = "none" /\ lookup' = lookup /\ DOMAIN lookup' = Requested
         /\ Allocation!Finish
<1>1. /\ pass = "insert" /\ IdsExhausted
      /\ pass' = "none" /\ sortedIds' = <<>> /\ idIt' = 1 /\ lookupIt' = End
      /\ lookup' = lookup /\ unused' = unused
  BY DEF EndInsert
<1>2. DOMAIN lookup = Requested
  <2>1. /\ Len(sortedIds) \in Nat /\ DOMAIN sortedIds = 1 .. Len(sortedIds)
        /\ idIt \in Nat \ {0} /\ idIt \in 1 .. Len(sortedIds) + 1
    BY IdsAndKeys DEF AllocatorInv, AllocatorTyped
  <2>2. \A i \in 1 .. Len(sortedIds) : i \in 1 .. idIt - 1
    BY <1>1, <2>1 DEF IdsExhausted
  <2>3. \A i \in 1 .. Len(sortedIds) : sortedIds[i] \in DOMAIN lookup
    BY <1>1, <2>2 DEF AllocatorInv, InsertPass
  <2> QED
    BY <1>1, <2>1, <2>3 DEF AllocatorInv, InsertPass, Requested, Range
<1>3. sortedIds' \in Seq(ObjectId) /\ Len(sortedIds') = 0 /\ DOMAIN sortedIds' = {}
  BY <1>1
<1>4. AllocatorTyped'
  BY <1>1, <1>3 DEF AllocatorInv, AllocatorTyped
<1>5. Accounted' /\ RemovePass' /\ InsertPass'
  BY <1>1 DEF AllocatorInv, Accounted, RemovePass, InsertPass
<1>6. SortedRequest'
  BY <1>3, AllocatorAssumption DEF SortedRequest
<1>7. Allocation!Finish
  BY <1>1, <1>2 DEF Allocation!Finish, Requested
<1> QED
  BY <1>1, <1>2, <1>4, <1>5, <1>6, <1>7 DEF AllocatorInv

\* setObjects(), round by round.
LEMMA AllocatorRound ==
  ASSUME AllocatorInv, AllocatorStep
  PROVE  /\ AllocatorInv'
         /\ \/ pass' # "none" /\ Requested' = Requested
            \/ pass' = "none" /\ DOMAIN lookup' = Requested
         /\ [Allocation!Next]_Allocation!allocationVars
<1>1. CASE RemoveStep
  BY <1>1, RemoveRound DEF RemoveStep, Allocation!Next
<1>2. CASE EndRemove
  BY <1>2, RemoveEnds
<1>3. CASE InsertStep
  BY <1>3, InsertRound DEF InsertStep, Allocation!Next
<1>4. CASE EndInsert
  BY <1>4, InsertEnds DEF Allocation!Next
<1> QED
  BY <1>1, <1>2, <1>3, <1>4 DEF AllocatorStep

-----------------------------------------------------------------------------
(* The filter that prevails.                                               *)

\* The greatest number of a bounded set is the one that no other exceeds.
LEMMA GreatestIs ==
  ASSUME NEW b \in Nat, NEW S, S \subseteq 0 .. b, NEW x \in S, \A n \in S : n <= x
  PROVE  Max(S) = x
<1>1. Max(S) \in S /\ \A n \in S : n <= Max(S)
  BY GreatestNumber
<1> HIDE DEF Max
<1>2. Max(S) <= x /\ x <= Max(S) /\ Max(S) \in 0 .. b /\ x \in 0 .. b
  BY <1>1
<1> QED
  BY <1>2

\* The messages for a channel.
Places(messages, ch) == {n \in DOMAIN messages : messages[n].channel = ch}

LEMMA PlacesInSequence ==
  ASSUME NEW s \in Seq(Message), NEW ch
  PROVE  /\ Places(s, ch) \subseteq 1 .. Len(s) /\ Places(s, ch) \subseteq 0 .. Len(s)
         /\ Len(s) \in Nat
BY LenProperties DEF Places

\* The filter after two sequences of messages is the one after the second sequence,
\* if the filter in use is the one after the first.
LEMMA LatestOfConcatenation ==
  ASSUME NEW s \in Seq(Message), NEW t \in Seq(Message), NEW ch, NEW filter
  PROVE  LatestFilter(s \o t, ch, filter) = LatestFilter(t, ch, LatestFilter(s, ch, filter))
<1> DEFINE c == s \o t
           m == Len(s)
<1>1. /\ c \in Seq(Message) /\ Len(c) = m + Len(t) /\ m \in Nat /\ Len(t) \in Nat
      /\ \A i \in 1 .. m + Len(t) : c[i] = IF i <= m THEN s[i] ELSE t[i - m]
      /\ DOMAIN s = 1 .. m /\ DOMAIN t = 1 .. Len(t) /\ DOMAIN c = 1 .. m + Len(t)
  <2>1. /\ c \in Seq(Message) /\ Len(c) = m + Len(t)
        /\ \A i \in 1 .. m + Len(t) : c[i] = IF i <= m THEN s[i] ELSE t[i - m]
    BY ConcatProperties
  <2> HIDE DEF c
  <2> QED
    BY <2>1, LenProperties
<1> HIDE DEF c
<1>2. /\ Places(s, ch) \subseteq 0 .. m /\ Places(t, ch) \subseteq 0 .. Len(t)
      /\ Places(c, ch) \subseteq 0 .. m + Len(t)
  BY <1>1, PlacesInSequence
<1>3. \A i \in 1 .. m : c[i] = s[i]
  BY <1>1
<1>4. \A i \in 1 .. Len(t) : c[m + i] = t[i] /\ m + i \in 1 .. m + Len(t)
  <2>1. ASSUME NEW i \in 1 .. Len(t)
        PROVE  c[m + i] = t[i] /\ m + i \in 1 .. m + Len(t)
    <3>1. m + i \in 1 .. m + Len(t) /\ ~ m + i <= m /\ m + i - m = i
      BY <1>1
    <3> QED
      BY <1>1, <3>1
  <2> QED
    BY <2>1
<1>5. CASE Places(t, ch) # {}
  <2> DEFINE x == Max(Places(t, ch))
  <2>1. x \in Places(t, ch) /\ \A n \in Places(t, ch) : n <= x
    BY <1>1, <1>2, <1>5, GreatestNumber
  <2> HIDE DEF x
  <2>2. x \in 1 .. Len(t) /\ t[x].channel = ch
    BY <1>1, <2>1 DEF Places
  <2>3. m + x \in Places(c, ch) /\ c[m + x] = t[x]
    BY <1>1, <1>4, <2>2 DEF Places
  <2>4. ASSUME NEW n \in Places(c, ch)
        PROVE  n <= m + x
    <3>1. n \in 1 .. m + Len(t) /\ c[n].channel = ch
      BY <1>1 DEF Places
    <3>2. CASE n <= m
      BY <1>1, <2>2, <3>1, <3>2
    <3>3. CASE ~ n <= m
      <4>1. n - m \in 1 .. Len(t) /\ c[n] = t[n - m]
        BY <1>1, <3>1, <3>3
      <4>2. n - m \in Places(t, ch)
        BY <1>1, <3>1, <4>1 DEF Places
      <4>3. n - m <= x
        BY <2>1, <4>2
      <4> QED
        BY <1>1, <2>2, <3>1, <4>3
    <3> QED
      BY <3>2, <3>3
  <2>5. Max(Places(c, ch)) = m + x
    <3>1. m + Len(t) \in Nat
      BY <1>1
    <3> QED
      BY <1>2, <2>3, <2>4, <3>1, GreatestIs
  <2>6. LatestFilter(c, ch, filter) = t[x].late
    BY <2>3, <2>5 DEF LatestFilter, Places
  <2>7. LatestFilter(t, ch, LatestFilter(s, ch, filter)) = t[x].late
    BY <1>5 DEF LatestFilter, Places, x
  <2> QED
    BY <2>6, <2>7 DEF c
<1>6. CASE Places(t, ch) = {}
  <2>1. Places(c, ch) = Places(s, ch)
    <3>1. ASSUME NEW n \in Places(c, ch)
          PROVE  n \in Places(s, ch)
      <4>1. n \in 1 .. m + Len(t) /\ c[n].channel = ch
        BY <1>1 DEF Places
      <4>2. n <= m
        <5>1. ASSUME ~ n <= m
              PROVE  FALSE
          <6>1. n - m \in 1 .. Len(t) /\ c[n] = t[n - m]
            BY <1>1, <4>1, <5>1
          <6> QED
            BY <1>1, <1>6, <4>1, <6>1 DEF Places
        <5> QED
          BY <5>1
      <4>3. n \in 1 .. m
        BY <1>1, <4>1, <4>2
      <4> QED
        BY <1>1, <1>3, <4>1, <4>3 DEF Places
    <3>2. ASSUME NEW n \in Places(s, ch)
          PROVE  n \in Places(c, ch)
      <4>1. n \in 1 .. m /\ s[n].channel = ch
        BY <1>1 DEF Places
      <4>2. n \in 1 .. m + Len(t)
        BY <1>1, <4>1
      <4> QED
        BY <1>1, <1>3, <4>1, <4>2 DEF Places
    <3> QED
      BY <3>1, <3>2
  <2>2. LatestFilter(t, ch, LatestFilter(s, ch, filter)) = LatestFilter(s, ch, filter)
    BY <1>6 DEF LatestFilter, Places
  <2>3. CASE Places(s, ch) = {}
    BY <2>1, <2>2, <2>3 DEF LatestFilter, Places, c
  <2>4. CASE Places(s, ch) # {}
    <3> DEFINE x == Max(Places(s, ch))
    <3>1. x \in Places(s, ch)
      BY <1>1, <1>2, <2>4, GreatestNumber
    <3>2. c[x] = s[x]
      BY <1>1, <1>3, <3>1 DEF Places
    <3>3. LatestFilter(c, ch, filter) = c[x].late
      BY <2>1, <2>4 DEF LatestFilter, Places
    <3>4. LatestFilter(s, ch, filter) = s[x].late
      BY <2>4 DEF LatestFilter, Places
    <3> QED
      BY <2>2, <3>2, <3>3, <3>4 DEF c
  <2> QED
    BY <2>3, <2>4
<1> QED
  BY <1>5, <1>6

\* No message leaves the filter in use; a message that comes last prevails on its channel
\* and has no effect on others.
LEMMA LatestOfAppended ==
  ASSUME NEW s \in Seq(Message), NEW m \in Message, NEW ch, NEW filter
  PROVE  LatestFilter(Append(s, m), ch, filter) =
           IF m.channel = ch THEN m.late ELSE LatestFilter(s, ch, filter)
<1>1. /\ <<m>> \in Seq(Message) /\ Append(s, m) = s \o <<m>>
      /\ DOMAIN <<m>> = {1} /\ <<m>>[1] = m
  <2>1. DOMAIN <<m>> = 1 .. 1 /\ <<m>>[1] = m
    OBVIOUS
  <2> QED
    BY <2>1, Appending
<1>2. LatestFilter(s \o <<m>>, ch, filter) = LatestFilter(<<m>>, ch, LatestFilter(s, ch, filter))
  <2> DEFINE t == <<m>>
  <2>1. t \in Seq(Message)
    BY <1>1
  <2> HIDE DEF t
  <2>2. LatestFilter(s \o t, ch, filter) = LatestFilter(t, ch, LatestFilter(s, ch, filter))
    BY <2>1, LatestOfConcatenation
  <2> QED
    BY <2>2 DEF t
<1>3. CASE m.channel = ch
  <2>1. Places(<<m>>, ch) = {1}
    BY <1>1, <1>3 DEF Places
  <2>2. Max({1}) = 1
    BY GreatestIs
  <2>3. LatestFilter(<<m>>, ch, LatestFilter(s, ch, filter)) = <<m>>[1].late
    BY <2>1, <2>2 DEF LatestFilter, Places
  <2> QED
    BY <1>1, <1>2, <1>3, <2>3
<1>4. CASE m.channel # ch
  <2>1. Places(<<m>>, ch) = {}
    BY <1>1, <1>4 DEF Places
  <2>2. LatestFilter(<<m>>, ch, LatestFilter(s, ch, filter)) = LatestFilter(s, ch, filter)
    BY <2>1 DEF LatestFilter, Places
  <2> QED
    BY <1>1, <1>2, <1>4, <2>2
<1> QED
  BY <1>3, <1>4

-----------------------------------------------------------------------------
(* The inductive invariant.                                                *)

\* What the object on a channel asks of it, if there is one.
LateOf(ch) ==
  LET id == GetObjectForChannel(ch) IN IF id = NoObject THEN DefaultReverb ELSE objects[id].late
InputOf(ch) == objects[GetObjectForChannel(ch)].input
RoutingOfObjects == [ch \in Range(lookup) |-> InputOf(ch)]

InputsValid == \A id \in DOMAIN objects : objects[id].input \in Signals

\* From the end of setObjects() to the next change of the scene or the next period,
\* the objects that have channels are those of the scene.
ObjectsAllocated ==
  /\ pass # "none" => stage = "calculator" /\ Requested = DOMAIN objects /\ channel = FirstChannel
  /\ pass = "none" /\ (stage # "idle" \/ completed) => DOMAIN lookup = DOMAIN objects
  /\ completed => stage = "idle"

\* The loop of the calculator has dealt with the channels before chIdx.
ChannelsCalculated ==
  stage = "calculator" /\ pass = "none" =>
    \A ch \in Channel :
      ch < channel =>
        /\ previous[ch] = LateOf(ch)
        /\ ch \in DOMAIN FrontData(routing) <=> ch \in Range(lookup)
        /\ ch \in Range(lookup) => FrontData(routing)[ch] = InputOf(ch)

\* Then with all of them.
Calculated ==
  stage \in {"routing", "filters", "convolver"} \/ completed =>
    \A ch \in Channel : previous[ch] = LateOf(ch)

RoutingPublished ==
  stage = "routing" => BackData(routing) = RoutingOfObjects /\ Changed(routing, "controlInput")

Routed ==
  (stage \in {"filters", "convolver"} \/ completed) /\ InputsValid => routings = RoutingOfObjects

\* The convolver empties its queue in each period that gets there.
FiltersTaken == stage \notin {"filters", "convolver"} => newFilters = EmptyQueue

\* TypeOK without the variables of the allocator.
RenderingTyped ==
  /\ DOMAIN objects \subseteq ObjectId /\ \A id \in DOMAIN objects : objects[id] \in Sources[id]
  /\ stage \in {"idle", "calculator", "routing", "filters", "convolver"}
  /\ channel \in Channel
  /\ previous \in [Channel -> LateReverb \cup {Unset}]
  /\ filters \in [Channel -> LateReverb \cup {Unset}]
  /\ subbands \in Seq(Message) /\ newFilters \in Seq(Message)
  /\ routing \in Protocol(Routing, {"controlInput"}) /\ routings \in Routing
  /\ updates \in 0 .. MaxUpdates /\ changes \in 0 .. MaxChanges
  /\ completed \in BOOLEAN

IInv ==
  /\ AllocatorInv /\ RenderingTyped /\ ObjectsAllocated
  /\ ChannelsCalculated /\ Calculated /\ RoutingPublished /\ Routed
  /\ FiltersTaken /\ NoUpdateLost

-----------------------------------------------------------------------------
(* Facts about the parts of the state.                                     *)

\* What is written to the output is published by a swap.
LEMMA RoutingConnection ==
  ASSUME NEW p \in Protocol(Routing, {"controlInput"}), NEW map \in Routing
  PROVE  /\ FrontData(p) \in Routing /\ BackData(p) \in Routing
         /\ WriteFront(p, map) \in Protocol(Routing, {"controlInput"})
         /\ FrontData(WriteFront(p, map)) = map
         /\ SwapBuffers(WriteFront(p, map), FALSE) \in Protocol(Routing, {"controlInput"})
         /\ BackData(SwapBuffers(WriteFront(p, map), FALSE)) = map
         /\ Changed(SwapBuffers(WriteFront(p, map), FALSE), "controlInput")
         /\ ResetChanged(p, "controlInput") \in Protocol(Routing, {"controlInput"})
<1>1. /\ p.front \in {0, 1} /\ p.data \in [{0, 1} -> Routing]
      /\ p.changed \in [{"controlInput"} -> BOOLEAN]
      /\ p = [data |-> p.data, front |-> p.front, changed |-> p.changed]
  BY DEF Protocol, BufferId
<1>2. 1 - p.front \in {0, 1} /\ 1 - (1 - p.front) = p.front
  BY <1>1
<1>3. FrontData(p) \in Routing /\ BackData(p) \in Routing
  BY <1>1, <1>2 DEF FrontData, BackData, FrontObject, BackObject, Other
<1> DEFINE w == WriteFront(p, map)
<1>4. /\ w = [data |-> [p.data EXCEPT ![p.front] = map], front |-> p.front, changed |-> p.changed]
      /\ w.data \in [{0, 1} -> Routing] /\ w.data[p.front] = map
  BY <1>1 DEF WriteFront
<1>5. w \in Protocol(Routing, {"controlInput"}) /\ FrontData(w) = map
  BY <1>1, <1>4 DEF Protocol, BufferId, FrontData, FrontObject
<1> HIDE DEF w
<1>6. SwapBuffers(w, FALSE) =
        [data |-> w.data, front |-> 1 - p.front, changed |-> [i \in {"controlInput"} |-> TRUE]]
  BY <1>1, <1>4 DEF SwapBuffers, BackObject, Other
<1>7. /\ SwapBuffers(w, FALSE) \in Protocol(Routing, {"controlInput"})
      /\ BackData(SwapBuffers(w, FALSE)) = map
      /\ Changed(SwapBuffers(w, FALSE), "controlInput")
  <2> DEFINE q == SwapBuffers(w, FALSE)
             r == [data |-> w.data, front |-> 1 - p.front,
                   changed |-> [i \in {"controlInput"} |-> TRUE]]
  <2>1. q = r
    BY <1>6
  <2> HIDE DEF q
  <2>2. /\ q.data = w.data /\ q.front = 1 - p.front
        /\ q.changed = [i \in {"controlInput"} |-> TRUE]
        /\ q = [data |-> q.data, front |-> q.front, changed |-> q.changed]
    BY <2>1
  <2>3. q.changed["controlInput"] = TRUE /\ q.changed \in [{"controlInput"} -> BOOLEAN]
    BY <2>2
  <2>4. q \in Protocol(Routing, {"controlInput"})
    BY <1>2, <1>4, <2>2, <2>3 DEF Protocol, BufferId
  <2>5. q.data[1 - q.front] = map
    BY <1>2, <1>4, <2>2
  <2> QED
    BY <2>3, <2>4, <2>5 DEF BackData, BackObject, Other, Changed, q
<1>8. ResetChanged(p, "controlInput") \in Protocol(Routing, {"controlInput"})
  BY <1>1 DEF ResetChanged, Protocol, BufferId
<1> QED
  BY <1>3, <1>5, <1>7, <1>8 DEF w

\* getObjectForChannel() returns the object on a channel, or the id that no object has.
LEMMA ObjectOnChannel ==
  ASSUME AllocatorTyped, NEW ch
  PROVE  /\ ch \in Range(lookup) =>
              /\ GetObjectForChannel(ch) \in DOMAIN lookup
              /\ GetObjectForChannel(ch) # NoObject
              /\ lookup[GetObjectForChannel(ch)] = ch
         /\ ch \notin Range(lookup) => GetObjectForChannel(ch) = NoObject
<1>1. NoObject \notin DOMAIN lookup
  BY AllocatorAssumption DEF AllocatorTyped, NoObject
<1>2. CASE ch \in Range(lookup)
  <2>1. \E id \in DOMAIN lookup : lookup[id] = ch
    BY <1>2 DEF Range
  <2>2. GetObjectForChannel(ch) = CHOOSE id \in DOMAIN lookup : lookup[id] = ch
    BY <2>1 DEF GetObjectForChannel
  <2>3. GetObjectForChannel(ch) \in DOMAIN lookup /\ lookup[GetObjectForChannel(ch)] = ch
    BY <2>1, <2>2
  <2> QED
    BY <1>1, <1>2, <2>3
<1>3. CASE ch \notin Range(lookup)
  BY <1>3 DEF GetObjectForChannel, Range
<1> QED
  BY <1>2, <1>3

\* What the states of the objects are.
LEMMA ObjectStates ==
  ASSUME RenderingTyped, NEW id \in DOMAIN objects
  PROVE  id \in ObjectId /\ objects[id].late \in LateReverb /\ objects[id].input \in Input
<1>1. id \in ObjectId /\ objects[id] \in Sources[id]
  BY DEF RenderingTyped
<1>2. objects[id] \in Source
  BY <1>1, ReverbAssumption
<1> QED
  BY <1>1, <1>2 DEF Source, Input

\* The invariant includes the types.
LEMMA InvariantTypes == AllocatorInv /\ RenderingTyped => TypeOK
BY DEF AllocatorInv, AllocatorTyped, RenderingTyped, TypeOK

\* The routing of the objects is a routing.
LEMMA RoutingOfObjectsType ==
  ASSUME AllocatorInv, RenderingTyped, DOMAIN lookup = DOMAIN objects
  PROVE  RoutingOfObjects \in Routing
<1>1. AllocatorTyped /\ Range(lookup) \subseteq Channel
  BY DEF AllocatorInv, AllocatorTyped, Range
<1>2. ASSUME NEW ch \in Range(lookup)
      PROVE  InputOf(ch) \in Input
  BY <1>1, <1>2, ObjectOnChannel, ObjectStates DEF InputOf
<1>3. RoutingOfObjects \in [Range(lookup) -> Input]
  BY <1>2 DEF RoutingOfObjects
<1> QED
  BY <1>1, <1>3 DEF Routing

-----------------------------------------------------------------------------
(* Initially.                                                              *)

LEMMA InitInvariant == Init => IInv
<1> SUFFICES ASSUME Init
             PROVE  IInv
  OBVIOUS
<1>1. AllocatorInv
  BY InitialChannels DEF Init
<1>2. FirstChannel \in Channel /\ MaxChanges \in Nat /\ MaxUpdates \in Nat
  BY AllocatorAssumption, ReverbAssumption DEF FirstChannel, Channel
<1>3. NoRoutings \in Routing
  <2>1. NoRoutings \in [{} -> Input]
    BY DEF NoRoutings
  <2> QED
    BY <2>1 DEF Routing
<1>4. routing \in Protocol(Routing, {"controlInput"})
  BY <1>3 DEF Init, NewProtocol, Protocol, BufferId
<1>5. EmptyQueue \in Seq(Message)
  BY DEF EmptyQueue
<1>6. DOMAIN objects = {}
  BY DEF Init
<1>7. RenderingTyped
  <2>2. /\ previous \in [Channel -> LateReverb \cup {Unset}]
        /\ filters \in [Channel -> LateReverb \cup {Unset}]
    BY DEF Init
  <2>3. subbands \in Seq(Message) /\ newFilters \in Seq(Message) /\ routings \in Routing
    BY <1>3, <1>5 DEF Init
  <2>4. updates \in 0 .. MaxUpdates /\ changes \in 0 .. MaxChanges /\ completed \in BOOLEAN
    <3>1. updates = 0 /\ changes = 0
      BY DEF Init
    <3>2. updates \in 0 .. MaxUpdates /\ changes \in 0 .. MaxChanges
      BY <1>2, <3>1
    <3>3. completed \in BOOLEAN
      BY DEF Init
    <3> QED
      BY <3>2, <3>3
  <2>5. channel \in Channel /\ stage = "idle"
    BY <1>2 DEF Init
  <2> QED
    BY <1>4, <1>6, <2>2, <2>3, <2>4, <2>5 DEF RenderingTyped
<1>8. NoUpdateLost
  <2> DEFINE messages == Pending(newFilters) \o Pending(subbands)
  <2>1. Pending(EmptyQueue) = <<>>
    <3>1. Pending(EmptyQueue) \in Seq(Message) /\ Len(Pending(EmptyQueue)) = 0
      BY <1>5, PendingOfQueue DEF EmptyQueue
    <3> QED
      BY <3>1, EmptySeq
  <2>2. messages = <<>>
    BY <2>1, ConcatEmptySeq DEF Init
  <2>3. Places(messages, 0) = {} /\ \A ch : Places(messages, ch) = {}
    BY <2>2 DEF Places
  <2> HIDE DEF messages
  <2>4. \A ch \in Channel : LatestFilter(messages, ch, filters[ch]) = filters[ch]
    BY <2>3 DEF LatestFilter, Places
  <2>5. \A ch \in Channel : previous[ch] = filters[ch]
    BY DEF Init
  <2> QED
    BY <2>4, <2>5 DEF NoUpdateLost, messages
<1>9. ObjectsAllocated /\ ChannelsCalculated /\ Calculated /\ RoutingPublished /\ Routed /\ FiltersTaken
  BY DEF Init, AllocatorInit, ObjectsAllocated, ChannelsCalculated, Calculated, RoutingPublished,
         Routed, FiltersTaken
<1> QED
  BY <1>1, <1>7, <1>8, <1>9 DEF IInv

-----------------------------------------------------------------------------
(* The steps.                                                              *)

LEMMA AllocatorUnchanged ==
  ASSUME AllocatorInv, UNCHANGED allocatorVars
  PROVE  AllocatorInv' /\ Requested' = Requested /\ UNCHANGED Allocation!allocationVars
<1>1. /\ lookup' = lookup /\ unused' = unused /\ sortedIds' = sortedIds /\ pass' = pass
      /\ idIt' = idIt /\ lookupIt' = lookupIt
  BY DEF allocatorVars
<1>2. AllocatorTyped' /\ Accounted' /\ SortedRequest'
  BY <1>1 DEF AllocatorInv, AllocatorTyped, Accounted, SortedRequest
<1>3. RemovePass' /\ InsertPass'
  BY <1>1 DEF AllocatorInv, RemovePass, InsertPass, Requested, Met
<1> QED
  BY <1>1, <1>2, <1>3 DEF AllocatorInv, Requested, Allocation!allocationVars

\* What is asked of the channels depends on the allocation and the objects only.
LEMMA AskedUnchanged ==
  ASSUME lookup' = lookup, objects' = objects
  PROVE  /\ \A ch : LateOf(ch)' = LateOf(ch) /\ InputOf(ch)' = InputOf(ch)
         /\ RoutingOfObjects' = RoutingOfObjects
         /\ InputsValid' = InputsValid
<1>1. \A ch : GetObjectForChannel(ch)' = GetObjectForChannel(ch)
  BY DEF GetObjectForChannel
<1>2. \A ch : LateOf(ch)' = LateOf(ch) /\ InputOf(ch)' = InputOf(ch)
  BY <1>1 DEF LateOf, InputOf
<1> QED
  BY <1>2 DEF RoutingOfObjects, InputsValid

LEMMA UpdatesUnchanged ==
  ASSUME NoUpdateLost, UNCHANGED <<previous, subbands, newFilters, filters>>
  PROVE  NoUpdateLost'
BY DEF NoUpdateLost

\* A change of the scene is not followed until the next period.
LEMMA SceneChanges ==
  ASSUME IInv, ChangeObject \/ RemoveObject
  PROVE  IInv'
<1>1. /\ stage = "idle" /\ changes < MaxChanges /\ changes' = changes + 1 /\ completed' = FALSE
      /\ UNCHANGED <<allocatorVars, stage, channel, previous, subbands, routing, updates,
                     newFilters, filters, routings>>
  BY DEF ChangeObject, RemoveObject, calculatorVars, filterVars
<1>2. DOMAIN objects' \subseteq ObjectId /\ \A id \in DOMAIN objects' : objects'[id] \in Sources[id]
  <2>1. DOMAIN objects \subseteq ObjectId /\ \A id \in DOMAIN objects : objects[id] \in Sources[id]
    BY DEF IInv, RenderingTyped
  <2>2. CASE ChangeObject
    <3>1. PICK id \in ObjectId : \E s \in Sources[id] :
            objects' = [i \in DOMAIN objects \cup {id} |-> IF i = id THEN s ELSE objects[i]]
      BY <2>2 DEF ChangeObject
    <3>2. PICK s \in Sources[id] :
            objects' = [i \in DOMAIN objects \cup {id} |-> IF i = id THEN s ELSE objects[i]]
      BY <3>1
    <3> QED
      BY <2>1, <3>2
  <2>3. CASE RemoveObject
    <3>1. PICK id \in DOMAIN objects : objects' = Restrict(objects, DOMAIN objects \ {id})
      BY <2>3 DEF RemoveObject
    <3> QED
      BY <2>1, <3>1 DEF Restrict
  <2> QED
    BY <2>2, <2>3
<1>3. changes' \in 0 .. MaxChanges
  <2>1. changes \in 0 .. MaxChanges
    BY DEF IInv, RenderingTyped
  <2> QED
    BY <1>1, <2>1, ReverbAssumption
<1>4. completed' \in BOOLEAN
  BY <1>1
<1>5. RenderingTyped'
  BY <1>1, <1>2, <1>3, <1>4 DEF IInv, RenderingTyped
<1>6. AllocatorInv'
  BY <1>1, AllocatorUnchanged DEF IInv
<1>7. pass = "none"
  BY <1>1 DEF IInv, ObjectsAllocated
<1>8. ObjectsAllocated' /\ ChannelsCalculated' /\ Calculated' /\ RoutingPublished' /\ Routed'
  BY <1>1, <1>7
  DEF allocatorVars, ObjectsAllocated, ChannelsCalculated, Calculated, RoutingPublished, Routed
<1>9. FiltersTaken' /\ NoUpdateLost'
  BY <1>1, UpdatesUnchanged DEF IInv, FiltersTaken
<1> QED
  BY <1>5, <1>6, <1>8, <1>9 DEF IInv

\* A period begins with a request for the objects of the scene, if it is not refused.
LEMMA PeriodBegins ==
  ASSUME IInv, BeginPeriod
  PROVE  IInv' /\ [Allocation!Next]_Allocation!allocationVars
<1>1. /\ stage = "idle" /\ channel' = FirstChannel /\ completed' = FALSE
      /\ UNCHANGED <<changes, objects, previous, subbands, routing, updates, newFilters, filters,
                     routings>>
  BY DEF BeginPeriod, filterVars
<1>2. FirstChannel \in Channel
  BY AllocatorAssumption, ReverbAssumption DEF FirstChannel, Channel
<1>3. stage' \in {"idle", "calculator"}
  BY DEF BeginPeriod, Throw
<1>4. completed' \in BOOLEAN
  BY <1>1
<1>5. RenderingTyped'
  BY <1>1, <1>2, <1>3, <1>4 DEF IInv, RenderingTyped
<1>6. FiltersTaken' /\ NoUpdateLost'
  BY <1>1, <1>3, UpdatesUnchanged DEF IInv, FiltersTaken
<1>7. Calculated' /\ RoutingPublished' /\ Routed'
  BY <1>1, <1>3 DEF Calculated, RoutingPublished, Routed
<1>8. pass = "none"
  BY <1>1 DEF IInv, ObjectsAllocated
<1>9. /\ AllocatorInv' /\ ObjectsAllocated' /\ ChannelsCalculated'
      /\ [Allocation!Next]_Allocation!allocationVars
  <2>1. CASE SceneRefused
    <3>1. UNCHANGED allocatorVars /\ stage' = "idle"
      BY <2>1 DEF BeginPeriod, Throw
    <3>2. AllocatorInv' /\ UNCHANGED Allocation!allocationVars
      BY <3>1, AllocatorUnchanged DEF IInv
    <3>3. pass' = "none"
      BY <1>8, <3>1 DEF allocatorVars
    <3> QED
      BY <1>1, <3>1, <3>2, <3>3 DEF ObjectsAllocated, ChannelsCalculated
  <2>2. CASE ~ SceneRefused
    <3>1. SetObjects(DOMAIN objects) /\ stage' = "calculator"
      BY <2>2 DEF BeginPeriod
    <3>2. DOMAIN objects \subseteq ObjectId
      BY DEF IInv, RenderingTyped
    <3>3. AllocatorInv' /\ Requested' = DOMAIN objects /\ Allocation!Request
      BY <3>1, <3>2, SetObjectsBegins DEF IInv
    <3>4. pass' = "remove"
      BY <3>1 DEF SetObjects
    <3> QED
      BY <1>1, <3>1, <3>3, <3>4 DEF ObjectsAllocated, ChannelsCalculated, Allocation!Next
  <2> QED
    BY <2>1, <2>2
<1> QED
  BY <1>5, <1>6, <1>7, <1>9 DEF IInv

\* When setObjects() ends, the objects of the scene have channels.
LEMMA AllocationProceeds ==
  ASSUME IInv, Allocate
  PROVE  IInv' /\ [Allocation!Next]_Allocation!allocationVars
<1>1. /\ stage = "calculator" /\ AllocatorStep
      /\ UNCHANGED <<objects, stage, channel, previous, subbands, routing, updates, newFilters,
                     filters, routings, completed, changes>>
  BY DEF Allocate, calculatorVars, filterVars, historyVars
<1>2. pass # "none"
  BY <1>1 DEF AllocatorStep, RemoveStep, EndRemove, InsertStep, EndInsert
<1>3. Requested = DOMAIN objects /\ channel = FirstChannel
  BY <1>2 DEF IInv, ObjectsAllocated
<1>4. /\ AllocatorInv' /\ [Allocation!Next]_Allocation!allocationVars
      /\ \/ pass' # "none" /\ Requested' = Requested
         \/ pass' = "none" /\ DOMAIN lookup' = Requested
  BY <1>1, AllocatorRound DEF IInv
<1>5. RenderingTyped'
  BY <1>1 DEF IInv, RenderingTyped
<1>6. ObjectsAllocated'
  BY <1>1, <1>3, <1>4 DEF IInv, ObjectsAllocated
<1>7. ChannelsCalculated'
  <2>1. ASSUME NEW ch \in Channel
        PROVE  ~ ch < channel'
    BY <1>1, <1>3, AllocatorAssumption DEF Channel, FirstChannel
  <2> QED
    BY <2>1 DEF ChannelsCalculated
<1>8. ~ completed
  BY <1>1 DEF IInv, ObjectsAllocated
<1>9. Calculated' /\ RoutingPublished' /\ Routed' /\ FiltersTaken'
  BY <1>1, <1>8 DEF IInv, Calculated, RoutingPublished, Routed, FiltersTaken
<1>10. NoUpdateLost'
  BY <1>1, UpdatesUnchanged DEF IInv
<1> QED
  BY <1>4, <1>5, <1>6, <1>7, <1>9, <1>10 DEF IInv

\* What is remembered as sent is sent, in a message behind all others.
LEMMA LateReverbSent ==
  ASSUME RenderingTyped, NoUpdateLost, NEW late \in LateReverb,
         UpdateLateReverb(channel, late), UNCHANGED <<newFilters, filters>>
  PROVE  /\ previous' \in [Channel -> LateReverb \cup {Unset}] /\ previous'[channel] = late
         /\ \A ch \in Channel : ch # channel => previous'[ch] = previous[ch]
         /\ subbands' \in Seq(Message)
         /\ NoUpdateLost'
<1>1. /\ channel \in Channel /\ previous \in [Channel -> LateReverb \cup {Unset}]
      /\ subbands \in Seq(Message) /\ newFilters \in Seq(Message)
  BY DEF RenderingTyped
<1>2. CASE late = previous[channel]
  <2>1. previous' = previous /\ subbands' = subbands
    BY <1>2 DEF UpdateLateReverb
  <2> QED
    BY <1>1, <1>2, <2>1, UpdatesUnchanged
<1>3. CASE late # previous[channel]
  <2> DEFINE m == [channel |-> channel, late |-> late]
             old == Pending(newFilters) \o Pending(subbands)
             new == Pending(newFilters') \o Pending(subbands')
  <2>1. previous' = [previous EXCEPT ![channel] = late] /\ subbands' = Enqueue(subbands, m)
    BY <1>3 DEF UpdateLateReverb
  <2>2. m \in Message /\ m.channel = channel /\ m.late = late
    BY <1>1 DEF Message
  <2> HIDE DEF m
  <2>3. /\ previous' \in [Channel -> LateReverb \cup {Unset}] /\ previous'[channel] = late
        /\ \A ch \in Channel : ch # channel => previous'[ch] = previous[ch]
    BY <1>1, <2>1
  <2>4. subbands' \in Seq(Message) /\ Pending(subbands') = Append(Pending(subbands), m)
    BY <1>1, <2>1, <2>2, EnqueuedLast
  <2>5. Pending(newFilters) \in Seq(Message) /\ Pending(subbands) \in Seq(Message)
    BY <1>1, PendingOfQueue
  <2>6. old \in Seq(Message) /\ new = Append(old, m)
    <3>1. Pending(newFilters') = Pending(newFilters)
      OBVIOUS
    <3>2. Pending(newFilters) \o Append(Pending(subbands), m) = Append(old, m)
      BY <2>2, <2>5, AppendingToConcatenation
    <3> QED
      BY <2>4, <2>5, <3>1, <3>2, ConcatProperties
  <2> HIDE DEF old, new
  <2>7. ASSUME NEW ch \in Channel
        PROVE  previous'[ch] = LatestFilter(new, ch, filters'[ch])
    <3>1. LatestFilter(Append(old, m), ch, filters[ch]) =
            IF m.channel = ch THEN m.late ELSE LatestFilter(old, ch, filters[ch])
      BY <2>2, <2>6, LatestOfAppended
    <3>2. previous[ch] = LatestFilter(old, ch, filters[ch])
      BY DEF NoUpdateLost, old
    <3> QED
      BY <2>2, <2>3, <2>6, <3>1, <3>2
  <2>8. NoUpdateLost'
    BY <2>7 DEF NoUpdateLost, new
  <2> QED
    BY <2>3, <2>4, <2>8
<1> QED
  BY <1>2, <1>3

\* With what a channel asks for routed and sent, the loop goes on to the next one or, after
\* the last one, publishes the routing of all.
LEMMA ChannelCalculated ==
  ASSUME IInv, stage = "calculator", pass = "none",
         NEW map \in Routing, NextChannel(map),
         channel \in DOMAIN map <=> channel \in Range(lookup),
         channel \in Range(lookup) => map[channel] = InputOf(channel),
         \A ch \in Channel \ {channel} :
           /\ ch \in DOMAIN map <=> ch \in DOMAIN FrontData(routing)
           /\ ch \in DOMAIN map => map[ch] = FrontData(routing)[ch],
         UpdateLateReverb(channel, LateOf(channel)), LateOf(channel) \in LateReverb,
         UNCHANGED <<allocatorVars, objects, updates, newFilters, filters, routings, completed,
                     changes>>
  PROVE  IInv'
<1>1. /\ previous' \in [Channel -> LateReverb \cup {Unset}] /\ previous'[channel] = LateOf(channel)
      /\ \A ch \in Channel : ch # channel => previous'[ch] = previous[ch]
      /\ subbands' \in Seq(Message)
      /\ NoUpdateLost'
  BY LateReverbSent DEF IInv
<1>2. /\ AllocatorInv' /\ lookup' = lookup /\ pass' = "none"
      /\ DOMAIN lookup = DOMAIN objects /\ ~ completed /\ newFilters = EmptyQueue
  BY AllocatorUnchanged DEF IInv, ObjectsAllocated, FiltersTaken, allocatorVars
<1>3. /\ \A ch : LateOf(ch)' = LateOf(ch) /\ InputOf(ch)' = InputOf(ch)
      /\ RoutingOfObjects' = RoutingOfObjects
  BY <1>2, AskedUnchanged
<1>4. /\ channel \in Channel /\ channel \in Nat /\ MaxChannels \in Nat /\ channel < MaxChannels
      /\ routing \in Protocol(Routing, {"controlInput"})
  BY AllocatorAssumption DEF IInv, RenderingTyped, Channel
<1>5. \A ch \in Channel :
        ch <= channel =>
          /\ previous'[ch] = LateOf(ch)
          /\ ch \in DOMAIN map <=> ch \in Range(lookup)
          /\ ch \in Range(lookup) => map[ch] = InputOf(ch)
  <2>1. ASSUME NEW ch \in Channel, ch <= channel
        PROVE  /\ previous'[ch] = LateOf(ch)
               /\ ch \in DOMAIN map <=> ch \in Range(lookup)
               /\ ch \in Range(lookup) => map[ch] = InputOf(ch)
    <3>1. CASE ch = channel
      BY <1>1, <3>1
    <3>2. CASE ch # channel
      <4>1. ch < channel
        BY <1>4, <2>1, <3>2 DEF Channel
      <4>2. /\ previous[ch] = LateOf(ch)
            /\ ch \in DOMAIN FrontData(routing) <=> ch \in Range(lookup)
            /\ ch \in Range(lookup) => FrontData(routing)[ch] = InputOf(ch)
        BY <4>1 DEF IInv, ChannelsCalculated
      <4> QED
        BY <1>1, <3>2, <4>2
    <3> QED
      BY <3>1, <3>2
  <2> QED
    BY <2>1
<1> DEFINE written == WriteFront(routing, map)
<1>6. /\ written \in Protocol(Routing, {"controlInput"}) /\ FrontData(written) = map
      /\ SwapBuffers(written, FALSE) \in Protocol(Routing, {"controlInput"})
      /\ BackData(SwapBuffers(written, FALSE)) = map
      /\ Changed(SwapBuffers(written, FALSE), "controlInput")
  BY <1>4, RoutingConnection
<1>7. /\ \/ /\ channel + 1 < MaxChannels
            /\ channel' = channel + 1 /\ routing' = written /\ stage' = "calculator"
         \/ /\ ~ channel + 1 < MaxChannels
            /\ channel' = FirstChannel /\ routing' = SwapBuffers(written, FALSE)
            /\ stage' = "routing"
  BY DEF NextChannel
<1> HIDE DEF written
<1>8. RenderingTyped'
  <2>1. channel' \in Channel
    <3>1. (channel + 1 < MaxChannels /\ channel' = channel + 1) \/ channel' = FirstChannel
      BY <1>7, Zenon
    <3> QED
      BY <1>4, <3>1 DEF Channel, FirstChannel
  <2>2. routing' \in Protocol(Routing, {"controlInput"})
    BY <1>6, <1>7
  <2>3. stage' \in {"idle", "calculator", "routing", "filters", "convolver"}
    BY <1>7
  <2> QED
    BY <1>1, <2>1, <2>2, <2>3 DEF IInv, RenderingTyped
<1>9. ObjectsAllocated' /\ Routed' /\ FiltersTaken'
  BY <1>2, <1>7 DEF ObjectsAllocated, Routed, FiltersTaken
<1>10. ChannelsCalculated'
  <2>1. CASE channel + 1 < MaxChannels
    <3>1. channel' = channel + 1 /\ FrontData(routing') = map
      BY <1>6, <1>7, <2>1
    <3>2. ASSUME NEW ch \in Channel, ch < channel'
          PROVE  ch <= channel
      BY <1>4, <3>1, <3>2 DEF Channel
    <3> QED
      BY <1>2, <1>3, <1>5, <3>1, <3>2 DEF ChannelsCalculated
  <2>2. CASE ~ channel + 1 < MaxChannels
    BY <1>7, <2>2 DEF ChannelsCalculated
  <2> QED
    BY <2>1, <2>2
<1>11. Calculated' /\ RoutingPublished'
  <2>1. CASE channel + 1 < MaxChannels
    BY <1>2, <1>7, <2>1 DEF Calculated, RoutingPublished
  <2>2. CASE ~ channel + 1 < MaxChannels
    <3>1. \A ch \in Channel : ch <= channel
      BY <1>4, <2>2 DEF Channel
    <3>2. Calculated'
      BY <1>3, <1>5, <3>1 DEF Calculated
    <3>3. map = RoutingOfObjects
      <4>1. PICK used \in SUBSET Channel : map \in [used -> Input]
        BY DEF Routing
      <4>2. Range(lookup) \subseteq Channel
        BY DEF IInv, AllocatorInv, AllocatorTyped, Range
      <4>3. DOMAIN map = Range(lookup)
        BY <1>5, <3>1, <4>1, <4>2
      <4>4. \A ch \in Range(lookup) : map[ch] = InputOf(ch)
        BY <1>5, <3>1, <4>2
      <4> QED
        BY <4>1, <4>3, <4>4 DEF RoutingOfObjects
    <3>4. BackData(routing') = map /\ Changed(routing', "controlInput")
      BY <1>6, <1>7, <2>2
    <3> QED
      BY <1>3, <3>2, <3>3, <3>4 DEF RoutingPublished
  <2> QED
    BY <2>1, <2>2
<1> QED
  BY <1>1, <1>2, <1>8, <1>9, <1>10, <1>11 DEF IInv

\* A channel without an object is silent and nothing is routed to it.
LEMMA ChannelCleared ==
  ASSUME IInv, CalculateChannel, ClearChannel
  PROVE  IInv'
<1> DEFINE front == FrontData(routing)
           map == RemoveEntry(front, channel)
<1>1. /\ stage = "calculator" /\ pass = "none"
      /\ UNCHANGED <<allocatorVars, objects, updates, newFilters, filters, routings, completed,
                     changes>>
      /\ GetObjectForChannel(channel) = NoObject /\ NextChannel(map)
      /\ UpdateLateReverb(channel, DefaultReverb)
  BY DEF CalculateChannel, ClearChannel, filterVars, historyVars
<1>2. LateOf(channel) = DefaultReverb /\ LateOf(channel) \in LateReverb
  BY <1>1, ReverbAssumption DEF LateOf
<1>3. channel \notin Range(lookup)
  BY <1>1, ObjectOnChannel DEF IInv, AllocatorInv
<1>4. front \in Routing
  <2>1. routing \in Protocol(Routing, {"controlInput"}) /\ routings \in Routing
    BY DEF IInv, RenderingTyped
  <2> QED
    BY <2>1, RoutingConnection
<1>5. PICK used \in SUBSET Channel : front \in [used -> Input]
  BY <1>4 DEF Routing
<1> HIDE DEF front
<1>6. /\ map \in [used \ {channel} -> Input] /\ DOMAIN map = DOMAIN front \ {channel}
      /\ \A ch \in DOMAIN map : map[ch] = front[ch]
  BY <1>5 DEF RemoveEntry, Restrict
<1>7. map \in Routing
  BY <1>6 DEF Routing
<1> HIDE DEF map
<1> QED
  BY <1>1, <1>2, <1>3, <1>6, <1>7, ChannelCalculated DEF front

\* The input of the object on a channel is routed to it; an exception ends the period.
LEMMA ObjectProcessed ==
  ASSUME IInv, CalculateChannel, ProcessObject
  PROVE  IInv'
<1> DEFINE front == FrontData(routing)
           id == GetObjectForChannel(channel)
           map == AddRouting(front, objects[id].input, channel)
<1>1. /\ stage = "calculator" /\ pass = "none"
      /\ UNCHANGED <<allocatorVars, objects, updates, newFilters, filters, routings, completed,
                     changes>>
      /\ id # NoObject
  BY DEF CalculateChannel, ProcessObject, filterVars, historyVars
<1>2. channel \in Range(lookup) /\ id \in DOMAIN objects
  BY <1>1, ObjectOnChannel DEF IInv, AllocatorInv, ObjectsAllocated
<1>3. objects[id].late \in LateReverb /\ objects[id].input \in Input
  BY <1>2, ObjectStates DEF IInv
<1>4. LateOf(channel) = objects[id].late /\ InputOf(channel) = objects[id].input
  BY <1>1 DEF LateOf, InputOf
<1>5. /\ routing \in Protocol(Routing, {"controlInput"}) /\ routings \in Routing
      /\ channel \in Channel
  BY DEF IInv, RenderingTyped
<1>6. front \in Routing
  BY <1>5, RoutingConnection
<1>7. PICK used \in SUBSET Channel : front \in [used -> Input]
  BY <1>6 DEF Routing
<1>8. CASE objects[id].tooManyReflections
  <2>1. /\ routing' = WriteFront(routing, map) /\ stage' = "idle" /\ channel' = FirstChannel
        /\ previous' = previous /\ subbands' = subbands
    BY <1>8 DEF ProcessObject, Throw
  <2> HIDE DEF front, id
  <2>2. map \in [used \cup {channel} -> Input]
    BY <1>3, <1>7 DEF AddRouting
  <2>3. map \in Routing
    BY <1>5, <2>2 DEF Routing
  <2> HIDE DEF map
  <2>4. routing' \in Protocol(Routing, {"controlInput"})
    BY <1>5, <2>1, <2>3, RoutingConnection
  <2>5. FirstChannel \in Channel
    BY AllocatorAssumption, ReverbAssumption DEF FirstChannel, Channel
  <2>6. RenderingTyped'
    BY <1>1, <2>1, <2>4, <2>5 DEF IInv, RenderingTyped
  <2>7. ~ completed
    BY <1>1 DEF IInv, ObjectsAllocated
  <2>8. pass' = "none" /\ AllocatorInv'
    BY <1>1, AllocatorUnchanged DEF IInv, allocatorVars
  <2>9. ObjectsAllocated' /\ ChannelsCalculated' /\ Calculated' /\ RoutingPublished' /\ Routed'
    BY <1>1, <2>1, <2>7, <2>8
    DEF ObjectsAllocated, ChannelsCalculated, Calculated, RoutingPublished, Routed
  <2>10. FiltersTaken' /\ NoUpdateLost'
    BY <1>1, <2>1, UpdatesUnchanged DEF IInv, FiltersTaken
  <2> QED
    BY <2>6, <2>8, <2>9, <2>10 DEF IInv
<1>9. CASE ~ objects[id].tooManyReflections
  <2>1. NextChannel(map) /\ UpdateLateReverb(channel, objects[id].late)
    BY <1>9 DEF ProcessObject
  <2> HIDE DEF front, id
  <2>2. /\ map \in [used \cup {channel} -> Input] /\ DOMAIN map = DOMAIN front \cup {channel}
        /\ map[channel] = objects[id].input
        /\ \A ch \in DOMAIN front \ {channel} : map[ch] = front[ch]
    BY <1>3, <1>7 DEF AddRouting
  <2>3. map \in Routing
    BY <1>5, <2>2 DEF Routing
  <2> HIDE DEF map
  <2> QED
    BY <1>1, <1>2, <1>3, <1>4, <2>1, <2>2, <2>3, ChannelCalculated DEF front
<1> QED
  BY <1>8, <1>9

\* The published routing is taken over, if it is valid.
LEMMA SignalsRouted ==
  ASSUME IInv, RouteSignals
  PROVE  IInv'
<1> DEFINE new == BackData(routing)
<1>1. /\ stage = "routing" /\ stage' = "filters" /\ updates' = 0
      /\ routings' = IF Changed(routing, "controlInput") /\ Range(new) \subseteq Signals
                     THEN new ELSE routings
      /\ routing' = ResetChanged(routing, "controlInput")
      /\ UNCHANGED <<allocatorVars, objects, channel, previous, subbands, newFilters, filters,
                     completed, changes>>
  BY DEF RouteSignals, calculatorVars, historyVars
<1>2. /\ new = RoutingOfObjects /\ Changed(routing, "controlInput")
      /\ \A ch \in Channel : previous[ch] = LateOf(ch)
      /\ newFilters = EmptyQueue
  BY <1>1 DEF IInv, RoutingPublished, Calculated, FiltersTaken
<1>3. /\ AllocatorInv' /\ lookup' = lookup /\ pass = "none" /\ pass' = "none"
      /\ DOMAIN lookup = DOMAIN objects /\ ~ completed
  BY <1>1, AllocatorUnchanged DEF IInv, ObjectsAllocated, allocatorVars
<1>4. /\ \A ch : LateOf(ch)' = LateOf(ch)
      /\ RoutingOfObjects' = RoutingOfObjects /\ InputsValid' = InputsValid
  BY <1>1, <1>3, AskedUnchanged
<1>5. InputsValid => routings' = RoutingOfObjects
  <2>1. ASSUME InputsValid
        PROVE  Range(RoutingOfObjects) \subseteq Signals
    <3>1. ASSUME NEW ch \in Range(lookup)
          PROVE  InputOf(ch) \in Signals
      <4>1. GetObjectForChannel(ch) \in DOMAIN objects
        BY <1>3, ObjectOnChannel DEF IInv, AllocatorInv
      <4> QED
        BY <2>1, <4>1 DEF InputsValid, InputOf
    <3> QED
      BY <3>1 DEF RoutingOfObjects, Range
  <2> QED
    BY <1>1, <1>2, <2>1
<1>6. routing \in Protocol(Routing, {"controlInput"}) /\ routings \in Routing
  BY DEF IInv, RenderingTyped
<1>7. routing' \in Protocol(Routing, {"controlInput"}) /\ routings' \in Routing
  BY <1>1, <1>6, RoutingConnection
<1>8. updates' \in 0 .. MaxUpdates
  BY <1>1, ReverbAssumption
<1>9. RenderingTyped'
  BY <1>1, <1>7, <1>8 DEF IInv, RenderingTyped
<1>10. ObjectsAllocated' /\ ChannelsCalculated' /\ Calculated' /\ RoutingPublished'
  BY <1>1, <1>2, <1>3, <1>4
  DEF ObjectsAllocated, ChannelsCalculated, Calculated, RoutingPublished
<1>11. Routed'
  BY <1>4, <1>5 DEF Routed
<1>12. FiltersTaken' /\ NoUpdateLost'
  BY <1>1, UpdatesUnchanged DEF IInv, FiltersTaken
<1> QED
  BY <1>3, <1>9, <1>10, <1>11, <1>12 DEF IInv

\* In the other components of a period, the allocation and the routing stay, and what is
\* remembered as sent.
LEMMA RoutedUnchanged ==
  ASSUME IInv, stage \in {"filters", "convolver"}, stage' \in {"filters", "convolver", "idle"},
         completed' = (stage' = "idle"),
         UNCHANGED <<allocatorVars, objects, channel, previous, routing, routings, changes>>
  PROVE  /\ AllocatorInv'
         /\ ObjectsAllocated' /\ ChannelsCalculated' /\ Calculated' /\ RoutingPublished' /\ Routed'
<1>1. /\ \A ch \in Channel : previous[ch] = LateOf(ch)
      /\ InputsValid => routings = RoutingOfObjects
  BY DEF IInv, Calculated, Routed
<1>2. /\ AllocatorInv' /\ lookup' = lookup /\ pass = "none" /\ pass' = "none"
      /\ DOMAIN lookup = DOMAIN objects
  BY AllocatorUnchanged DEF IInv, ObjectsAllocated, allocatorVars
<1>3. /\ \A ch : LateOf(ch)' = LateOf(ch)
      /\ RoutingOfObjects' = RoutingOfObjects /\ InputsValid' = InputsValid
  BY <1>2, AskedUnchanged
<1>4. ObjectsAllocated'
  BY <1>2 DEF ObjectsAllocated
<1>5. ChannelsCalculated' /\ RoutingPublished'
  BY DEF ChannelsCalculated, RoutingPublished
<1>6. Calculated' /\ Routed'
  BY <1>1, <1>3 DEF Calculated, Routed
<1> QED
  BY <1>2, <1>4, <1>5, <1>6

\* The first message goes from one queue to the end of the next, which leaves their
\* order as it is.
LEMMA FilterCalculated ==
  ASSUME IInv, CalculateFilter
  PROVE  IInv'
<1> DEFINE m == NextElement(subbands)
<1>1. /\ stage = "filters" /\ subbands # EmptyQueue /\ updates < MaxUpdates
      /\ newFilters' = Enqueue(newFilters, m) /\ subbands' = PopNextElement(subbands)
      /\ updates' = updates + 1
      /\ UNCHANGED <<allocatorVars, objects, stage, channel, previous, routing, filters, routings,
                     completed, changes>>
  BY DEF CalculateFilter, historyVars
<1>2. /\ subbands \in Seq(Message) /\ newFilters \in Seq(Message) /\ updates \in 0 .. MaxUpdates
      /\ MaxUpdates \in Nat
  BY ReverbAssumption DEF IInv, RenderingTyped
<1>3. /\ m \in Message /\ subbands' \in Seq(Message)
      /\ Pending(subbands) = <<m>> \o Pending(subbands')
  BY <1>1, <1>2, NextFirst
<1> HIDE DEF m
<1>4. newFilters' \in Seq(Message) /\ Pending(newFilters') = Append(Pending(newFilters), m)
  BY <1>1, <1>2, <1>3, EnqueuedLast
<1>5. Pending(newFilters') \o Pending(subbands') = Pending(newFilters) \o Pending(subbands)
  <2>1. Pending(newFilters) \in Seq(Message) /\ Pending(subbands') \in Seq(Message)
    BY <1>2, <1>3, PendingOfQueue
  <2>2. /\ <<m>> \in Seq(Message)
        /\ Append(Pending(newFilters), m) = Pending(newFilters) \o <<m>>
    BY <1>3, <2>1, Appending
  <2>3. (Pending(newFilters) \o <<m>>) \o Pending(subbands') =
          Pending(newFilters) \o (<<m>> \o Pending(subbands'))
    BY <2>1, <2>2, ConcatAssociative
  <2> QED
    BY <1>3, <1>4, <2>2, <2>3
<1>6. NoUpdateLost'
  BY <1>1, <1>5 DEF IInv, NoUpdateLost
<1>7. updates' \in 0 .. MaxUpdates
  BY <1>1, <1>2
<1>8. RenderingTyped'
  BY <1>1, <1>3, <1>4, <1>7 DEF IInv, RenderingTyped
<1>9. FiltersTaken'
  BY <1>1 DEF FiltersTaken
<1>10. completed' = (stage' = "idle")
  <2>1. ~ completed /\ completed \in BOOLEAN
    BY <1>1 DEF IInv, ObjectsAllocated, RenderingTyped
  <2> QED
    BY <1>1, <2>1
<1> QED
  BY <1>1, <1>6, <1>8, <1>9, <1>10, RoutedUnchanged DEF IInv

\* At the limit, the messages that are left stay in the queue.
LEMMA FiltersEnd ==
  ASSUME IInv, EndFilters
  PROVE  IInv'
<1>1. /\ stage = "filters" /\ stage' = "convolver" /\ updates' = 0 /\ subbands' = subbands
      /\ UNCHANGED <<allocatorVars, objects, channel, previous, routing, newFilters, filters,
                     routings, completed, changes>>
  BY DEF EndFilters, SubbandsLeft, historyVars
<1>2. updates' \in 0 .. MaxUpdates
  BY <1>1, ReverbAssumption
<1>3. RenderingTyped'
  BY <1>1, <1>2 DEF IInv, RenderingTyped
<1>4. FiltersTaken' /\ NoUpdateLost'
  BY <1>1, UpdatesUnchanged DEF IInv, FiltersTaken
<1>5. completed' = (stage' = "idle")
  <2>1. ~ completed /\ completed \in BOOLEAN
    BY <1>1 DEF IInv, ObjectsAllocated, RenderingTyped
  <2> QED
    BY <1>1, <2>1
<1> QED
  BY <1>1, <1>3, <1>4, <1>5, RoutedUnchanged DEF IInv

\* The last message for a channel decides on its filter.
LEMMA FiltersSet ==
  ASSUME IInv, SetFilters
  PROVE  IInv'
<1> DEFINE p == Pending(newFilters)
           q == Pending(subbands)
<1>1. /\ stage = "convolver" /\ stage' = "idle" /\ completed' = TRUE /\ newFilters' = EmptyQueue
      /\ filters' = [ch \in Channel |-> LatestFilter(p, ch, filters[ch])]
      /\ UNCHANGED <<allocatorVars, objects, channel, previous, subbands, routing, updates,
                     routings, changes>>
  BY DEF SetFilters, calculatorVars
<1>2. subbands \in Seq(Message) /\ newFilters \in Seq(Message)
  BY DEF IInv, RenderingTyped
<1>3. p \in Seq(Message) /\ q \in Seq(Message)
  BY <1>2, PendingOfQueue
<1>4. Pending(newFilters') \o Pending(subbands') = q
  <2>1. Pending(EmptyQueue) = <<>>
    <3>1. EmptyQueue \in Seq(Message) /\ Len(EmptyQueue) = 0
      BY DEF EmptyQueue
    <3>2. Pending(EmptyQueue) \in Seq(Message) /\ Len(Pending(EmptyQueue)) = 0
      BY <3>1, PendingOfQueue
    <3> QED
      BY <3>2, EmptySeq
  <2> QED
    BY <1>1, <1>3, <2>1, ConcatEmptySeq
<1>5. ASSUME NEW ch \in Channel
      PROVE  previous[ch] = LatestFilter(q, ch, filters'[ch])
  <2>1. previous[ch] = LatestFilter(p \o q, ch, filters[ch])
    BY DEF IInv, NoUpdateLost
  <2>2. LatestFilter(p \o q, ch, filters[ch]) = LatestFilter(q, ch, LatestFilter(p, ch, filters[ch]))
    <3> HIDE DEF p, q
    <3> QED
      BY <1>3, LatestOfConcatenation
  <2>3. filters'[ch] = LatestFilter(p, ch, filters[ch])
    BY <1>1
  <2> QED
    BY <2>1, <2>2, <2>3
<1>6. NoUpdateLost'
  BY <1>1, <1>4, <1>5 DEF NoUpdateLost
<1>7. filters' \in [Channel -> LateReverb \cup {Unset}]
  <2>1. ASSUME NEW ch \in Channel
        PROVE  LatestFilter(p, ch, filters[ch]) \in LateReverb \cup {Unset}
    <3> HIDE DEF p
    <3>1. CASE Places(p, ch) = {}
      <4>1. LatestFilter(p, ch, filters[ch]) = filters[ch]
        BY <3>1 DEF LatestFilter, Places
      <4> QED
        BY <4>1 DEF IInv, RenderingTyped
    <3>2. CASE Places(p, ch) # {}
      <4> DEFINE x == Max(Places(p, ch))
      <4>1. LatestFilter(p, ch, filters[ch]) = p[x].late
        BY <3>2 DEF LatestFilter, Places
      <4>2. x \in 1 .. Len(p)
        BY <1>3, <3>2, PlacesInSequence, GreatestNumber
      <4> HIDE DEF x
      <4>3. p[x] \in Message
        BY <1>3, <4>2, ElementOfSeq
      <4> QED
        BY <4>1, <4>3 DEF Message
    <3> QED
      BY <3>1, <3>2
  <2> QED
    BY <1>1, <2>1
<1>8. completed' \in BOOLEAN
  BY <1>1
<1>9. newFilters' \in Seq(Message)
  BY <1>1 DEF EmptyQueue
<1>10. RenderingTyped'
  BY <1>1, <1>7, <1>8, <1>9 DEF IInv, RenderingTyped
<1>11. FiltersTaken'
  BY <1>1 DEF FiltersTaken
<1>12. completed' = (stage' = "idle")
  BY <1>1
<1> QED
  BY <1>1, <1>6, <1>10, <1>11, <1>12, RoutedUnchanged DEF IInv

LEMMA StepInvariant == IInv /\ [Next]_vars => IInv'
<1> SUFFICES ASSUME IInv, [Next]_vars
             PROVE  IInv'
  OBVIOUS
<1>1. CASE ChangeObject \/ RemoveObject
  BY <1>1, SceneChanges
<1>2. CASE BeginPeriod
  BY <1>2, PeriodBegins
<1>3. CASE Allocate
  BY <1>3, AllocationProceeds
<1>4. CASE CalculateChannel
  <2>1. CASE ClearChannel
    BY <1>4, <2>1, ChannelCleared
  <2>2. CASE ProcessObject
    BY <1>4, <2>2, ObjectProcessed
  <2> QED
    BY <1>4, <2>1, <2>2 DEF CalculateChannel
<1>5. CASE RouteSignals
  BY <1>5, SignalsRouted
<1>6. CASE CalculateFilter
  BY <1>6, FilterCalculated
<1>7. CASE EndFilters
  BY <1>7, FiltersEnd
<1>8. CASE SetFilters
  BY <1>8, FiltersSet
<1>9. CASE UNCHANGED vars
  <2>1. UNCHANGED <<allocatorVars, objects, stage, channel, previous, subbands, routing, updates,
                    newFilters, filters, routings, completed, changes>>
    BY <1>9 DEF vars, calculatorVars, filterVars, historyVars
  <2>2. AllocatorInv' /\ lookup' = lookup /\ pass' = pass /\ Requested' = Requested
    BY <2>1, AllocatorUnchanged DEF IInv, allocatorVars
  <2>3. /\ \A ch : LateOf(ch)' = LateOf(ch) /\ InputOf(ch)' = InputOf(ch)
        /\ RoutingOfObjects' = RoutingOfObjects /\ InputsValid' = InputsValid
    BY <2>1, <2>2, AskedUnchanged
  <2>4. RenderingTyped' /\ FiltersTaken' /\ NoUpdateLost'
    BY <2>1, UpdatesUnchanged DEF IInv, RenderingTyped, FiltersTaken
  <2>5. ObjectsAllocated' /\ ChannelsCalculated'
    BY <2>1, <2>2, <2>3 DEF IInv, ObjectsAllocated, ChannelsCalculated
  <2>6. Calculated' /\ RoutingPublished' /\ Routed'
    BY <2>1, <2>2, <2>3 DEF IInv, Calculated, RoutingPublished, Routed
  <2> QED
    BY <2>2, <2>4, <2>5, <2>6 DEF IInv
<1> QED
  BY <1>1, <1>2, <1>3, <1>4, <1>5, <1>6, <1>7, <1>8, <1>9 DEF Next, Period

-----------------------------------------------------------------------------
(* The theorems.                                                           *)

\* The inductive invariant of the renderer: the request that the allocator carries out
\* is the scene, the calculator has dealt with the channels before the one at hand, and
\* what it remembers is in the queues or the filters.
THEOREM Inductive == Spec => []IInv
BY InitInvariant, StepInvariant, PTL DEF Spec

\* The variables have their types; in particular no call of getUnusedChannel() and no
\* insertion of setObjects() fails, whatever requests there were.
THEOREM TypeCorrectness == Spec => []TypeOK
<1>1. IInv => TypeOK
  BY InvariantTypes DEF IInv
<1> QED
  BY <1>1, Inductive, PTL

\* Each channel of the ObjectChannelAllocator is always free or in use by one object.
THEOREM AllChannelsAccounted == Spec => []ChannelsAccounted
<1>1. IInv => ChannelsAccounted
  BY DEF IInv, AllocatorInv, Accounted, ChannelsAccounted
<1> QED
  BY <1>1, Inductive, PTL

\* What ReverbParameterCalculator remembers as sent to a channel will be its filter, for any
\* limit of updates in a period and after any exceptions.
THEOREM UpdatesArrive == Spec => []NoUpdateLost
<1>1. IInv => NoUpdateLost
  BY DEF IInv
<1> QED
  BY <1>1, Inductive, PTL

\* After a period, signals are routed to the channels of their objects and to no others.
THEOREM RoutingFollowsAllocation == Spec => []RoutedAsAllocated
<1>1. IInv => RoutedAsAllocated
  <2> SUFFICES ASSUME IInv, completed, \A id \in DOMAIN objects : objects[id].input \in Signals
               PROVE  /\ DOMAIN lookup = DOMAIN objects
                      /\ routings =
                           [ch \in Range(lookup) |-> objects[GetObjectForChannel(ch)].input]
    BY DEF RoutedAsAllocated
  <2>1. DOMAIN lookup = DOMAIN objects
    BY DEF IInv, ObjectsAllocated
  <2>2. routings = RoutingOfObjects
    BY DEF IInv, Routed, InputsValid
  <2> QED
    BY <2>1, <2>2 DEF RoutingOfObjects, InputOf
<1> QED
  BY <1>1, Inductive, PTL

\* After a period, each channel has the filter of its object unless a message that
\* corrects this waits.
THEOREM ReverbFollowsObject == Spec => []ReverbOfItsObject
<1>1. IInv => ReverbOfItsObject
  <2> SUFFICES ASSUME IInv, completed, NEW ch \in Channel,
                      ~ \E n \in DOMAIN subbands : subbands[n].channel = ch
               PROVE  filters[ch] = LateOf(ch)
    BY DEF ReverbOfItsObject, LateOf
  <2>1. subbands \in Seq(Message) /\ newFilters = EmptyQueue
    BY DEF IInv, RenderingTyped, ObjectsAllocated, FiltersTaken
  <2> DEFINE p == Pending(newFilters)
             q == Pending(subbands)
  <2>2. /\ q \in Seq(Message) /\ Len(q) = Len(subbands) /\ Len(subbands) \in Nat
        /\ \A i \in 1 .. Len(subbands) : q[i] = subbands[Len(subbands) - i + 1]
    BY <2>1, PendingOfQueue
  <2>3. p = <<>>
    <3>1. newFilters \in Seq(Message) /\ Len(newFilters) = 0
      BY <2>1 DEF EmptyQueue
    <3>2. p \in Seq(Message) /\ Len(p) = 0
      BY <3>1, PendingOfQueue
    <3> QED
      BY <3>2, EmptySeq
  <2>4. p \o q = q
    BY <2>2, <2>3, ConcatEmptySeq
  <2> HIDE DEF p, q
  <2>5. Places(q, ch) = {}
    <3>1. DOMAIN q = 1 .. Len(subbands) /\ DOMAIN subbands = 1 .. Len(subbands)
      BY <2>1, <2>2, LenProperties
    <3>2. ASSUME NEW i \in DOMAIN q
          PROVE  q[i].channel # ch
      <4>1. Len(subbands) - i + 1 \in DOMAIN subbands
        BY <2>2, <3>1
      <4>2. q[i] = subbands[Len(subbands) - i + 1]
        BY <2>2, <3>1
      <4> QED
        BY <4>1, <4>2
    <3> QED
      BY <3>2 DEF Places
  <2>6. LatestFilter(q, ch, filters[ch]) = filters[ch]
    BY <2>5 DEF LatestFilter, Places
  <2>7. previous[ch] = LatestFilter(p \o q, ch, filters[ch])
    BY DEF IInv, NoUpdateLost, p, q
  <2>8. previous[ch] = LateOf(ch)
    BY DEF IInv, Calculated
  <2> QED
    BY <2>4, <2>6, <2>7, <2>8
<1> QED
  BY <1>1, Inductive, PTL

\* The two passes of setObjects() implement ChannelAllocation: an object that stays keeps
\* its channel, and each object that is requested gets one.
THEOREM AllocationStable == Spec => AllocationIsStable
<1>1. Init => Allocation!Init
  BY DEF Init, AllocatorInit, Allocation!Init
<1>2. IInv /\ [Next]_vars => [Allocation!Next]_Allocation!allocationVars
  <2> SUFFICES ASSUME IInv, [Next]_vars
               PROVE  [Allocation!Next]_Allocation!allocationVars
    OBVIOUS
  <2>1. CASE BeginPeriod
    BY <2>1, PeriodBegins
  <2>2. CASE Allocate
    BY <2>2, AllocationProceeds
  <2>3. CASE ~ BeginPeriod /\ ~ Allocate
    <3>1. UNCHANGED allocatorVars
      BY <2>3
      DEF Next, Period, ChangeObject, RemoveObject, CalculateChannel, RouteSignals, CalculateFilter,
          EndFilters, SetFilters, vars
    <3> QED
      BY <3>1, AllocatorUnchanged DEF IInv
  <2> QED
    BY <2>1, <2>2, <2>3
<1> QED
  BY <1>1, <1>2, Inductive, PTL DEF Spec, AllocationIsStable, Allocation!Spec
=============================================================================
