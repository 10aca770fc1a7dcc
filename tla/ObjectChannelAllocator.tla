----------------------- MODULE ObjectChannelAllocator -----------------------
(***************************************************************************)
(* rbbl::ObjectChannelAllocator.  setObjects() merges the sorted ids of    *)
(* the new request with the map of the present allocations, twice: first   *)
(* to release the channels of the objects that have gone, then to allocate *)
(* channels to the new ones.  Here each round of the two loops is a step.  *)
(***************************************************************************)
EXTENDS Naturals, FiniteSets, SequencesExt

CONSTANTS
  ObjectId,         \* object ids, which are unsigned numbers
  InvalidObjectId,  \* Object::cInvalidObjectId, the greatest number: no object has it
  MaxChannels       \* mMaxChannels

ASSUME AllocatorAssumption ==
  /\ InvalidObjectId \in Nat /\ ObjectId \subseteq 0 .. InvalidObjectId - 1
  /\ MaxChannels \in Nat

Channel == 0 .. MaxChannels - 1

VARIABLES
  lookup,     \* mLookup: the channel of each object
  unused,     \* mUnusedChannels: a stack, its top is the last element
  sortedIds,  \* mSortedIds, up to sortEnd
  pass,       \* the loop setObjects() is in, "none" outside of it
  idIt,       \* the iterators: a position in sortedIds
  lookupIt    \*   and a key of lookup, or End

allocatorVars == <<lookup, unused, sortedIds, pass, idIt, lookupIt>>

End == InvalidObjectId   \* the end iterator, behind all keys

\* begin(), and what ++ makes of an iterator at key.
FirstKey(map) == Min(DOMAIN map \cup {End})
NextKey(map, key) == Min({k \in DOMAIN map : k > key} \cup {End})

AllocatorInit ==
  /\ lookup = <<>>
  /\ unused = [n \in 1 .. MaxChannels |-> MaxChannels - n]
  /\ sortedIds = <<>> /\ pass = "none" /\ idIt = 1 /\ lookupIt = End

\* What std::sort makes of the ids.
Sorted(ids) ==
  { s \in [1 .. Cardinality(ids) -> ids] :
      Range(s) = ids /\ \A m, n \in DOMAIN s : m < n => s[m] < s[n] }

IdsExhausted == idIt > Len(sortedIds)

\* A request that fits; one that does not is refused before anything is changed.
SetObjects(ids) ==
  /\ pass = "none"
  /\ Cardinality(ids) <= MaxChannels
  /\ sortedIds' \in Sorted(ids)
  /\ pass' = "remove" /\ idIt' = 1 /\ lookupIt' = FirstKey(lookup)
  /\ UNCHANGED <<lookup, unused>>

\* mutant: an object that stays is taken for one that has gone
GoneOrMet == ~ IdsExhausted => lookupIt <= sortedIds[idIt]

\* The object at lookupIt is not among the ids.
Gone == ~ IdsExhausted => lookupIt < sortedIds[idIt]

\* mutant: the iterator is left at the erased element
ReleaseChannelOnly ==
  /\ Gone
  /\ lookup' = Restrict(lookup, DOMAIN lookup \ {lookupIt})
  /\ unused' = Append(unused, lookup[lookupIt])
  /\ UNCHANGED <<idIt, lookupIt>>

ReleaseChannel ==
  /\ Gone
  /\ lookup' = Restrict(lookup, DOMAIN lookup \ {lookupIt})
  /\ unused' = Append(unused, lookup[lookupIt])
  /\ lookupIt' = NextKey(lookup, lookupIt)
  /\ UNCHANGED idIt

\* An id that is new or, if the iterators meet, one that keeps its channel.
SkipId ==
  /\ ~ Gone
  /\ idIt' = idIt + 1
  /\ lookupIt' = IF sortedIds[idIt] < lookupIt
                 THEN lookupIt ELSE NextKey(lookup, lookupIt)
  /\ UNCHANGED <<lookup, unused>>

RemoveStep ==
  /\ pass = "remove" /\ lookupIt # End
  /\ ReleaseChannel \/ SkipId
  /\ UNCHANGED <<sortedIds, pass>>

EndRemove ==
  /\ pass = "remove" /\ lookupIt = End
  /\ pass' = "insert" /\ idIt' = 1 /\ lookupIt' = FirstKey(lookup)
  /\ UNCHANGED <<lookup, unused, sortedIds>>

UnusedKept == unused   \* mutant: the channel stays on the stack

\* The stack after getUnusedChannel().
UnusedPopped == IF unused = <<>> THEN unused ELSE Front(unused)

\* getUnusedChannel() throws if there is none, and the insertion of an id that is
\* there already makes setObjects() throw; the channel taken is not returned.
AllocateChannel ==
  LET id == sortedIds[idIt]
      fails == unused = <<>> \/ id \in DOMAIN lookup
  IN /\ id < lookupIt
     /\ unused' = UnusedPopped
     /\ lookup' = IF fails THEN lookup
                  ELSE [i \in DOMAIN lookup \cup {id} |-> IF i = id THEN Last(unused) ELSE lookup[i]]
     /\ pass' = IF fails THEN "thrown" ELSE pass
     /\ UNCHANGED lookupIt

KeepChannel ==
  /\ lookupIt <= sortedIds[idIt]
  /\ lookupIt' = NextKey(lookup, lookupIt)
  /\ UNCHANGED <<lookup, unused, pass>>

InsertStep ==
  /\ pass = "insert" /\ ~ IdsExhausted
  /\ AllocateChannel \/ KeepChannel
  /\ idIt' = idIt + 1
  /\ UNCHANGED sortedIds

EndInsert ==
  /\ pass = "insert" /\ IdsExhausted
  /\ pass' = "none" /\ sortedIds' = <<>> /\ idIt' = 1 /\ lookupIt' = End
  /\ UNCHANGED <<lookup, unused>>

NoObject == InvalidObjectId

GetObjectForChannel(ch) ==
  IF \E id \in DOMAIN lookup : lookup[id] = ch
  THEN CHOOSE id \in DOMAIN lookup : lookup[id] = ch
  ELSE NoObject

AllocatorStep == RemoveStep \/ EndRemove \/ InsertStep \/ EndInsert

\* The allocation that is seen from outside, and the latest request.
Allocation == INSTANCE ChannelAllocation WITH
  allocation <- lookup,
  requested <- IF pass = "none" THEN DOMAIN lookup ELSE Range(sortedIds),
  busy <- pass # "none"
=============================================================================
