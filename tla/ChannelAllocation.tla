------------------------- MODULE ChannelAllocation --------------------------
(***************************************************************************)
(* What an ObjectChannelAllocator promises: objects that are requested get *)
(* a rendering channel each, an object keeps its channel for as long as it *)
(* is requested, and channels suffice for every request that fits.         *)
(***************************************************************************)
EXTENDS Functions

CONSTANTS ObjectId, Channel

VARIABLES
  allocation,  \* the channel of each object that has one
  requested,   \* the objects of the latest request
  busy         \* a request is being carried out

allocationVars == <<allocation, requested, busy>>

Init == allocation = <<>> /\ requested = {} /\ busy = FALSE

Request ==
  /\ ~ busy
  /\ \E ids \in SUBSET ObjectId : Injection(ids, Channel) # {} /\ requested' = ids
  /\ busy' = TRUE
  /\ UNCHANGED allocation

Release ==
  /\ busy
  /\ \E id \in DOMAIN allocation \ requested :
       allocation' = Restrict(allocation, DOMAIN allocation \ {id})
  /\ UNCHANGED <<requested, busy>>

Allocate ==
  /\ busy
  /\ \E id \in requested \ DOMAIN allocation, ch \in Channel \ Range(allocation) :
       allocation' = [i \in DOMAIN allocation \cup {id} |->
                        IF i = id THEN ch ELSE allocation[i]]
  /\ UNCHANGED <<requested, busy>>

Finish ==
  /\ busy /\ DOMAIN allocation = requested
  /\ busy' = FALSE
  /\ UNCHANGED <<allocation, requested>>

Next == Request \/ Release \/ Allocate \/ Finish

Spec == Init /\ [][Next]_allocationVars
=============================================================================
