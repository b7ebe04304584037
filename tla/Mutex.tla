------------------------------- MODULE Mutex -------------------------------
(***************************************************************************)
(* What a spin lock promises (include/spinlock.h): each lock has at most   *)
(* one owner, a free lock can be taken by anyone, and only its owner gives *)
(* it back.                                                                *)
(***************************************************************************)
CONSTANTS Lock, Holder, Nobody

VARIABLE owner

Init == owner = [l \in Lock |-> Nobody]

Acquire(h, l) ==
    /\ owner[l] = Nobody
    /\ owner' = [owner EXCEPT ![l] = h]

Release(h, l) ==
    /\ owner[l] = h
    /\ owner' = [owner EXCEPT ![l] = Nobody]

Next == \E h \in Holder, l \in Lock : Acquire(h, l) \/ Release(h, l)

Spec == Init /\ [][Next]_owner
============================================================================
