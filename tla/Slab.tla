-------------------------------- MODULE Slab --------------------------------
(***************************************************************************)
(* One cache of the slab allocator, kernel/slab.c.  A slab is a page; its  *)
(* objects are numbered.  The three lists of slabs are linked lists (List),*)
(* because slab_free looks at a slab's neighbours; the free objects of a   *)
(* slab are a set.  What runs under the cache's lock is one step.          *)
(* slab_new, and the statistics it updates, run without the lock.          *)
(***************************************************************************)
EXTENDS Integers, FiniteSets, List

CONSTANTS
    Cpu,
    Page,              \* pages the physical memory manager has to give
    objects_per_slab

slabs_full == "slabs_full"
slabs_partial == "slabs_partial"
slabs_free == "slabs_free"
Heads == {slabs_full, slabs_partial, slabs_free}
Cell == Heads \cup Page
NoPage == "none"

ASSUME SlabAssumption ==
    objects_per_slab \in Nat /\ Heads \cap Page = {} /\ NoPage \notin Page

Object == 1..objects_per_slab
\* The address of slab->free_list, which list_entry turns into an "object"
\* when the list is empty.
Header == 0

VARIABLES
    h,                      \* links of the three lists and of slab->list
    free_list, inuse,       \* per slab
    free_objects,           \* statistics
    used,                   \* pages taken from the physical memory manager
    pc, new, tmp,           \* per CPU: slab_alloc on its way through slab_new
    out                     \* history: objects handed out, as <<page, object>>

vars == <<h, free_list, inuse, free_objects,
          used, pc, new, tmp, out>>

\* slab_cache_create.
Init ==
    /\ h = [c \in Cell |-> Self(c)]
    /\ free_list = [p \in Page |-> {}] /\ inuse = [p \in Page |-> 0]
    /\ free_objects = 0
    /\ used = {}
    /\ pc = [c \in Cpu |-> "idle"]
    /\ new = [c \in Cpu |-> NoPage]
    /\ tmp = [c \in Cpu |-> 0]
    /\ out = {}

----------------------------------------------------------------------------
Empty(x) == list_empty(h, x)
\* list_remove and list_push_front.
Moved(s, x) == list_push_front(list_remove(h, s), x, s)

\* Mutant: the object stays on the free list.
Unlinked_kept(s, o) == free_list[s]
Unlinked(s, o) == free_list[s] \ {o}

\* Take an object off a slab's free list; free_list' and inuse' follow.
Take(s) ==
    \E o \in IF free_list[s] = {} THEN {Header} ELSE free_list[s] :
        /\ free_list' = [free_list EXCEPT ![s] = Unlinked(s, o)]
        /\ inuse' = [inuse EXCEPT ![s] = @ + 1]
        /\ free_objects' = free_objects - 1
        /\ out' = out \cup {<<s, o>>}

BecameFull(s) == free_list'[s] = {}

AllocPartial(c) ==
    /\ pc[c] = "idle" /\ ~Empty(slabs_partial)
    /\ LET s == front(h, slabs_partial)
       IN  /\ Take(s)
           /\ h' = IF BecameFull(s) THEN Moved(s, slabs_full) ELSE h
    /\ UNCHANGED <<used, pc, new, tmp>>

AllocFree(c) ==
    /\ pc[c] = "idle" /\ Empty(slabs_partial) /\ ~Empty(slabs_free)
    /\ LET s == front(h, slabs_free)
       IN  /\ Take(s)
           /\ h' = Moved(s, slabs_partial)
    /\ UNCHANGED <<used, pc, new, tmp>>

\* No slab has room: the lock is released and slab_new called.
AllocMiss(c) ==
    /\ pc[c] = "idle" /\ Empty(slabs_partial) /\ Empty(slabs_free)
    /\ pc' = [pc EXCEPT ![c] = "new"]
    /\ UNCHANGED <<h, free_list, inuse, free_objects, used, new, tmp, out>>

slab_new(c) ==
    /\ pc[c] = "new"
    /\ \E p \in Page \ used :
         /\ used' = used \cup {p}
         /\ new' = [new EXCEPT ![c] = p]
         /\ free_list' = [free_list EXCEPT ![p] = Object]
         /\ inuse' = [inuse EXCEPT ![p] = 0]
    /\ pc' = [pc EXCEPT ![c] = "count"]
    /\ UNCHANGED <<h, free_objects, tmp, out>>

\* monitor_pmm_alloc fails and slab_alloc returns NULL.
OutOfMemory(c) ==
    /\ pc[c] = "new" /\ used = Page
    /\ pc' = [pc EXCEPT ![c] = "idle"]
    /\ UNCHANGED <<h, free_list, inuse, free_objects, used, new, tmp, out>>

\* cache->free_objects += objects_per_slab, a read and a write without lock.
CountRead(c) ==
    /\ pc[c] = "count"
    /\ tmp' = [tmp EXCEPT ![c] = free_objects]
    /\ pc' = [pc EXCEPT ![c] = "store"]
    /\ UNCHANGED <<h, free_list, inuse, free_objects, used, new, out>>

CountStore(c) ==
    /\ pc[c] = "store"
    /\ free_objects' = tmp[c] + objects_per_slab
    /\ pc' = [pc EXCEPT ![c] = "relock"]
    /\ UNCHANGED <<h, free_list, inuse, used, new, tmp, out>>

AllocNew(c) ==
    /\ pc[c] = "relock"
    /\ Take(new[c])
    /\ h' = list_push_front(h, slabs_partial, new[c])
    /\ pc' = [pc EXCEPT ![c] = "idle"]
    /\ new' = [new EXCEPT ![c] = NoPage] /\ tmp' = [tmp EXCEPT ![c] = 0]
    /\ UNCHANGED used

----------------------------------------------------------------------------
\* The slab is next to the head of slabs_full, at the front or at the back.
was_full(s) ==
    /\ ~Empty(s)
    /\ h[s].next = slabs_full \/ h[s].prev = slabs_full

\* Mutant: the slab is moved while one object is still in use.
Emptied_early(s) == inuse'[s] <= 1
Emptied(s) == inuse'[s] = 0

slab_free(c, s, o) ==
    /\ pc[c] = "idle" /\ <<s, o>> \in out
    /\ out' = out \ {<<s, o>>}
    /\ free_list' = [free_list EXCEPT ![s] = @ \cup {o}]
    /\ inuse' = [inuse EXCEPT ![s] = @ - 1]
    /\ free_objects' = free_objects + 1
    /\ h' = CASE was_full(s) -> Moved(s, slabs_partial)
              [] ~was_full(s) /\ Emptied(s) -> Moved(s, slabs_free)
              [] OTHER -> h
    /\ UNCHANGED <<used, pc, new, tmp>>

Alloc(c) ==
    \/ AllocPartial(c) \/ AllocFree(c) \/ AllocMiss(c) \/ slab_new(c)
    \/ OutOfMemory(c) \/ CountRead(c) \/ CountStore(c) \/ AllocNew(c)

Next == \E c \in Cpu : Alloc(c) \/ (\E s \in Page, o \in Object : slab_free(c, s, o))

Spec == Init /\ [][Next]_vars

----------------------------------------------------------------------------
\* A slab that slab_new is preparing is on no list yet.
Private == {new[c] : c \in Cpu} \ {NoPage}
OutOf(s) == {o \in Object \cup {Header} : <<s, o>> \in out}
\* The slabs of a list, found by following the links from its head.
Walk[x \in Cell, k \in 0..Cardinality(Page)] ==
    IF k = 0 \/ h[x].next \in Heads THEN {}
    ELSE {h[x].next} \cup Walk[h[x].next, k - 1]
Slabs(x) == Walk[x, Cardinality(Page)]

\* Types.
TypeOK ==
    /\ LinksOK(h, Cell)
    /\ free_list \in [Page -> SUBSET Object]
    /\ inuse \in [Page -> 0..objects_per_slab]
    /\ free_objects \in Int
    /\ used \subseteq Page
    /\ pc \in [Cpu -> {"idle", "new", "count", "store", "relock"}]
    /\ new \in [Cpu -> Page \cup {NoPage}] /\ tmp \in [Cpu -> Int]
    /\ out \subseteq Page \X Object

\* The links of the three lists agree both ways and a slab that is on no list
\* points to itself (slab.c:183-291).
ListsSound ==
    /\ WellLinked(h, Cell)
    /\ \A p \in Page : p \notin used \ Private => h[p] = Self(p)

\* An object is either free or handed out to one caller, never both and never
\* neither, and inuse counts those handed out, however the CPUs' calls to
\* slab_alloc and slab_free interleave (slab.c:171-294).
ObjectsAccounted ==
    \A s \in used :
        /\ OutOf(s) \cap free_list[s] = {}
        /\ OutOf(s) \cup free_list[s] = Object
        /\ inuse[s] = Cardinality(OutOf(s))

\* Each slab is on exactly one list, so that none is lost; a slab that
\* slab_alloc would take an object from has one; a slab on slabs_free has all.
SlabsFiled ==
    /\ used \ Private = UNION {Slabs(x) : x \in Heads}
    /\ \A x, y \in Heads : x # y => Slabs(x) \cap Slabs(y) = {}
    /\ \A s \in Slabs(slabs_partial) : free_list[s] # {}
    /\ \A s \in Slabs(slabs_free) : inuse[s] = 0

\* "Currently free objects" (slab.h:75): when no slab_new is in progress the
\* counter agrees with the free lists.
FreeObjectsExact ==
    Private = {} =>
        free_objects + Cardinality(out) = Cardinality(used) * objects_per_slab

\* "slabs_full: All objects allocated" (slab.h:63).
FullMeansFull == \A s \in Slabs(slabs_full) : free_list[s] = {}

\* What slab_alloc returns is an object of the cache (slab.h:101-106).
ReturnsObject == \A x \in out : x[2] # Header
=============================================================================
