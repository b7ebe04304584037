-------------------------------- MODULE Kmap --------------------------------
(***************************************************************************)
(* Kernel mappings, kernel/kmap.c: the list of regions with their          *)
(* reference counts, and the pages behind them (PageTable).  What runs     *)
(* under kmap_lock is one step; what runs outside it is a step of its own. *)
(* A caller works on a structure it created and has not given up, or on    *)
(* the one it has looked up; the structures of kmap_init are anybody's.    *)
(*                                                                         *)
(* kmap.c does not tell an entry of 2 MB, as boot.S makes them, from one   *)
(* that leads to a table.  What it reads of such a "table" is the memory   *)
(* that is mapped: either it finds no page there, or it overwrites memory, *)
(* and `wild' is set: nothing is known from then on, and nothing followed. *)
(***************************************************************************)
EXTENDS PageTable, SequencesExt

CONSTANTS
    Cpu,
    Map,        \* kmap_t structures that slab_alloc_size has to give
    Request,    \* what callers ask of kmap_create: [start, end, phys, pageable]
    Flags,      \* flags that callers give to pages; all of them say "present"
    BootRegion  \* what kmap_init asks of kmap_create, in its order

NoMap == "null"

ASSUME KmapAssumption ==
    /\ NoMap \notin Map
    /\ Request \subseteq [start : Addr, end : Nat, phys : Nat, pageable : BOOLEAN]
    /\ BootRegion \in Seq([start : BootAddr, end : Nat, phys : Nat, pageable : {FALSE}])
    /\ "rw" \in Flags

VARIABLES
    reg,        \* contents of each structure
    alive,      \* structures allocated
    kmap_list,  \* the list, as the sequence of its structures
    pt,         \* page tables and free pages
    wild,       \* memory has been overwritten
    owned,      \* structures whose creation reference has not been given up
    ref,        \* per CPU: the structure it has looked up and not yet put
    pc, m, n, a, lim   \* per CPU: call in progress, its mappings, cursor, limit

vars == <<reg, alive, kmap_list, pt, wild, owned, ref, pc, m, n, a, lim>>
regions == <<reg, alive, kmap_list, owned>>
memory == <<pt, wild>>
locals == <<m, n, a, lim>>

Blank == [start |-> 0, end |-> 0, phys |-> 0, pageable |-> FALSE, flags |-> "none",
          refcount |-> 0, num_pages |-> 0]

Fresh(r, f) ==
    [start |-> r.start, end |-> r.end, phys |-> r.phys, pageable |-> r.pageable, flags |-> f,
     refcount |-> 1, num_pages |-> r.end - r.start]

\* After kmap_init, whose regions lie one above the other.
Init ==
    /\ \E boot \in [DOMAIN BootRegion -> Map] :
         /\ IsInjective(boot)
         /\ reg = [x \in Map |-> IF \E j \in DOMAIN boot : boot[j] = x
                                THEN Fresh(BootRegion[CHOOSE j \in DOMAIN boot : boot[j] = x], "rw")
                                ELSE Blank]
         /\ alive = ToSet(boot) /\ kmap_list = boot /\ owned = ToSet(boot)
    /\ pt = Booted /\ wild = FALSE
    /\ ref = [c \in Cpu |-> NoMap]
    /\ pc = [c \in Cpu |-> "idle"]
    /\ m = [c \in Cpu |-> NoMap] /\ n = [c \in Cpu |-> NoMap]
    /\ a = [c \in Cpu |-> 0] /\ lim = [c \in Cpu |-> 0]

----------------------------------------------------------------------------
Idle(c) == pc[c] = "idle"
Goto(c, l) == pc' = [pc EXCEPT ![c] = l]
\* The end of a call.
Return(c) ==
    /\ Goto(c, "idle")
    /\ m' = [m EXCEPT ![c] = NoMap] /\ n' = [n EXCEPT ![c] = NoMap]
    /\ a' = [a EXCEPT ![c] = 0] /\ lim' = [lim EXCEPT ![c] = 0]
Handles(c) == owned \cup ({ref[c]} \ {NoMap})
\* The owner of a region does one thing at a time with it; others may fault.
Spare(x) == \A d \in Cpu : m[d] # x /\ n[d] # x
OnlyFaults(x) ==
    \A d \in Cpu : x \in {m[d], n[d]} => pc[d] \in {"fault", "fault_alloc", "fault_put"}
Pages(x) == reg[x].start..(reg[x].end - 1)
Registered == ToSet(kmap_list)
After(x, y) == InsertAt(kmap_list, SelectInSeq(kmap_list, LAMBDA z : z = x) + 1, y)

----------------------------------------------------------------------------
\* kmap_create up to the lock.  Callers create no overlapping regions.
kmap_create(c) ==
    /\ Idle(c)
    /\ \E r \in Request, x \in Map \ alive :
         /\ \A y \in (Registered \cup {m[d] : d \in Cpu}) \ {NoMap} :
               r.end <= reg[y].start \/ reg[y].end <= r.start
         /\ \E f \in Flags : reg' = [reg EXCEPT ![x] = Fresh(r, f)]
         /\ alive' = alive \cup {x} /\ m' = [m EXCEPT ![c] = x]
    /\ Goto(c, "insert")
    /\ UNCHANGED <<kmap_list, memory, owned, ref, n, a, lim>>

\* Insert behind the first region that lies higher, or at the end.
Insert(c) ==
    /\ pc[c] = "insert"
    /\ LET higher == SelectInSeq(kmap_list, LAMBDA y : reg[m[c]].start < reg[y].start)
       IN  kmap_list' = IF higher = 0 THEN Append(kmap_list, m[c])
                        ELSE After(kmap_list[higher], m[c])
    /\ owned' = owned \cup {m[c]}
    /\ Return(c)
    /\ UNCHANGED <<reg, alive, memory, ref>>

Unlisted(x) == RemoveFirst(kmap_list, x)

\* Mutant: the upper half starts with the reference count of the original.
UpperHalf_counted(x, at) ==
    [reg[x] EXCEPT !.start = at, !.phys = @ + (at - reg[x].start),
                   !.num_pages = reg[x].end - at]
UpperHalf(x, at) ==
    [reg[x] EXCEPT !.start = at, !.phys = @ + (at - reg[x].start), !.refcount = 1,
                   !.num_pages = reg[x].end - at]

\* Mutant: the original keeps its last page.
LowerHalf_late(x, at) ==
    [reg[x] EXCEPT !.end = at + 1, !.num_pages = at + 1 - reg[x].start]
LowerHalf(x, at) == [reg[x] EXCEPT !.end = at, !.num_pages = at - reg[x].start]

\* kmap_split up to the lock: the structure for the upper half.
kmap_split(c) ==
    /\ Idle(c)
    /\ \E x \in Handles(c), y \in Map \ alive : \E at \in Pages(x) \ {reg[x].start} :
         /\ reg' = [reg EXCEPT ![y] = UpperHalf(x, at)]
         /\ alive' = alive \cup {y}
         /\ m' = [m EXCEPT ![c] = x] /\ n' = [n EXCEPT ![c] = y] /\ a' = [a EXCEPT ![c] = at]
    /\ Goto(c, "split")
    /\ UNCHANGED <<kmap_list, memory, owned, ref, lim>>

SplitLink(c) ==
    /\ pc[c] = "split"
    /\ reg' = [reg EXCEPT ![m[c]] = LowerHalf(m[c], a[c])]
    /\ kmap_list' = After(m[c], n[c])
    /\ owned' = owned \cup {n[c]}
    /\ Return(c)
    /\ UNCHANGED <<alive, memory, ref>>

Mergeable(x, y) ==
    /\ reg[x].end = reg[y].start
    /\ reg[x].pageable = reg[y].pageable /\ reg[x].flags = reg[y].flags
    /\ reg[x].refcount = 1 /\ reg[y].refcount = 1

\* kmap_merge: the checks, then the list under the lock, then the free.
kmap_merge(c) ==
    /\ Idle(c)
    /\ \E x, y \in owned :
         /\ Spare(x) /\ Spare(y) /\ Mergeable(x, y)
         /\ m' = [m EXCEPT ![c] = x] /\ n' = [n EXCEPT ![c] = y]
    /\ Goto(c, "merge")
    /\ UNCHANGED <<regions, memory, ref, a, lim>>

MergeLink(c) ==
    /\ pc[c] = "merge"
    /\ reg' = [reg EXCEPT ![m[c]].end = reg[n[c]].end, ![m[c]].num_pages = @ + reg[n[c]].num_pages]
    /\ kmap_list' = Unlisted(n[c])
    /\ owned' = owned \ {n[c]}
    /\ Goto(c, "merge_free")
    /\ UNCHANGED <<alive, memory, ref, locals>>

MergeFree(c) ==
    /\ pc[c] = "merge_free"
    /\ alive' = alive \ {n[c]} /\ reg' = [reg EXCEPT ![n[c]] = Blank]
    /\ Return(c)
    /\ UNCHANGED <<kmap_list, memory, owned, ref>>

\* What becomes of memory when pages are looked up that may have no table.
Touch(ps) == wild' \in (IF \E p \in ps : Big(pt, p) THEN BOOLEAN ELSE {FALSE})

kmap_modify_flags(c) ==
    /\ Idle(c)
    /\ \E x \in Handles(c), f \in Flags :
         /\ reg' = [reg EXCEPT ![x].flags = f]
         /\ pt' = Reprotect(pt, Pages(x), f)
         /\ Touch(Pages(x))
    /\ UNCHANGED <<alive, kmap_list, owned, ref, pc, locals>>

----------------------------------------------------------------------------
\* The first region on the list that overlaps a range of pages, if any.
Found(from, to) ==
    LET i == SelectInSeq(kmap_list, LAMBDA y : from < reg[y].end /\ to > reg[y].start)
    IN  IF i = 0 THEN NoMap ELSE kmap_list[i]

\* kmap_lookup (a range of one page) and kmap_lookup_range, when they find one.
kmap_lookup(c) ==
    /\ Idle(c) /\ ref[c] = NoMap
    /\ \E from \in Addr, last \in Addr : from <= last /\
         LET x == Found(from, last + 1)
         IN  /\ x # NoMap
             /\ ref' = [ref EXCEPT ![c] = x]
             /\ reg' = [reg EXCEPT ![x].refcount = @ + 1]
    /\ UNCHANGED <<alive, kmap_list, memory, owned, pc, locals>>

\* kmap_put's decrement.  The last reference goes on to destroy.
PutStep(c, x) ==
    /\ reg' = [reg EXCEPT ![x].refcount = @ - 1]
    /\ IF reg[x].refcount = 1
       THEN Goto(c, "destroy") /\ m' = [m EXCEPT ![c] = x] /\ UNCHANGED <<n, a, lim>>
       ELSE Return(c)

kmap_put(c) ==
    /\ Idle(c) /\ ref[c] # NoMap
    /\ ref' = [ref EXCEPT ![c] = NoMap]
    /\ PutStep(c, ref[c])
    /\ UNCHANGED <<alive, kmap_list, memory, owned>>

\* The owner gives up a region whose pages it has unmapped, but for entries of
\* 2 MB, which stay.
Drop(c) ==
    /\ Idle(c)
    /\ \E x \in owned :
         /\ Spare(x) /\ \A p \in Pages(x) : ~Mapped(pt, p)
         /\ owned' = owned \ {x}
         /\ PutStep(c, x)
    /\ UNCHANGED <<alive, kmap_list, memory, ref>>

\* kmap_destroy: the check of the count, the list, the structure.
kmap_destroy(c) ==
    /\ pc[c] = "destroy"
    /\ IF reg[m[c]].refcount # 0 THEN Return(c) ELSE Goto(c, "remove") /\ UNCHANGED locals
    /\ UNCHANGED <<regions, memory, ref>>

DestroyRemove(c) ==
    /\ pc[c] = "remove"
    /\ kmap_list' = Unlisted(m[c])
    /\ Goto(c, "destroy_free")
    /\ UNCHANGED <<reg, alive, memory, owned, ref, locals>>

DestroyFree(c) ==
    /\ pc[c] = "destroy_free"
    /\ alive' = alive \ {m[c]} /\ reg' = [reg EXCEPT ![m[c]] = Blank]
    /\ Return(c)
    /\ UNCHANGED <<kmap_list, memory, owned, ref>>

\* kmap_get by a caller that owns the region.
kmap_get(c) ==
    /\ Idle(c) /\ ref[c] = NoMap
    /\ \E x \in owned :
         /\ ref' = [ref EXCEPT ![c] = x]
         /\ reg' = [reg EXCEPT ![x].refcount = @ + 1]
    /\ UNCHANGED <<alive, kmap_list, memory, owned, pc, locals>>

----------------------------------------------------------------------------
Settled(s) == [s EXCEPT !.ok = TRUE]

\* kmap_map_pages, by the owner of a region none of whose pages is mapped;
\* page by page.
kmap_map_pages(c) ==
    /\ Idle(c)
    /\ \E x \in owned :
         /\ Spare(x) /\ \A p \in Pages(x) : ~Mapped(pt, p) /\ ~Big(pt, p)
         /\ m' = [m EXCEPT ![c] = x] /\ a' = [a EXCEPT ![c] = reg[x].start]
    /\ Goto(c, "map")
    /\ UNCHANGED <<regions, memory, ref, n, lim>>

\* Mutant: the pages mapped before the failure are not taken back.
Unwound_none(c) == reg[m[c]].start
\* The pages before this address are unmapped when one cannot be mapped.
Unwound(c) == a[c]

MapPage(c) ==
    /\ pc[c] = "map"
    /\ LET r == reg[m[c]]
           t == IF r.phys # 0 THEN kmap_map_pages_direct(pt, a[c], r.phys + (a[c] - r.start), r.flags)
                ELSE kmap_alloc_page(pt, a[c], r.flags)
       IN  IF a[c] >= r.end THEN Return(c) /\ UNCHANGED pt
           ELSE /\ pt' = Settled(t)
                /\ IF t.ok THEN a' = [a EXCEPT ![c] = @ + 1] /\ UNCHANGED <<pc, m, n, lim>>
                   ELSE /\ a' = [a EXCEPT ![c] = r.start] /\ lim' = [lim EXCEPT ![c] = Unwound(c)]
                        /\ Goto(c, "unmap") /\ UNCHANGED <<m, n>>
    /\ UNCHANGED <<regions, wild, ref>>

kmap_unmap_pages(c) ==
    /\ Idle(c)
    /\ \E x \in owned :
         /\ Spare(x) /\ m' = [m EXCEPT ![c] = x]
         /\ a' = [a EXCEPT ![c] = reg[x].start] /\ lim' = [lim EXCEPT ![c] = reg[x].end]
    /\ Goto(c, "unmap")
    /\ UNCHANGED <<regions, memory, ref, n>>

UnmapPage(c) ==
    /\ pc[c] = "unmap"
    /\ IF a[c] < lim[c]
       THEN /\ pt' = kmap_free_page(pt, a[c]) /\ Touch({a[c]})
            /\ a' = [a EXCEPT ![c] = @ + 1] /\ UNCHANGED <<pc, m, n, lim>>
       ELSE Return(c) /\ UNCHANGED <<pt, wild>>
    /\ UNCHANGED <<regions, ref>>

----------------------------------------------------------------------------
\* Callers touch pages of regions that their owners have not given up.  A page
\* that is not present, or is read-only, faults; page_fault_handler calls
\* kmap_handle_page_fault, which looks the region up.
Fault(c) ==
    /\ Idle(c)
    /\ \E p \in Addr :
         LET x == Found(p, p + 1)
         IN  /\ x \in owned /\ OnlyFaults(x)
             /\ (~Mapped(pt, p) /\ ~Big(pt, p)) \/ pt.prot[p] = "ro"
             /\ reg' = [reg EXCEPT ![x].refcount = @ + 1]
             /\ m' = [m EXCEPT ![c] = x] /\ a' = [a EXCEPT ![c] = p]
    /\ Goto(c, "fault")
    /\ UNCHANGED <<alive, kmap_list, memory, owned, ref, n, lim>>

\* Not a pageable region: page_fault_handler stops the system.
Fatal(c) ==
    /\ pc[c] = "fault" /\ ~reg[m[c]].pageable
    /\ reg' = [reg EXCEPT ![m[c]].refcount = @ - 1]
    /\ pc' = [d \in Cpu |-> "halt"]
    /\ UNCHANGED <<alive, kmap_list, memory, owned, ref, locals>>

AlreadyMapped(c) == Mapped(pt, a[c])

FaultCheck(c) ==
    /\ pc[c] = "fault" /\ reg[m[c]].pageable
    /\ Goto(c, IF AlreadyMapped(c) THEN "fault_put" ELSE "fault_alloc")
    /\ UNCHANGED <<regions, memory, ref, locals>>

\* Allocate and map; without memory the region is put and the system stops.
FaultAlloc(c) ==
    /\ pc[c] = "fault_alloc"
    /\ LET t == kmap_alloc_page(pt, a[c], reg[m[c]].flags)
       IN  /\ pt' = Settled(t)
           /\ pc' = IF t.ok THEN [pc EXCEPT ![c] = "fault_put"] ELSE [d \in Cpu |-> "halt"]
           /\ reg' = IF t.ok THEN reg ELSE [reg EXCEPT ![m[c]].refcount = @ - 1]
    /\ UNCHANGED <<alive, kmap_list, wild, owned, ref, locals>>

FaultPut(c) ==
    /\ pc[c] = "fault_put"
    /\ PutStep(c, m[c])
    /\ UNCHANGED <<alive, kmap_list, memory, owned, ref>>

----------------------------------------------------------------------------
Next ==
    ~wild /\ \E c \in Cpu :
        \/ kmap_create(c) \/ Insert(c) \/ kmap_split(c) \/ SplitLink(c)
        \/ kmap_merge(c) \/ MergeLink(c) \/ MergeFree(c) \/ kmap_modify_flags(c)
        \/ kmap_lookup(c) \/ kmap_get(c) \/ kmap_put(c) \/ Drop(c)
        \/ kmap_destroy(c) \/ DestroyRemove(c) \/ DestroyFree(c)
        \/ kmap_map_pages(c) \/ MapPage(c) \/ kmap_unmap_pages(c) \/ UnmapPage(c)
        \/ Fault(c) \/ Fatal(c) \/ FaultCheck(c) \/ FaultAlloc(c) \/ FaultPut(c)

Spec == Init /\ [][Next]_vars

----------------------------------------------------------------------------
Resting == \A c \in Cpu : Idle(c)

\* Types; a list holds allocated structures, each once.
TypeOK ==
    /\ alive \subseteq Map /\ owned \subseteq alive
    /\ Registered \subseteq alive /\ Len(kmap_list) = Cardinality(Registered)
    /\ ref \in [Cpu -> Map \cup {NoMap}]
    /\ pt.free \in 0..Frames /\ pt.made = {} /\ pt.ok
    /\ \A x \in Map : reg[x].refcount >= 0 /\ reg[x].num_pages >= 0
    /\ m \in [Cpu -> Map \cup {NoMap}] /\ n \in [Cpu -> Map \cup {NoMap}]

\* Whatever fails on the way, no page of the physical memory manager is lost:
\* each is free, mapped, or a table, and kmap_alloc_page's roll-back and
\* kmap_free_page's pruning leave no empty table behind and take none away that
\* is in use or has a 2 MB entry of boot.S (kmap.c:105-291, 813-864), until
\* memory is overwritten through such an entry.  With more CPUs than one it is
\* what "an atomic check-and-allocate pattern" to "prevent race conditions when
\* multiple CPUs fault on the same page" (kmap.c:879) has to guarantee.
FramesConserved == ~wild => Conserved(pt) /\ Lean(pt)

\* Splitting, merging and moving leave disjoint regions whose num_pages is
\* right (kmap.c:343-403, 523-611).
RegionsDisjoint ==
    Resting => \A x, y \in Registered :
        /\ reg[x].num_pages = Cardinality(Pages(x)) /\ Pages(x) # {}
        /\ x # y => Pages(x) \cap Pages(y) = {}

\* A reference count is the number of references, and a structure lives as
\* long as there is one (kmap.c:413-456, 629-677).
RefsExact ==
    Resting => /\ alive = Registered
               /\ \A x \in alive :
                    /\ reg[x].refcount > 0
                    /\ reg[x].refcount = Cardinality({c \in Cpu : ref[c] = x})
                                         + (IF x \in owned THEN 1 ELSE 0)

\* Between calls each page that has an entry of its own lies in a region that
\* has an owner and carries the flags of that region (kmap.c:469-518, 813-945),
\* until memory is overwritten through a 2 MB entry of boot.S.  The pages
\* behind such entries are not covered: splitting, unmapping or dropping their
\* regions leaves the entry as it was, and so do new flags.
PagesInRegions ==
    Resting /\ ~wild => \A p \in Addr : Mapped(pt, p) =>
        \E x \in owned : p \in Pages(x) /\ pt.prot[p] = reg[x].flags

\* kmap_map_pages maps all pages of the region or, when one fails, none, and
\* kmap_unmap_pages leaves none but those behind a 2 MB entry (kmap.c:813-864),
\* until memory is overwritten through such an entry.
MapAllOrNothing ==
    [][\A c \in Cpu : ~wild' /\ pc'[c] = "idle" =>
          /\ pc[c] = "map" => \A p \in Pages(m[c]) : Mapped(pt', p)
          /\ pc[c] = "unmap" => \A p \in Pages(m[c]) : ~Mapped(pt', p)]_vars

=============================================================================
