-------------------------------- MODULE Pmm --------------------------------
(***************************************************************************)
(* The physical memory manager, kernel/pmm.c: a buddy allocator over page  *)
(* frames.  A block is [base, order], base in pages.  The free lists and   *)
(* the allocated list are sets of blocks, so which block of an order is    *)
(* taken is left open.  Descriptors are counted, because they are never    *)
(* given back.  The loops of split_block and coalesce_block run one step   *)
(* per iteration with the PMM lock held; `cur' is the block in hand.  The   *)
(* loop of pmm_alloc that marks the pages runs one step per page without   *)
(* the lock.                                                               *)
(***************************************************************************)
EXTENDS Integers, Sequences, FiniteSets

CONSTANTS
    Cpu,
    PAGE_SIZE,       \* bytes in a page
    MAX_ORDER,       \* 9 in the kernel
    MAX_BLOCK_DESC,  \* 2048 in the kernel
    MAX_SCAN,        \* list entries coalesce_block looks at: 1000 in the kernel
    MemMaps,         \* memory maps: sequences of [base, size], in bytes
    Reservations,    \* what pmm_init reserves: sequences of [base, size]
    MaxFreePages     \* bound: value of the free_pages counter

\* 1 << order
Pow2 == <<1, 2, 4, 8, 16, 32, 64, 128, 256, 512>>
Pages(o) == Pow2[o + 1]
Orders == 0..MAX_ORDER

Region == [base : Nat, size : Nat]
Block == [base : Nat, order : Orders]
\* "other": a type that the owner of the page has given it.
PcdType == {"NK_NORMAL", "other"}

ASSUME PmmAssumption ==
    /\ "none" \notin Cpu
    /\ PAGE_SIZE \in Nat \ {0}
    /\ MAX_ORDER \in 0..9
    /\ MAX_BLOCK_DESC \in Nat /\ MAX_SCAN \in Nat
    /\ MaxFreePages \in Nat
    /\ MemMaps \subseteq Seq(Region) /\ Reservations \subseteq Seq(Region)

VARIABLES
    free, allocated,        \* free_lists[], allocated_blocks
    block_count,            \* descriptors in use
    free_pages, total_pages,
    regions, reserves,      \* what pmm_init has still to add and to reserve
    addr, end,              \* the loop of pmm_add_region
    lock,                   \* holder of pmm_state.lock, or "none"
    pc, cur, target,        \* per CPU: the operation in progress
    mark,                   \* per CPU: pages marked by the loop of pmm_alloc
    pcd,                    \* page control data: type of each page
    managed,                \* history: pages added and not reserved
    skipped                 \* history: free blocks whose buddy was free and not found

bootVars == <<regions, reserves, addr, end, total_pages, managed>>
vars == <<free, allocated, block_count, free_pages, total_pages, regions,
          reserves, addr, end, lock, pc, cur, target, mark, pcd, managed, skipped>>

Extent(b) == b.base .. (b.base + Pages(b.order) - 1)
Extents(S) == UNION {Extent(b) : b \in S}
PageUp(a) == (a + PAGE_SIZE - 1) \div PAGE_SIZE
PageDown(a) == a \div PAGE_SIZE
Aligned(a, o) == a % Pages(o) = 0
NoBlock == [base |-> 0, order |-> 0]

\* Mutant: the buddy is always taken to be above.
get_buddy_addr_above(b) == b.base + Pages(b.order)

\* get_buddy_addr: base XOR size, for a base aligned to the size.
get_buddy_addr(b) ==
    IF Aligned(b.base, b.order + 1) THEN b.base + Pages(b.order)
                                    ELSE b.base - Pages(b.order)

Buddy(b) == [base |-> get_buddy_addr(b), order |-> b.order]

\* The pages that pmm_add_region makes of a region: base and size are aligned
\* each by itself.
RegionPages(r) == PageUp(r.base) .. (PageUp(r.base) + PageDown(r.size) - 1)
AllPages == UNION {UNION {RegionPages(r[i]) : i \in 1..Len(r)} : r \in MemMaps}
\* A memory map whose regions share no page.
RegionsApart ==
    \A r \in MemMaps : \A i, j \in 1..Len(r) :
        i # j => RegionPages(r[i]) \cap RegionPages(r[j]) = {}

Init ==
    /\ free = {} /\ allocated = {}
    /\ block_count = 0 /\ free_pages = 0 /\ total_pages = 0
    /\ regions \in MemMaps /\ reserves \in Reservations
    /\ addr = 0 /\ end = 0
    /\ lock = "none"
    /\ pc = [c \in Cpu |-> "boot"]
    /\ cur = [c \in Cpu |-> NoBlock]
    /\ target = [c \in Cpu |-> 0]
    /\ mark = [c \in Cpu |-> 0]
    /\ pcd = [p \in AllPages |-> "NK_NORMAL"]
    /\ managed = {} /\ skipped = {}

----------------------------------------------------------------------------
\* alloc_block: a descriptor is left.
alloc_block_early == block_count + 1 < MAX_BLOCK_DESC
alloc_block == block_count < MAX_BLOCK_DESC

(* add_free_block: without a descriptor the block is dropped. *)
add_free_block(S, b) ==
    IF alloc_block
    THEN /\ free' = S \cup {b}
         /\ block_count' = block_count + 1
         /\ free_pages' = free_pages + Pages(b.order)
    ELSE /\ free' = S /\ UNCHANGED <<block_count, free_pages>>

(* pmm_add_region: align base and size and start the loop.                  *)
pmm_add_region(r) ==
    /\ addr' = PageUp(r.base)
    /\ end' = PageUp(r.base) + PageDown(r.size)
    /\ total_pages' = total_pages + PageDown(r.size)
    /\ managed' = managed \cup RegionPages(r)

AddRegion ==
    /\ addr >= end /\ regions # << >>
    /\ pmm_add_region(Head(regions))
    /\ regions' = Tail(regions)
    /\ UNCHANGED <<free, allocated, block_count, free_pages, reserves, lock,
                   pc, cur, target, mark, pcd, skipped>>

\* The largest order that fits the remaining pages and the alignment.
Fits(o) == Pages(o) <= end - addr /\ Aligned(addr, o)
LargestOrder == CHOOSE o \in Orders : Fits(o) /\ \A q \in Orders : Fits(q) => q <= o

(* One iteration of the loop of pmm_add_region. *)
AddBlock ==
    /\ addr < end
    /\ add_free_block(free, [base |-> addr, order |-> LargestOrder])
    /\ addr' = addr + Pages(LargestOrder)
    /\ UNCHANGED <<allocated, total_pages, regions, reserves, end, lock, pc,
                   cur, target, mark, pcd, managed, skipped>>

\* The block intersects the pages from a up to, not including, e.
Intersects_inside(b, a, e) == a <= b.base /\ e >= b.base + Pages(b.order)
Intersects(b, a, e) == a < b.base + Pages(b.order) /\ e > b.base

\* What the removal of free blocks takes off free_pages.
Uncounted_blocks(S) == Cardinality(S)
Uncounted(S) == Cardinality(Extents(S))

(* pmm_reserve_region: remove the free blocks that intersect the region and *)
(* put the pages outside it back one by one, as far as descriptors last.    *)
pmm_reserve_region(r) ==
    LET a == PageUp(r.base)
        e == PageDown(r.base + r.size)
        hit == IF a >= e THEN {}
               ELSE {b \in free : Intersects(b, a, e)}
        outside == Extents(hit) \ (a .. (e - 1))
        room == MAX_BLOCK_DESC - block_count
        n == IF Cardinality(outside) <= room THEN Cardinality(outside) ELSE room
    IN \E kept \in SUBSET outside :
       /\ Cardinality(kept) = n
       /\ free' = (free \ hit) \cup {[base |-> p, order |-> 0] : p \in kept}
       /\ block_count' = block_count + n
       /\ free_pages' = free_pages - Uncounted(hit) + n
       /\ managed' = managed \ (a .. (e - 1))

ReserveRegion ==
    /\ addr >= end /\ regions = << >> /\ reserves # << >>
    /\ pmm_reserve_region(Head(reserves))
    /\ reserves' = Tail(reserves)
    /\ UNCHANGED <<allocated, total_pages, regions, addr, end, lock, pc, cur,
                   target, mark, pcd, skipped>>

(* pmm_init returns; the CPUs begin to allocate. *)
BootDone ==
    /\ addr >= end /\ regions = << >> /\ reserves = << >>
    /\ \E c \in Cpu : pc[c] = "boot"
    /\ pc' = [c \in Cpu |-> "idle"]
    /\ UNCHANGED <<free, allocated, block_count, free_pages, bootVars, lock,
                   cur, target, mark, pcd, skipped>>

----------------------------------------------------------------------------
\* find_free_block: a block of the smallest order from o that has one.
Candidates(o) ==
    {b \in free : b.order >= o /\
        \A d \in free : d.order >= o => b.order <= d.order}

\* What stays of `skipped' when a block leaves its free list.
Unskipped(b) == {d \in skipped : d # b /\ Buddy(d) # b}

(* pmm_alloc: take the lock and a block. *)
pmm_alloc(c, o) ==
    /\ pc[c] = "idle" /\ lock = "none"
    /\ \E b \in Candidates(o) :
          /\ free' = free \ {b}
          /\ cur' = [cur EXCEPT ![c] = b]
          /\ skipped' = Unskipped(b)
    /\ lock' = c
    /\ target' = [target EXCEPT ![c] = o]
    /\ pc' = [pc EXCEPT ![c] = "split"]
    /\ UNCHANGED <<allocated, block_count, free_pages, bootVars, mark, pcd>>

(* pmm_alloc: NULL when no block is large enough. *)
OutOfMemory(c, o) ==
    /\ pc[c] = "idle" /\ lock = "none"
    /\ Candidates(o) = {}
    /\ UNCHANGED vars

\* The upper half of a block of order o + 1.
UpperHalf(b, o) == [base |-> b.base + Pages(o), order |-> o]

(* One iteration of split_block: halve the block, free the upper half. *)
split_block(c) ==
    /\ pc[c] = "split" /\ cur[c].order > target[c]
    /\ LET o == cur[c].order - 1 IN
       /\ add_free_block(free, UpperHalf(cur[c], o))
       /\ cur' = [cur EXCEPT ![c].order = o]
    /\ UNCHANGED <<allocated, bootVars, lock, pc, target, mark, pcd, skipped>>

(* split_block ends: the block is allocated and the lock released. *)
AllocDone(c) ==
    /\ pc[c] = "split" /\ cur[c].order = target[c]
    /\ allocated' = allocated \cup {cur[c]}
    /\ lock' = "none"
    /\ pc' = [pc EXCEPT ![c] = "pcd"]
    /\ UNCHANGED <<free, block_count, free_pages, bootVars, cur, target, mark, pcd, skipped>>

\* The condition of the loop that marks the pages.
Unmarked_inclusive(c) == mark[c] <= Pages(cur[c].order)
Unmarked(c) == mark[c] < Pages(cur[c].order)

(* One iteration of that loop, without the PMM lock.                       *)
MarkPage(c) ==
    /\ pc[c] = "pcd" /\ Unmarked(c)
    /\ pcd' = [pcd EXCEPT ![cur[c].base + mark[c]] = "NK_NORMAL"]
    /\ mark' = [mark EXCEPT ![c] = @ + 1]
    /\ UNCHANGED <<free, allocated, block_count, free_pages, bootVars, lock, pc,
                   cur, target, skipped>>

(* pmm_alloc returns the address of the block.                             *)
AllocReturn(c) ==
    /\ pc[c] = "pcd" /\ ~Unmarked(c)
    /\ pc' = [pc EXCEPT ![c] = "idle"]
    /\ cur' = [cur EXCEPT ![c] = NoBlock]
    /\ target' = [target EXCEPT ![c] = 0]
    /\ mark' = [mark EXCEPT ![c] = 0]
    /\ UNCHANGED <<free, allocated, block_count, free_pages, bootVars, lock,
                   pcd, skipped>>

\* Blocks whose address pmm_alloc has returned to a caller.
Returned == allocated \ {cur[c] : c \in {d \in Cpu : pc[d] = "pcd"}}

(* The owner of a block gives one of its pages another type.               *)
pcd_set_type(b, p) ==
    /\ b \in Returned /\ p \in Extent(b)
    /\ pcd' = [pcd EXCEPT ![p] = "other"]
    /\ UNCHANGED <<free, allocated, block_count, free_pages, bootVars, lock,
                   pc, cur, target, mark, skipped>>

(* pmm_free: the block comes off the allocated list. *)
pmm_free(c, b) ==
    /\ pc[c] = "idle" /\ lock = "none"
    /\ b \in Returned
    /\ free_pages <= MaxFreePages
    /\ allocated' = allocated \ {b}
    /\ cur' = [cur EXCEPT ![c] = b]
    /\ lock' = c
    /\ pc' = [pc EXCEPT ![c] = "coalesce"]
    /\ UNCHANGED <<free, block_count, free_pages, bootVars, target, mark, pcd, skipped>>

CanCoalesce(b) == b.order < MAX_ORDER /\ Buddy(b) \in free

\* The list is longer than the search follows it, so the buddy may be at a
\* place that the search does not reach.
OutOfReach(b) == Cardinality({d \in free : d.order = b.order}) > MAX_SCAN

\* "Make sure we have the lower address"
Lower_first(a, b) == a
Lower(a, b) == IF a > b THEN b ELSE a

\* Mutant: the loop finds the buddy and does not advance.
coalesce_block_stuck(c) ==
    pc[c] = "coalesce" /\ CanCoalesce(cur[c]) /\ UNCHANGED vars

(* One iteration of coalesce_block: find the free buddy and absorb it.     *)
coalesce_block(c) ==
    /\ pc[c] = "coalesce" /\ CanCoalesce(cur[c])
    /\ LET d == Buddy(cur[c]) IN
       /\ free' = free \ {d}
       /\ skipped' = Unskipped(d)
       /\ cur' = [cur EXCEPT ![c] =
              [base |-> Lower(@.base, d.base),
               order |-> @.order + 1]]
    /\ UNCHANGED <<allocated, block_count, free_pages, bootVars, lock, pc,
                   target, mark, pcd>>

(* coalesce_block ends, because there is no free buddy or because the       *)
(* search gives up before it: the block goes on its free list, the lock is  *)
(* freed.                                                                   *)
FreeDone(c) ==
    /\ pc[c] = "coalesce"
    /\ CanCoalesce(cur[c]) => OutOfReach(cur[c])
    /\ skipped' = IF CanCoalesce(cur[c]) THEN skipped \cup {cur[c]} ELSE skipped
    /\ free' = free \cup {cur[c]}
    /\ free_pages' = free_pages + Pages(cur[c].order)
    /\ lock' = "none"
    /\ pc' = [pc EXCEPT ![c] = "idle"]
    /\ cur' = [cur EXCEPT ![c] = NoBlock]
    /\ UNCHANGED <<allocated, block_count, bootVars, target, mark, pcd>>

----------------------------------------------------------------------------
Operation(c) ==
    \/ split_block(c) \/ AllocDone(c) \/ MarkPage(c) \/ AllocReturn(c)
    \/ coalesce_block(c) \/ FreeDone(c)

Next ==
    \/ AddRegion \/ AddBlock \/ ReserveRegion \/ BootDone
    \/ \E c \in Cpu :
          \/ \E o \in Orders : pmm_alloc(c, o) \/ OutOfMemory(c, o)
          \/ \E b \in allocated : pmm_free(c, b)
          \/ Operation(c)
    \/ \E b \in allocated : \E p \in Extent(b) : pcd_set_type(b, p)

Spec == Init /\ [][Next]_vars

\* A CPU that is inside a PMM operation keeps executing it.
FairSpec == Spec /\ \A c \in Cpu : WF_vars(Operation(c))

----------------------------------------------------------------------------
InHand == {cur[c] : c \in {d \in Cpu : pc[d] \in {"split", "coalesce"}}}
Blocks == free \cup allocated \cup InHand

TypeOK ==
    /\ free \subseteq Block /\ allocated \subseteq Block
    /\ block_count \in 0..MAX_BLOCK_DESC
    /\ free_pages \in Int /\ total_pages \in Nat
    /\ addr \in Nat /\ end \in Nat
    /\ lock \in Cpu \cup {"none"}
    /\ pc \in [Cpu -> {"boot", "idle", "split", "pcd", "coalesce"}]
    /\ cur \in [Cpu -> Block]
    /\ target \in [Cpu -> Orders] /\ mark \in [Cpu -> Nat]
    /\ pcd \in [AllPages -> PcdType]
    /\ skipped \subseteq Block

(***************************************************************************)
(* The buddy system never hands out a page twice: the free blocks, the      *)
(* allocated blocks and the block an operation has in hand are aligned to   *)
(* their size and share no page, through every split_block and             *)
(* coalesce_block, and no block is both free and allocated.                 *)
(***************************************************************************)
BlocksDisjoint ==
    /\ free \cap allocated = {} /\ InHand \cap (free \cup allocated) = {}
    /\ \A b \in Blocks : Aligned(b.base, b.order)
    /\ \A b, d \in Blocks : b # d => Extent(b) \cap Extent(d) = {}

(***************************************************************************)
(* No page is lost or invented: as long as a descriptor is left, the blocks *)
(* are exactly the pages that were added and not reserved.                  *)
(***************************************************************************)
PagesConserved ==
    /\ Extents(Blocks) \subseteq managed
    /\ (block_count < MAX_BLOCK_DESC /\ addr >= end) => managed \subseteq Extents(Blocks)

(***************************************************************************)
(* coalesce_block merges as far as it looks: outside an operation, of two   *)
(* buddies that are both free one was put on its list by a search that gave *)
(* up after MAX_SCAN entries (pmm.c:142-150).  So a list that never grows   *)
(* longer than that holds no buddies.  (For a memory map of one region and  *)
(* no reservation: pmm_reserve_region puts single pages back without        *)
(* merging them.)                                                           *)
(***************************************************************************)
FullyCoalesced ==
    lock = "none" =>
        \A b, d \in free \ skipped :
            b.order = d.order /\ b.order < MAX_ORDER /\ b # d =>
                b.base \div Pages(b.order + 1) # d.base \div Pages(d.order + 1)

(***************************************************************************)
(* pmm_alloc marks the pages after the unlock (pmm.c:404-412), one by one,  *)
(* while other CPUs allocate, mark, free and give their own pages types.    *)
(* When it returns a block, all its pages are NK_NORMAL; and while a block  *)
(* stays with its owner, no other CPU's loop takes away the type that the   *)
(* owner has given to one of its pages.                                     *)
(***************************************************************************)
FreshPagesPrivate ==
    [][/\ \A b \in Returned' \ Returned : \A p \in Extent(b) : pcd'[p] = "NK_NORMAL"
       /\ \A b \in Returned' \cap Returned : \A p \in Extent(b) :
             pcd[p] = "other" => pcd'[p] = "other"]_vars

(***************************************************************************)
(* Every pmm_alloc and pmm_free returns: the loops of split_block and       *)
(* coalesce_block end, and the lock is given back.                          *)
(***************************************************************************)
OperationsReturn ==
    \A c \in Cpu : pc[c] \in {"split", "coalesce", "pcd"} ~> pc[c] = "idle"

(***************************************************************************)
(* pmm_init accounts exactly: until the first allocation, free_pages is the *)
(* number of pages on the free lists.                                       *)
(***************************************************************************)
BootAccounting ==
    (\E c \in Cpu : pc[c] = "boot") => free_pages = Cardinality(Extents(free))

(***************************************************************************)
(* "Returns: Number of currently free pages" (kernel/pmm.c:454): between    *)
(* operations, pmm_get_free_pages agrees with the free lists.               *)
(***************************************************************************)
FreePagesExact ==
    lock = "none" => free_pages = Cardinality(Extents(free))
============================================================================
