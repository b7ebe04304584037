----------------------------- MODULE PageTable -----------------------------
(***************************************************************************)
(* The four-level page tables as kernel/kmap.c walks, grows and prunes     *)
(* them.  An address is a page number; the entry that its walk meets at    *)
(* level k (3 = PML4 ... 0 = PT) is the pair of k and the address shifted  *)
(* right, so two addresses share a table exactly when they share its       *)
(* entry.  Which page the physical memory manager gives makes no           *)
(* difference, so all of its pages are one value.  A state of the tables   *)
(* is a record:                                                            *)
(*   entry  what each entry points to: a table, a page, or nothing; or it  *)
(*          maps 2 MB itself                                               *)
(*   prot   the flags of the present PT entries                            *)
(*   free   how many pages the physical memory manager has to give         *)
(*   made   levels of the tables the walk in progress created              *)
(*   ok     whether the walk in progress has succeeded so far              *)
(***************************************************************************)
EXTENDS Integers, FiniteSets

CONSTANTS
    Addr,       \* page numbers
    Fan,        \* entries per table (512 in the code)
    Frames,     \* pages of the physical memory manager
    BootAddr    \* page numbers that boot.S has mapped, with entries of 2 MB

\* What an entry holds: nothing, a page of the physical memory manager, 2 MB
\* of memory, a table that kmap did not make, or the number of a page that is
\* not managed, such as device memory.
NoFrame == -1
Managed == 0
Large == -2
BootTable == -3

ASSUME PageTableAssumption ==
    Addr \subseteq Nat /\ Fan \in Nat \ {0} /\ Frames \in Nat /\ BootAddr \subseteq Addr

----------------------------------------------------------------------------
\* get_pt_index, with the indices above it: the entry for a at level k.
At(a, k) == <<k, a \div (Fan ^ k)>>
Entry == {At(a, k) : a \in Addr, k \in 0..3}
\* The entries of the table that the entry <<k, n>> points to.
Below(e) == {x \in Entry : x[1] = e[1] - 1 /\ x[2] \div Fan = e[2]}

\* The tables as kmap_init finds them.
Booted ==
    [entry |-> [e \in Entry |-> IF \E a \in BootAddr : e = At(a, 1) THEN Large
                                ELSE IF \E a \in BootAddr : e \in {At(a, 2), At(a, 3)} THEN BootTable
                                ELSE NoFrame],
     prot |-> [a \in Addr |-> "none"], free |-> Frames, made |-> {}, ok |-> TRUE]

Present(s, a, k) == s.entry[At(a, k)] # NoFrame
\* The page has an entry of its own, or is behind an entry of 2 MB.
Mapped(s, a) == \A k \in 0..3 : Present(s, a, k)
Big(s, a) == s.entry[At(a, 1)] = Large

pmm_alloc(s) == [s EXCEPT !.free = @ - 1]
\* Clear entries and pmm_free what they hold; pmm_free ignores pages that it
\* has not allocated.
Release(s, es) ==
    [s EXCEPT !.entry = [e \in Entry |-> IF e \in es THEN NoFrame ELSE @[e]],
              !.free = @ + Cardinality({e \in es : s.entry[e] = Managed})]

\* An allocation failed: clear and free the tables that this walk created.
Rollback(s, a) == Release([s EXCEPT !.ok = FALSE], {At(a, k) : k \in s.made})

\* Check or create the table below level k.
Descend(s, a, k) ==
    CASE ~s.ok \/ Present(s, a, k) -> s
      [] s.ok /\ ~Present(s, a, k) /\ s.free = 0 -> Rollback(s, a)
      [] OTHER -> [pmm_alloc(s) EXCEPT !.entry[At(a, k)] = Managed, !.made = @ \cup {k}]

\* Walk to a's PT entry, creating what is missing, and set it.
Walk(s, a) == Descend(Descend(Descend([s EXCEPT !.made = {}, !.ok = TRUE], a, 3), a, 2), a, 1)
SetPte(s, a, phys, flags) ==
    IF s.ok THEN [s EXCEPT !.entry[At(a, 0)] = phys, !.prot[a] = flags, !.made = {}]
            ELSE [s EXCEPT !.made = {}]

\* Mutant: the page is not given back when a table cannot be allocated.
kmap_alloc_page_lost(s, a, flags) ==
    IF s.free = 0 THEN [s EXCEPT !.ok = FALSE]
    ELSE SetPte(Walk(pmm_alloc(s), a), a, Managed, flags)
kmap_alloc_page(s, a, flags) ==
    IF s.free = 0 THEN [s EXCEPT !.ok = FALSE]
    ELSE LET t == SetPte(Walk(pmm_alloc(s), a), a, Managed, flags)
         IN  IF t.ok THEN t ELSE [t EXCEPT !.free = @ + 1]

kmap_map_pages_direct(s, a, phys, flags) == SetPte(Walk(s, a), a, phys, flags)

Vacant(s, e) == \A x \in Below(e) : s.entry[x] = NoFrame

Prune(s, a, k) == IF Vacant(s, At(a, k)) THEN Release(s, {At(a, k)}) ELSE s

\* Each table is looked at only when the one below it has just been freed;
\* otherwise it is not vacant and Prune leaves it alone.
kmap_free_page(s, a) ==
    IF ~Mapped(s, a) THEN s
    ELSE LET t == Release([s EXCEPT !.prot[a] = "none"], {At(a, 0)})
         IN  Prune(Prune(Prune(t, a, 1), a, 2), a, 3)

\* Mutant: the last page keeps its flags.
Reprotect_short(s, as, flags) ==
    [s EXCEPT !.prot = [a \in Addr |-> IF a \in as /\ a + 1 \in as /\ Mapped(s, a)
                                       THEN flags ELSE @[a]]]
\* kmap_modify_flags on the pages of a region that are present.
Reprotect(s, as, flags) ==
    [s EXCEPT !.prot = [a \in Addr |-> IF a \in as /\ Mapped(s, a) THEN flags ELSE @[a]]]

----------------------------------------------------------------------------
\* The pages of the physical memory manager are free or in an entry.
Conserved(s) == s.free + Cardinality({e \in Entry : s.entry[e] = Managed}) = Frames

\* A table is there exactly as long as there is something in it.
Lean(s) ==
    \A e \in Entry :
        e[1] > 0 /\ s.entry[e] # Large => (s.entry[e] # NoFrame <=> \E x \in Below(e) : s.entry[x] # NoFrame)
=============================================================================
