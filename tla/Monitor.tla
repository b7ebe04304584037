------------------------------- MODULE Monitor -------------------------------
(***************************************************************************)
(* The nested-kernel monitor (kernel/monitor/monitor.c), the page control   *)
(* data it keeps (kernel/pcd.c) and the gate in front of it                 *)
(* (arch/x86_64/monitor/monitor_call.S): boot builds the tables that the    *)
(* outer kernel runs on, and afterwards each CPU reaches the monitor with   *)
(* CR0.WP cleared, on the monitor's stack.                                  *)
(*                                                                         *)
(* Memory is a record `mem': the pages that the PMM manages and those that  *)
(* are free, the type of each page, the table behind each entry of the      *)
(* shared page tables, the page, with its writable bit, behind each         *)
(* address, the pages writable through the table of the first 2 MB, and the *)
(* pages that callers hold.  Page p is to be seen at address p of the       *)
(* read-only view.  Callers ask for anything: to free, retype or map any    *)
(* page, a table too, at any address.  mem.loose remembers the pages that a *)
(* caller has freed or retyped without holding them or while they were      *)
(* mapped writable, or has mapped while they were free.                     *)
(*                                                                         *)
(* Where the code writes to memory through a table that is none, or may     *)
(* have overwritten one, `wild' is set: from then on nothing is known of    *)
(* memory, and only the gate is followed.                                   *)
(***************************************************************************)
EXTENDS Integers, FiniteSets, FiniteSetsExt

CONSTANTS
    Cpu, Bsp,
    Page,           \* pages of the machine, 0..n-1
    Rams,           \* the sets of free pages that boot may start with
    TotalPages,     \* pmm_get_total_pages
    Low, Low1M,     \* pages of the first 2 MB, and of the first 1 MB
    BootTables,     \* pages of the tables that boot.S built
    OkStacks,       \* pages of ok_cpu_stacks
    Apic,           \* the page of the APIC's registers
    StackSpill,     \* index of the boot stack's pages in the 4 KB table, div 512
    MapAddr,        \* addresses that callers map, view addresses too
    Asked,          \* pages that callers name
    MaxLoose,       \* bound on how many of them become loose
    Fan             \* entries per table (512 in the code)

None == -1
LowVirt == -1       \* an address of the first 2 MB, which has a 4 KB table
BigVirt == -2       \* an address behind a 2 MB entry of boot.S
View == Page        \* read-only view: page p at NESTED_KERNEL_RO_BASE + p
Addr == View \cup MapAddr
\* "NK_IO" stands for the values above it too, which the code does not refuse.
PcdType == {"OK_NORMAL", "NK_NORMAL", "NK_PGTABLE", "NK_IO"}
Nk == {"NK_NORMAL", "NK_PGTABLE"}
\* What is not the monitor's when the view is built.
Foreign == OkStacks \cup Apic

ASSUME MonitorAssumption ==
    /\ Bsp \in Cpu /\ Fan \in Nat \ {0}
    /\ Page \subseteq Nat /\ \E last \in Page : \A p \in Page : p <= last
    /\ TotalPages \in Nat /\ 0..(TotalPages - 1) \subseteq Page
    /\ MapAddr \subseteq Nat /\ Asked \subseteq Page /\ StackSpill \subseteq Nat /\ MaxLoose \in Nat
    /\ Rams \subseteq SUBSET (Page \ (BootTables \cup Foreign))
    /\ Low1M \subseteq Low /\ Low \cup BootTables \cup Foreign \subseteq Page

VARIABLES
    mem,
    tracked,        \* pcd_state.max_pages
    from,           \* the end of memory that the free lists give pages from
    phase,          \* how far kernel_main has come
    views,          \* the top tables of the monitor's and the shared view
    kept,           \* the PCD array and the two 4 KB tables for the first 2 MB
    i, missed,      \* loop of monitor_create_ro_mappings; pages it failed for
    wild,           \* nothing is known of memory any more
    wp, rsp,        \* per CPU: CR0.WP, and whose stack it is on
    gs_cr0, gs_rsp, \* per CPU: saved_cr0, saved_rsp of per_cpu_data
    pc, call, gate, lv  \* per CPU: the call, whether through the gate, its walk

vars == <<mem, tracked, from, phase, views, kept, i, missed, wild,
          wp, rsp, gs_cr0, gs_rsp, pc, call, gate, lv>>
bootVars == <<tracked, from, phase, views, kept, i, missed>>
cpuVars == <<wp, rsp, gs_cr0, gs_rsp, pc, call, gate, lv>>

At(a, k) == <<k, a \div (Fan ^ k)>>
Entry == {At(a, k) : a \in Addr, k \in 1..3}
NoCall == [op |-> "none"]

Memory(ram) ==
    [ram |-> ram, free |-> ram, pcd |-> [p \in Page |-> "NK_NORMAL"],
     node |-> [e \in Entry |-> None], leaf |-> [a \in Addr |-> None],
     rw |-> {}, low |-> {}, held |-> {}, loose |-> {}, ok |-> TRUE]

Init ==
    /\ \E ram \in Rams : mem = Memory(ram)
    /\ tracked = 0 /\ from \in {"low", "high"} /\ phase = "pcd"
    /\ views = {} /\ kept = {}
    /\ i = 0 /\ missed = {} /\ wild = FALSE
    /\ wp = [c \in Cpu |-> FALSE] /\ rsp = [c \in Cpu |-> "own"]
    /\ gs_cr0 = [c \in Cpu |-> FALSE] /\ gs_rsp = [c \in Cpu |-> "none"]
    /\ pc = [c \in Cpu |-> "off"] /\ call = [c \in Cpu |-> NoCall]
    /\ gate = [c \in Cpu |-> FALSE] /\ lv = [c \in Cpu |-> 0]

----------------------------------------------------------------------------
Managed(p) == p < tracked
\* _pcd_set_type_internal, for pages ps: those that are not managed are left.
SetType(s, ps, t) ==
    [s EXCEPT !.pcd = [p \in Page |-> IF p \in ps /\ Managed(p) THEN t ELSE @[p]]]
pcd_set_type(s, p, t) == SetType(s, {p}, t)
pcd_get_type(p) == IF Managed(p) THEN mem.pcd[p] ELSE "NK_NORMAL"

\* pmm_alloc(0) and its mark in the page control data, for a page that is there.
NextPage(s) == IF from = "low" THEN Min(s.free) ELSE Max(s.free)
pmm_alloc(s) ==
    pcd_set_type([s EXCEPT !.free = @ \ {NextPage(s)}], NextPage(s), "NK_NORMAL")

\* Mutant: the new table is not typed.
NewTable_untyped(s, e) == [pmm_alloc(s) EXCEPT !.node[e] = NextPage(s)]
\* Allocate a table, type it and link it at an entry.
NewTable(s, e) ==
    [SetType(pmm_alloc(s), {NextPage(s)}, "NK_PGTABLE") EXCEPT !.node[e] = NextPage(s)]

\* create_ro_mapping: walk, creating what is missing and refusing a table that
\* is below 1 MB when it comes across it again; what has been created stays
\* when the walk fails.
RoDescend(s, a, k) ==
    LET e == At(a, k)
    IN  IF s.ok /\ s.node[e] = None /\ s.free # {} THEN NewTable(s, e)
        ELSE [s EXCEPT !.ok = @ /\ s.node[e] \notin Low1M \cup {None}]
create_ro_mapping(p) ==
    LET s == RoDescend(RoDescend(RoDescend(mem, p, 3), p, 2), p, 1)
    IN  IF s.ok THEN [s EXCEPT !.leaf[p] = p] ELSE s

\* A write to memory that leaves s, unless it is one that is not followed.
Write(s, W) == \E w \in W : wild' = w /\ mem' = IF w THEN Memory({}) ELSE s

----------------------------------------------------------------------------
\* pcd_init: a page for the array; every page is the monitor's but the stacks.
pcd_init ==
    /\ phase = "pcd"
    /\ IF mem.free = {} THEN UNCHANGED <<mem, tracked, kept>>
       ELSE /\ tracked' = TotalPages /\ kept' = {NextPage(mem)}
            /\ mem' = [mem EXCEPT !.free = @ \ {NextPage(mem)},
                                  !.pcd = [p \in Page |-> IF p \in OkStacks /\ p < TotalPages
                                                          THEN "OK_NORMAL" ELSE "NK_NORMAL"]]
    /\ phase' = "monitor"
    /\ UNCHANGED <<from, views, i, missed, wild, cpuVars>>

\* A call of pmm_alloc whose result is checked together with others.
Take(s) == IF s.free = {} THEN s ELSE pmm_alloc(s)
AllocViews(at, next) ==
    /\ phase = at
    /\ mem' = Take(Take(Take(mem)))
    /\ views' = views \cup (mem.free \ mem'.free)
    /\ phase' = IF Cardinality(mem.free) < 3 THEN "failed" ELSE next
    /\ UNCHANGED <<tracked, from, kept, i, missed, wild, cpuVars>>

\* monitor_init: pml4, pdpt and pd of both views, then the 4 KB tables.
monitor_init == AllocViews("monitor", "unpriv") \/ AllocViews("unpriv", "low")
AllocLow ==
    /\ phase = "low"
    /\ mem' = Take(Take(mem))
    /\ kept' = kept \cup (mem.free \ mem'.free)
    /\ phase' = IF Cardinality(mem.free) < 2 THEN "failed" ELSE "build"
    /\ UNCHANGED <<tracked, from, views, i, missed, wild, cpuVars>>

\* monitor_protect_all_ptps, after the tables have been typed.
monitor_protect_all_ptps(s) == {p \in Low : Managed(p) /\ s.pcd[p] = "NK_PGTABLE"}

\* Fill the low table with the known tables read-only, type the tables, and
\* take the writable bit from whatever is typed as a table.
Low2MB(s) ==
    [SetType(SetType(s, BootTables \cup views, "NK_PGTABLE"), Apic, "NK_IO") EXCEPT
        !.low = (Low \ (BootTables \cup views))
                \ monitor_protect_all_ptps(SetType(s, BootTables \cup views, "NK_PGTABLE"))]

\* The loop that makes the boot stack writable.  The stack lies above the
\* first 2 MB (linker.ld:27), so its index leads out of the 4 KB table into
\* the pages behind it, where a word that looks read-only is overwritten.
unpriv_pt_0_2mb == IF from = "low" THEN Max(kept) ELSE Min(kept)
StackFix == {unpriv_pt_0_2mb + n : n \in StackSpill} \cap Page

Build ==
    /\ phase = "build"
    /\ \E hit \in SUBSET StackFix : Write(Low2MB(mem), {~(hit \subseteq mem.free)})
    /\ phase' = "view"
    /\ UNCHANGED <<tracked, from, views, kept, i, missed, cpuVars>>

\* Mutant: only the tables are shown.
Shown_tables(p) == pcd_get_type(p) = "NK_PGTABLE"
Shown(p) == pcd_get_type(p) \in Nk

\* One page of monitor_create_ro_mappings.
monitor_create_ro_mappings ==
    /\ phase = "view" /\ i < tracked
    /\ IF Shown(i)
       THEN /\ mem' = [create_ro_mapping(i) EXCEPT !.ok = TRUE]
            /\ missed' = IF create_ro_mapping(i).ok THEN missed ELSE missed \cup {i}
       ELSE UNCHANGED <<mem, missed>>
    /\ i' = i + 1
    /\ UNCHANGED <<tracked, from, phase, views, kept, wild, cpuVars>>

ViewDone ==
    /\ phase = "view" /\ (~wild => i >= tracked)
    /\ phase' = "run"
    /\ UNCHANGED <<mem, tracked, from, views, kept, i, missed, wild, cpuVars>>

\* kernel_main and ap_start: turn on WP and load the shared tables, if there
\* are any; otherwise the kernel goes on without protection.
Enforce(c) ==
    /\ phase \in {"run", "failed"} /\ pc[c] = "off" /\ (c # Bsp => pc[Bsp] # "off")
    /\ wp' = [wp EXCEPT ![c] = phase = "run"]
    /\ pc' = [pc EXCEPT ![c] = "idle"]
    /\ UNCHANGED <<mem, wild, bootVars, rsp, gs_cr0, gs_rsp, call, gate, lv>>

----------------------------------------------------------------------------
Privileged(c) == ~wp[c]
\* The pages of the monitor's own structures.
Structures == ({mem.node[e] : e \in Entry} \ {None}) \cup views \cup kept \cup BootTables

\* What callers ask for: the arguments are not checked.
Requests ==
    [op : {"ALLOC_PHYS", "ALLOC_PGTABLE", "UNMAP_PAGE", "GET_PAGE_TYPE"}]
    \cup [op : {"FREE_PHYS"}, page : Asked]
    \cup [op : {"SET_PAGE_TYPE"}, page : Asked, type : PcdType]
    \cup [op : {"MAP_PAGE"}, page : Asked, virt : MapAddr \cup {LowVirt, BigVirt}, writable : BOOLEAN]

\* Mutant: the gate is taken even from inside the monitor.
Direct_never(c) == phase # "run"
\* monitor_call: no gate before the monitor is there, nor from inside it.
Direct(c) == phase # "run" \/ Privileged(c)

Enter(c) ==
    IF Direct(c) THEN gate' = [gate EXCEPT ![c] = FALSE] /\ UNCHANGED <<wp, rsp, gs_cr0, gs_rsp>>
    ELSE /\ gate' = [gate EXCEPT ![c] = TRUE]
         /\ gs_rsp' = [gs_rsp EXCEPT ![c] = rsp[c]] /\ gs_cr0' = [gs_cr0 EXCEPT ![c] = wp[c]]
         /\ wp' = [wp EXCEPT ![c] = FALSE] /\ rsp' = [rsp EXCEPT ![c] = "monitor"]

monitor_call(c) ==
    /\ pc[c] = "idle"
    /\ Enter(c)
    /\ pc' = [pc EXCEPT ![c] = "handler"]
    /\ UNCHANGED <<mem, wild, bootVars, call, lv>>

Goto(c, l) == pc' = [pc EXCEPT ![c] = l]

\* Mutant: tables may be mapped writable.
Refused_private(p) == pcd_get_type(p) = "NK_NORMAL"
Refused(p) == pcd_get_type(p) \in Nk

\* monitor_call_handler for the calls that are done at once.  pmm_free leaves a
\* page alone that is not allocated.
Handle(r) ==
    LET n == NextPage(mem)
    IN  CASE r.op = "ALLOC_PHYS" /\ mem.free # {} -> [pmm_alloc(mem) EXCEPT !.held = @ \cup {n}]
          [] r.op = "ALLOC_PGTABLE" /\ mem.free # {} ->
               [SetType(pmm_alloc(mem), {n}, "NK_PGTABLE") EXCEPT !.held = @ \cup {n}]
          [] r.op = "FREE_PHYS" /\ r.page \in mem.ram \ mem.free ->
               [mem EXCEPT !.free = @ \cup {r.page}, !.held = @ \ {r.page}]
          [] r.op = "SET_PAGE_TYPE" -> SetType(mem, {r.page}, r.type)
          [] OTHER -> mem

\* A caller frees or retypes a page of its own that is not mapped writable,
\* and maps a page that is in use.
Proper(r) ==
    /\ r.op \in {"FREE_PHYS", "SET_PAGE_TYPE"} => r.page \in mem.held \ {mem.leaf[a] : a \in mem.rw}
    /\ r.op = "MAP_PAGE" => r.page \notin mem.free
Loosened(r) == IF Proper(r) THEN mem.loose ELSE mem.loose \cup {r.page}

\* A page that is given out while it is part of a structure may be overwritten.
GivenAway(r) ==
    /\ r.op \in {"ALLOC_PHYS", "ALLOC_PGTABLE"} /\ mem.free # {}
    /\ NextPage(mem) \in Structures

\* The request of the caller, which reaches the handler in registers.
monitor_call_handler(c) ==
    /\ pc[c] = "handler"
    /\ IF Privileged(c)
       THEN \E r \in Requests :
              /\ Cardinality(Loosened(r)) <= MaxLoose
              /\ Write([Handle(r) EXCEPT !.loose = Loosened(r)],
                       IF GivenAway(r) THEN BOOLEAN ELSE {FALSE})
              /\ IF r.op = "MAP_PAGE" /\ ~(Refused(r.page) /\ r.writable)
                 THEN /\ Goto(c, "walk")
                      /\ call' = [call EXCEPT ![c] = r] /\ lv' = [lv EXCEPT ![c] = 3]
                 ELSE Goto(c, "leave") /\ UNCHANGED <<call, lv>>
       ELSE UNCHANGED <<mem, wild, call, lv>> /\ Goto(c, "leave")
    /\ UNCHANGED <<bootVars, wp, rsp, gs_cr0, gs_rsp, gate>>

\* A call of the monitor from inside it: taken through the gate it would use
\* up the saved registers.
Nested(c) ==
    IF Direct(c) THEN UNCHANGED <<gs_rsp, gs_cr0>>
    ELSE gs_rsp' = [gs_rsp EXCEPT ![c] = rsp[c]] /\ gs_cr0' = [gs_cr0 EXCEPT ![c] = wp[c]]

\* Where the walk ends: at the page table, or where there are no tables to make.
Walked(c) == lv[c] = 0 \/ call[c].virt \notin Addr \/ phase # "run"

\* get_or_create_table at one level.  The new table is not cleared: what its
\* page held before may be taken for entries.
get_or_create_table(c) ==
    /\ pc[c] = "walk" /\ ~Walked(c)
    /\ LET e == At(call[c].virt, lv[c])
           missing == mem.node[e] = None
       IN  /\ IF missing /\ mem.free # {}
              THEN Write(NewTable(mem, e), IF NextPage(mem) \in Structures THEN {TRUE} ELSE BOOLEAN)
              ELSE UNCHANGED <<mem, wild>>
           /\ IF missing /\ mem.free = {}
              THEN Goto(c, "leave") /\ UNCHANGED lv
              ELSE lv' = [lv EXCEPT ![c] = @ - 1] /\ UNCHANGED pc
           /\ IF missing THEN Nested(c) ELSE UNCHANGED <<gs_rsp, gs_cr0>>
    /\ UNCHANGED <<bootVars, wp, rsp, call, gate>>

\* The end of monitor_map_page.  In the first 2 MB the entry is one of the 4 KB
\* table, of which only what it makes writable is followed.  A 2 MB entry is
\* taken for one that leads to a table, and a monitor that failed to start
\* has none: the write goes anywhere.
Mapped(s, r) ==
    IF r.virt = LowVirt THEN [s EXCEPT !.low = IF r.writable THEN @ \cup {r.page} ELSE @]
    ELSE [s EXCEPT !.leaf[r.virt] = r.page,
                   !.rw = IF r.writable THEN @ \cup {r.virt} ELSE @ \ {r.virt}]
SetPte(c) ==
    /\ pc[c] = "walk" /\ Walked(c)
    /\ LET r == call[c]
       IN  Write(Mapped(mem, r),
                 IF phase # "run" \/ r.virt = BigVirt THEN {TRUE}
                 ELSE IF r.writable /\ r.page \in Structures THEN BOOLEAN ELSE {FALSE})
    /\ Goto(c, "leave")
    /\ call' = [call EXCEPT ![c] = NoCall] /\ lv' = [lv EXCEPT ![c] = 0]
    /\ UNCHANGED <<bootVars, wp, rsp, gs_cr0, gs_rsp, gate>>

\* The handler in memory that is not known: it walks tables, making new ones or
\* not, or answers.
Astray(c) ==
    /\ pc[c] \in {"handler", "walk"}
    /\ \E l \in (IF Privileged(c) THEN {"walk", "leave"} ELSE {"leave"}) : Goto(c, l)
    /\ IF pc[c] = "walk" THEN Nested(c) ELSE UNCHANGED <<gs_rsp, gs_cr0>>
    /\ UNCHANGED <<mem, wild, bootVars, wp, rsp, call, gate, lv>>

\* Mutant: WP stays off.
Restored_off(c) == FALSE
Restored(c) == gs_cr0[c]

\* Back through the gate, or a plain return.
Leave(c) ==
    /\ pc[c] = "leave"
    /\ IF gate[c] THEN wp' = [wp EXCEPT ![c] = Restored(c)] /\ rsp' = [rsp EXCEPT ![c] = gs_rsp[c]]
                  ELSE UNCHANGED <<wp, rsp>>
    /\ Goto(c, "idle")
    /\ call' = [call EXCEPT ![c] = NoCall] /\ lv' = [lv EXCEPT ![c] = 0]
    /\ UNCHANGED <<mem, wild, bootVars, gs_cr0, gs_rsp, gate>>

----------------------------------------------------------------------------
Boot == pcd_init \/ monitor_init \/ AllocLow \/ Build \/ monitor_create_ro_mappings
Handler(c) == monitor_call_handler(c) \/ get_or_create_table(c) \/ SetPte(c)

Next ==
    \/ ~wild /\ Boot
    \/ ViewDone
    \/ \E c \in Cpu :
          \/ Enforce(c) \/ monitor_call(c) \/ Leave(c)
          \/ ~wild /\ Handler(c)
          \/ wild /\ Astray(c)

Spec == Init /\ [][Next]_vars

----------------------------------------------------------------------------
\* "Creates read-only mappings for all NK_NORMAL and NK_PGTABLE pages so the
\* outer kernel can inspect nested kernel state" (monitor.c:483): while memory
\* is known, each page of the monitor is visible read-only at its place once
\* the outer kernel runs, tables allocated while the view was built and
\* afterwards included.  Exceptions are the pages for which memory ran out, the
\* places that callers map themselves, and the pages that were not the
\* monitor's when the view was built, whatever callers make of them later.
ViewComplete ==
    phase = "run" /\ ~wild => \A p \in Page \ (missed \cup MapAddr \cup Foreign) :
        Managed(p) /\ mem.pcd[p] \in Nk => mem.leaf[p] = p /\ p \notin mem.rw

\* The pages that the shared view uses as tables, above the 4 KB table of the
\* first 2 MB, are in use, each for one table, and typed as tables; those of
\* the views are not writable through the 4 KB table (monitor.c:310-339,
\* 675-691, 831-842, 913-927).  The code lets callers free or retype a table
\* (monitor.c:794-808): that costs the protection of that page, which is loose
\* then, and of no other.  It holds while memory is known, that is until a
\* table that is not cleared turns out to hold old entries (monitor.c:920),
\* or a table's page is given away or written through a 2 MB entry.
TablesTyped ==
    ~wild =>
      /\ \A e \in Entry : mem.node[e] \notin mem.loose \cup {None} =>
            /\ mem.node[e] \notin mem.free \cup mem.held \cup views \cup kept
            /\ Managed(mem.node[e]) => mem.pcd[mem.node[e]] = "NK_PGTABLE"
            /\ \A d \in Entry : d # e => mem.node[d] # mem.node[e]
      /\ phase \in {"view", "run"} =>
            \A p \in views \ mem.loose : Managed(p) =>
                mem.pcd[p] = "NK_PGTABLE" /\ p \notin mem.free \cup mem.low

\* "For NK_NORMAL and NK_PGTABLE pages, only read-only mappings are allowed"
\* (monitor.c:942).  The type is checked when a page is mapped, and the walk
\* that follows makes tables; nothing is checked when a page is freed or
\* retyped (monitor.c:794-808).  While memory is known, a page that is mapped
\* writable and is the monitor's or a table is a loose one: its caller freed
\* or retyped it without holding it or while it was mapped, or mapped it while
\* it was free.  Allocations, walks and requests about other pages never make
\* it so.
WritableIsOuter ==
    ~wild => \A a \in mem.rw : mem.leaf[a] \notin mem.loose => pcd_get_type(mem.leaf[a]) \notin Nk

\* The gate: between calls a CPU is on its own stack with WP on, and inside the
\* monitor WP is off, through the calls that the monitor makes to itself
\* (monitor_call.S:41-111, monitor.c:862-876).
GateBalanced ==
    phase = "run" => \A c \in Cpu :
        /\ pc[c] = "idle" => wp[c] /\ rsp[c] = "own"
        /\ pc[c] \in {"handler", "walk"} => ~wp[c] /\ rsp[c] = "monitor"

\* "This design ensures SMP-safe operation with no race conditions between
\* CPUs" (docs/monitor_trampoline.md:88): no two CPUs are on the monitor's stack.
StackExclusive ==
    \A c, d \in Cpu : rsp[c] = "monitor" /\ rsp[d] = "monitor" => c = d
=============================================================================
