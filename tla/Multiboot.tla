----------------------------- MODULE Multiboot -----------------------------
(***************************************************************************)
(* The boot information parser, arch/x86_64/multiboot2.c, composed with    *)
(* the physical memory manager: pmm_init calls multiboot2_parse, which     *)
(* walks the tags the boot loader left in memory and hands every available *)
(* range of the memory map to pmm_add_region, and then reserves the boot   *)
(* information itself before the other reservations.  A tag is found by    *)
(* its byte offset.                                                        *)
(***************************************************************************)
EXTENDS Pmm, Cmdline

CONSTANTS
    Infos,          \* what a boot loader hands over
    WORD,           \* addresses and lengths wrap here (2^64 in the kernel)
    DefaultRegion,  \* the map assumed when the loader gives none
    embedded_cmdline

MaxTagSize == 4096
HeaderSize == 8       \* sizeof(multiboot_info_t)
MmapHeaderSize == 16  \* sizeof(multiboot_tag_mmap_t)

Entry == [base : Nat, length : Nat, available : BOOLEAN]
TagType == {"END", "CMDLINE", "MMAP", "BASIC_MEMINFO", "OTHER"}
Tag == [type : TagType, size : Nat, entry_size : Nat, entries : Seq(Entry),
        text : Seq(STRING)]

ASSUME MultibootAssumption ==
    /\ WORD \in Nat \ {0} /\ DefaultRegion \in Region
    /\ << >> \in MemMaps
    /\ \A m \in Infos :
          /\ m.addr \in Nat /\ m.total_size \in Nat
          /\ DOMAIN m.tag \subseteq Nat /\ \A o \in DOMAIN m.tag : m.tag[o] \in Tag

VARIABLES
    mbi,            \* the boot information
    off,            \* byte offset of the tag in hand
    k,              \* index of the memory map entry in hand
    found_memory,
    kernel_cmdline,
    stored_mbi_size,
    mb              \* where multiboot2_parse is

mbVars == <<mbi, off, k, found_memory, kernel_cmdline, stored_mbi_size, mb>>
bootAll == <<vars, mbVars>>

MBInit ==
    /\ Init /\ regions = << >>
    /\ mbi \in Infos
    /\ off = 0 /\ k = 0
    /\ found_memory = FALSE /\ kernel_cmdline = << >> /\ stored_mbi_size = 0
    /\ mb = "start"

----------------------------------------------------------------------------
multiboot_get_info == [addr |-> mbi.addr, size |-> stored_mbi_size']

\* The first reservation of pmm_init.
MbiReservation ==
    LET m == multiboot_get_info IN
    IF m.addr # 0 /\ m.size # 0
    THEN <<[base |-> m.addr, size |-> PageUp(m.size) * PAGE_SIZE]>>
    ELSE << >>

(* use_default_cmdline: the fallbacks, and the return to pmm_init. *)
Finish(cmdline) ==
    /\ kernel_cmdline' = IF cmdline = << >> THEN parse_cmdline(embedded_cmdline) ELSE cmdline
    /\ regions' = IF found_memory THEN regions ELSE Append(regions, DefaultRegion)
    /\ reserves' = MbiReservation \o reserves
    /\ mb' = "done"
    /\ UNCHANGED <<off, k, found_memory>>

(* multiboot2_parse up to the tag loop. *)
multiboot2_parse ==
    /\ mb = "start"
    /\ stored_mbi_size' = IF mbi.addr = 0 THEN 0 ELSE mbi.total_size
    /\ IF mbi.addr = 0 \/ mbi.total_size < HeaderSize
       THEN Finish(kernel_cmdline)
       ELSE /\ off' = HeaderSize /\ mb' = "tags"
            /\ UNCHANGED <<k, found_memory, kernel_cmdline, regions, reserves>>

TagInHand == mbi.tag[off]

\* (size + 7) & ~7
Align8(n) == ((n + 7) \div 8) * 8
NextOffset == off + Align8(TagInHand.size)

(* The end of the loop body: the next tag, unless it lies beyond the end. *)
Advance(cmdline) ==
    IF NextOffset >= mbi.total_size
    THEN Finish(cmdline)
    ELSE /\ off' = NextOffset /\ mb' = "tags" /\ kernel_cmdline' = cmdline
         /\ UNCHANGED <<k, found_memory, regions, reserves>>

\* The loop ends here: the end tag, or a size that cannot be right.
StopsAt(t) == t.type = "END" \/ t.size < 8 \/ t.size > MaxTagSize

(* One iteration of the tag loop, other than for the memory map. *)
ParseTag ==
    /\ mb = "tags" /\ (TagInHand.type # "MMAP" \/ StopsAt(TagInHand))
    /\ UNCHANGED stored_mbi_size
    /\ IF StopsAt(TagInHand)
       THEN Finish(kernel_cmdline)
       ELSE Advance(IF TagInHand.type = "CMDLINE" THEN parse_cmdline(TagInHand.text)
                                                  ELSE kernel_cmdline)

(* The memory map tag: parse_memory_map starts. *)
EnterMap ==
    /\ mb = "tags" /\ TagInHand.type = "MMAP" /\ ~StopsAt(TagInHand)
    /\ found_memory' = TRUE /\ k' = 1 /\ mb' = "entries"
    /\ UNCHANGED <<off, kernel_cmdline, stored_mbi_size, regions, reserves>>

\* Entry n begins before the end of the tag.
InTag(t, n) == MmapHeaderSize + (n - 1) * t.entry_size < t.size

AlignedBase(e) == PageUp(e.base) * PAGE_SIZE

\* What is left of the length from the aligned base, in whole pages.
\* Mutant: the bytes below the aligned base stay in the length.
AlignedLength_gap(e) == PageDown(e.length) * PAGE_SIZE
AlignedLength(e) ==
    PageDown((e.length - (AlignedBase(e) - e.base)) % WORD) * PAGE_SIZE

(* One iteration of parse_memory_map; pmm_add_region runs before the next. *)
ParseEntry ==
    /\ mb = "entries" /\ InTag(TagInHand, k)
    /\ addr >= end /\ regions = << >>
    /\ LET e == TagInHand.entries[k] IN
       regions' = IF e.available /\ AlignedLength(e) >= PAGE_SIZE
                  THEN <<[base |-> AlignedBase(e), size |-> AlignedLength(e)]>>
                  ELSE << >>
    /\ k' = k + 1
    /\ UNCHANGED <<off, found_memory, kernel_cmdline, stored_mbi_size, mb, reserves>>

(* parse_memory_map returns to the tag loop. *)
LeaveMap ==
    /\ mb = "entries" /\ ~InTag(TagInHand, k)
    /\ addr >= end /\ regions = << >>
    /\ UNCHANGED stored_mbi_size
    /\ Advance(kernel_cmdline)

\* What the parser leaves alone of the memory manager.
pmmRest == <<free, allocated, block_count, free_pages, total_pages, addr, end,
             lock, pc, cur, target, mark, pcd, managed, skipped>>

----------------------------------------------------------------------------
\* The tags before the end tag, the end of the information, and the first
\* tag whose size cannot be right.
Reachable ==
    {o \in DOMAIN mbi.tag :
        /\ mbi.addr # 0 /\ o < mbi.total_size
        /\ \A q \in DOMAIN mbi.tag : q <= o => ~StopsAt(mbi.tag[q])}

MapEntries ==
    UNION {{mbi.tag[o].entries[n] : n \in 1..Len(mbi.tag[o].entries)}
             : o \in {q \in Reachable : mbi.tag[q].type = "MMAP"}}

\* Pages that lie wholly in the bytes from b up to, not including, b + s.
WholePages(b, s) == {p \in PageDown(b)..PageDown(b + s) :
                        b <= p * PAGE_SIZE /\ (p + 1) * PAGE_SIZE <= b + s}

Available ==
    IF \E o \in Reachable : mbi.tag[o].type = "MMAP"
    THEN UNION {WholePages(e.base, e.length) : e \in {d \in MapEntries : d.available}}
    ELSE WholePages(DefaultRegion.base, DefaultRegion.size)

\* Every available range reaches the page boundary that its base is rounded
\* up to.
RangesReachBoundary ==
    \A e \in MapEntries : e.available => AlignedBase(e) <= e.base + e.length

(***************************************************************************)
(* The memory the kernel allocates from is the memory the boot loader       *)
(* offered: through the tag walk, the two roundings of parse_memory_map and *)
(* the ones of pmm_add_region, no page that is not wholly inside an         *)
(* available range is ever managed, and when parsing is over every such     *)
(* page has been counted; without a memory map it is the default region.    *)
(* Asked of maps without an available range that ends before the next page  *)
(* boundary, for which the subtraction of multiboot2.c:129 wraps.  On every *)
(* map free_pages agrees with the free lists through all of it.             *)
(***************************************************************************)
MapManaged ==
    /\ RangesReachBoundary =>
          /\ managed \subseteq Available
          /\ (mb = "done" /\ regions = << >>) => total_pages = Cardinality(Available)
    /\ BootAccounting
============================================================================
