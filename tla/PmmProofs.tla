----------------------------- MODULE PmmProofs -----------------------------
(***************************************************************************)
(* The buddy allocator, for any number of CPUs and any memory map whose    *)
(* regions share no page.                                                  *)
(***************************************************************************)
EXTENDS Pmm, FiniteSetTheorems, WellFoundedInduction, TLAPS

----------------------------------------------------------------------------
(* Sizes and alignment of blocks.                                          *)

(* A size is a power of two.                                               *)
LEMMA PageSizes ==
    /\ Pages(0) = 1 /\ Pages(1) = 2 /\ Pages(2) = 4 /\ Pages(3) = 8 /\ Pages(4) = 16
    /\ Pages(5) = 32 /\ Pages(6) = 64 /\ Pages(7) = 128 /\ Pages(8) = 256 /\ Pages(9) = 512
BY DEF Pages, Pow2

(* There are at most ten of them.                                          *)
LEMMA PagesValue ==
    ASSUME NEW o \in 0..9
    PROVE  Pages(o) \in Nat \ {0}
<1>1. \/ o = 0 \/ o = 1 \/ o = 2 \/ o = 3 \/ o = 4 \/ o = 5 \/ o = 6 \/ o = 7 \/ o = 8 \/ o = 9
    OBVIOUS
<1> QED
    BY <1>1, PageSizes

(* Neighbouring intervals.                                                 *)
LEMMA Intervals ==
    ASSUME NEW a \in Nat, NEW p \in Nat
    PROVE  /\ (a .. (a + p - 1)) \cap ((a + p) .. (a + 2 * p - 1)) = {}
           /\ (a .. (a + p - 1)) \cup ((a + p) .. (a + 2 * p - 1)) = a .. (a + 2 * p - 1)
OBVIOUS

(* The halves of an aligned block are aligned (split_block); the buddy of  *)
(* an aligned block lies beside it, and the lower one of the two is        *)
(* aligned to twice the size (get_buddy_addr).                             *)
LEMMA HalfArith ==
    ASSUME NEW o \in 0..8
    PROVE  /\ Pages(o + 1) = 2 * Pages(o) /\ Pages(o) \in Nat \ {0}
           /\ \A a \in Nat : a % Pages(o + 1) = 0 => a % Pages(o) = 0 /\ (a + Pages(o)) % Pages(o) = 0
           /\ \A a \in Nat : a % Pages(o) = 0 /\ a % Pages(o + 1) # 0 =>
                 a - Pages(o) \in Nat /\ (a - Pages(o)) % Pages(o + 1) = 0
<1>1. CASE o = 0
    <2>1. Pages(o) = 1 /\ Pages(o + 1) = 2
        BY <1>1, PageSizes
    <2> QED
        BY <2>1
<1>2. CASE o = 1
    <2>1. Pages(o) = 2 /\ Pages(o + 1) = 4
        BY <1>2, PageSizes
    <2> QED
        BY <2>1
<1>3. CASE o = 2
    <2>1. Pages(o) = 4 /\ Pages(o + 1) = 8
        BY <1>3, PageSizes
    <2>2. \A a \in Nat : a % 8 = 0 => a % 4 = 0 /\ (a + 4) % 4 = 0
        OBVIOUS
    <2>3. \A a \in Nat : a % 4 = 0 /\ a % 8 # 0 => a - 4 \in Nat /\ (a - 4) % 8 = 0
        OBVIOUS
    <2> QED
        BY <2>1, <2>2, <2>3
<1>4. CASE o = 3
    <2>1. Pages(o) = 8 /\ Pages(o + 1) = 16
        BY <1>4, PageSizes
    <2> QED
        BY <2>1
<1>5. CASE o = 4
    <2>1. Pages(o) = 16 /\ Pages(o + 1) = 32
        BY <1>5, PageSizes
    <2> QED
        BY <2>1
<1>6. CASE o = 5
    <2>1. Pages(o) = 32 /\ Pages(o + 1) = 64
        BY <1>6, PageSizes
    <2> QED
        BY <2>1
<1>7. CASE o = 6
    <2>1. Pages(o) = 64 /\ Pages(o + 1) = 128
        BY <1>7, PageSizes
    <2> QED
        BY <2>1
<1>8. CASE o = 7
    <2>1. Pages(o) = 128 /\ Pages(o + 1) = 256
        BY <1>8, PageSizes
    <2> QED
        BY <2>1
<1>9. CASE o = 8
    <2>1. Pages(o) = 256 /\ Pages(o + 1) = 512
        BY <1>9, PageSizes
    <2> QED
        BY <2>1
<1> QED
    BY <1>1, <1>2, <1>3, <1>4, <1>5, <1>6, <1>7, <1>8, <1>9

(* Aligning to pages gives page numbers.                                   *)
LEMMA PageNumber ==
    ASSUME NEW a \in Nat
    PROVE  PageUp(a) \in Nat /\ PageDown(a) \in Nat
<1>1. ASSUME NEW x \in Nat PROVE x \div PAGE_SIZE \in Nat
    BY PmmAssumption
<1>2. a + PAGE_SIZE - 1 \in Nat
    BY PmmAssumption
<1> QED
    BY <1>1, <1>2 DEF PageUp, PageDown

----------------------------------------------------------------------------
(* Sets of blocks that share no page.                                      *)

Apart(S) == \A b, d \in S : b # d => Extent(b) \cap Extent(d) = {}
Sound(S) == S \subseteq Block /\ (\A b \in S : Aligned(b.base, b.order)) /\ Apart(S)
\* Free blocks F, allocated blocks A and the block H in hand.
Parts(F, A, H) == F \cap A = {} /\ H \cap (F \cup A) = {} /\ Sound(F \cup A \cup H)

(* A block has a page, and its pages are numbers.                          *)
LEMMA BlockPages ==
    ASSUME NEW b \in Block
    PROVE  /\ b.base \in Nat /\ b.order \in 0..9 /\ Pages(b.order) \in Nat \ {0}
           /\ b.base \in Extent(b) /\ Extent(b) \subseteq Nat
           /\ \A p \in Nat : p \in Extent(b) <=> b.base <= p /\ p < b.base + Pages(b.order)
<1>1. b.base \in Nat /\ b.order \in 0..9
    BY PmmAssumption DEF Block, Orders
<1>2. Pages(b.order) \in Nat \ {0}
    BY <1>1, PagesValue
<1> QED
    BY <1>1, <1>2 DEF Extent

(* A block can be replaced by blocks of the same pages.                    *)
LEMMA Replace ==
    ASSUME NEW S, NEW R, NEW T, Sound(S), R \subseteq S, Sound(T), Extents(T) \subseteq Extents(R)
    PROVE  Sound((S \ R) \cup T) /\ T \cap (S \ R) = {}
<1>1. ASSUME NEW b \in S \ R, NEW t \in T PROVE Extent(b) \cap Extent(t) = {}
    <2> SUFFICES ASSUME NEW p \in Extent(b), p \in Extent(t) PROVE FALSE
        OBVIOUS
    <2>1. PICK d \in R : p \in Extent(d)
        BY Zenon DEF Extents
    <2> QED
        BY <1>1, <2>1 DEF Sound, Apart
<1>2. ASSUME NEW b \in S \ R, b \in T PROVE FALSE
    <2>1. b.base \in Extent(b)
        BY <1>2, BlockPages DEF Sound
    <2> QED
        BY <1>1, <1>2, <2>1
<1>3. Apart((S \ R) \cup T)
    BY <1>1, Zenon DEF Apart, Sound
<1> QED
    BY <1>2, <1>3 DEF Sound

(* The halves of a block that split_block makes.                           *)
LEMMA Halves ==
    ASSUME NEW b \in Block, Aligned(b.base, b.order), 
           NEW o \in Orders, b.order = o + 1, NEW x, x = [b EXCEPT !.order = o], NEW y, y = UpperHalf(b, o)
    PROVE  /\ x \in Block /\ y \in Block /\ x # y
           /\ Sound({x, y}) /\ Extents({x, y}) = Extent(b)
<1>1. b.base \in Nat /\ o \in 0..8
    BY PmmAssumption, SMTT(30) DEF Block, Orders
<1>2. /\ Pages(o + 1) = 2 * Pages(o) /\ Pages(o) \in Nat \ {0}
      /\ b.base % Pages(o) = 0 /\ (b.base + Pages(o)) % Pages(o) = 0
    BY <1>1, HalfArith DEF Aligned
<1>3. x \in Block /\ x.base = b.base /\ x.order = o
    BY <1>1 DEF Block
<1>4. y \in Block /\ y.base = b.base + Pages(o) /\ y.order = o
    BY <1>1, <1>2 DEF Block, UpperHalf
<1>5. Aligned(x.base, x.order) /\ Aligned(y.base, y.order) /\ x # y
    <2>1. Aligned(x.base, x.order)
        BY <1>2, <1>3 DEF Aligned
    <2>2. Aligned(y.base, y.order)
        BY <1>2, <1>4 DEF Aligned
    <2>3. x.base # y.base
        BY <1>1, <1>2, <1>3, <1>4
    <2> QED
        BY <2>1, <2>2, <2>3, Zenon
<1>6. /\ Extent(x) = b.base .. (b.base + Pages(o) - 1)
      /\ Extent(y) = (b.base + Pages(o)) .. (b.base + 2 * Pages(o) - 1)
      /\ Extent(b) = b.base .. (b.base + 2 * Pages(o) - 1)
    <2>1. Extent(x) = b.base .. (b.base + Pages(o) - 1)
        BY <1>3 DEF Extent
    <2>2. Extent(y) = (b.base + Pages(o)) .. (b.base + Pages(o) + Pages(o) - 1)
        BY <1>4 DEF Extent
    <2>3. b.base + Pages(o) + Pages(o) - 1 = b.base + 2 * Pages(o) - 1
        BY <1>1, <1>2, SMTT(30)
    <2>4. Extent(b) = b.base .. (b.base + 2 * Pages(o) - 1)
        BY <1>2 DEF Extent
    <2> QED
        BY <2>1, <2>2, <2>3, <2>4
<1>7. Extent(x) \cap Extent(y) = {} /\ Extent(x) \cup Extent(y) = Extent(b)
    <2>1. b.base \in Nat /\ Pages(o) \in Nat
        BY <1>1, <1>2
    <2> QED
        BY <1>6, <2>1, Intervals, Zenon
<1>8. Extents({x, y}) = Extent(x) \cup Extent(y)
    BY DEF Extents
<1>9. Sound({x, y})
    BY <1>3, <1>4, <1>5, <1>7 DEF Sound, Apart
<1> QED
    BY <1>3, <1>4, <1>5, <1>7, <1>8, <1>9, Zenon

(* A block and its buddy make an aligned block of twice the size           *)
(* (coalesce_block).                                                       *)
LEMMA Union ==
    ASSUME NEW b \in Block, Aligned(b.base, b.order), b.order < MAX_ORDER,
           NEW d, d = Buddy(b), NEW u, u = [base |-> Lower(b.base, d.base), order |-> b.order + 1]
    PROVE  /\ d \in Block /\ d # b
           /\ Sound({u}) /\ Extents({u}) = Extent(b) \cup Extent(d)
<1> DEFINE o == b.order
<1>1. b.base \in Nat /\ o \in Orders /\ o \in 0..8 /\ o + 1 \in Orders
    BY PmmAssumption DEF Block, Orders
<1>2. b.base % Pages(o) = 0
    BY DEF Aligned
<1>3. Pages(o) \in Nat \ {0} /\ Pages(o + 1) = 2 * Pages(o)
    BY <1>1, HalfArith
<1>4. d.base = get_buddy_addr(b) /\ d.order = o
    BY Zenon DEF Buddy
<1>5. \/ b.base % Pages(o + 1) = 0 /\ d.base = b.base + Pages(o) /\ u.base = b.base
      \/ /\ (b.base - Pages(o)) % Pages(o + 1) = 0 /\ b.base - Pages(o) \in Nat
         /\ d.base = b.base - Pages(o) /\ u.base = b.base - Pages(o)
    <2>1. CASE b.base % Pages(o + 1) = 0
        BY <1>1, <1>3, <1>4, <2>1 DEF get_buddy_addr, Aligned, Lower
    <2>2. CASE b.base % Pages(o + 1) # 0
        <3>1. /\ b.base - Pages(o) \in Nat /\ (b.base - Pages(o)) % Pages(o + 1) = 0
            BY <1>1, <1>2, <2>2, HalfArith, Zenon
        <3> QED
            BY <1>1, <1>3, <1>4, <2>2, <3>1 DEF get_buddy_addr, Aligned, Lower
    <2> QED
        BY <2>1, <2>2, Zenon
<1>6. d.base \in Nat /\ u.base \in Nat /\ u.order = o + 1 /\ d.base # b.base
    BY <1>1, <1>3, <1>5
<1> HIDE DEF o
<1>7. d \in Block /\ u \in Block /\ d # b
    BY <1>1, <1>4, <1>6 DEF Block, Buddy
<1>8. /\ Extent(b) = b.base .. (b.base + Pages(o) - 1)
      /\ Extent(d) = d.base .. (d.base + Pages(o) - 1)
      /\ Extent(u) = u.base .. (u.base + 2 * Pages(o) - 1)
    BY <1>3, <1>4, <1>6 DEF Extent, o
<1>9. Extent(u) = Extent(b) \cup Extent(d)
    <2>1. CASE d.base = b.base + Pages(o) /\ u.base = b.base
        BY <1>1, <1>3, <1>8, <2>1, Intervals
    <2>2. CASE d.base = b.base - Pages(o) /\ u.base = b.base - Pages(o) /\ d.base \in Nat
        <3>1. b.base = d.base + Pages(o) /\ b.base + Pages(o) - 1 = d.base + 2 * Pages(o) - 1
            BY <1>1, <1>3, <2>2
        <3>2. Pages(o) \in Nat /\ u.base = d.base /\ d.base \in Nat
            BY <1>3, <2>2, Zenon
        <3> QED
            BY <1>8, <3>1, <3>2, Intervals
    <2> QED
        BY <1>5, <2>1, <2>2, Zenon
<1>10. Aligned(u.base, u.order)
    BY <1>5, <1>6 DEF Aligned
<1> QED
    BY <1>7, <1>9, <1>10 DEF Sound, Apart, Extents

----------------------------------------------------------------------------
(* The inductive invariant.                                                *)

\* The block that the holder of the lock has in hand.
Hand == IF lock = "none" THEN {} ELSE {cur[lock]}

\* Pages M are managed, and of these the ones from a to e are still to be added.
\* The blocks F, A and H share no page; as long as descriptors are left, all
\* other managed pages are in them.
Layout(F, A, H, M, a, e, k) ==
    /\ Parts(F, A, H) /\ Extents(F \cup A \cup H) \subseteq M
    /\ M \subseteq Nat /\ M \subseteq AllPages /\ IsFiniteSet(M)
    /\ a \in Nat /\ e \in Nat /\ a .. (e - 1) \subseteq M
    /\ Extents(F \cup A \cup H) \cap (a .. (e - 1)) = {}
    /\ k \in 0..MAX_BLOCK_DESC
    /\ k < MAX_BLOCK_DESC => M \subseteq Extents(F \cup A \cup H) \cup (a .. (e - 1))
Memory == Layout(free, allocated, Hand, managed, addr, end, block_count)

\* The lock belongs to the CPU that is inside an operation.
Locking ==
    /\ lock \in Cpu \cup {"none"}
    /\ pc \in [Cpu -> {"boot", "idle", "split", "pcd", "coalesce"}]
    /\ cur \in [Cpu -> Block] /\ target \in [Cpu -> Orders]
    /\ \A c \in Cpu : pc[c] \in {"split", "coalesce"} <=> lock = c

\* The regions R that pmm_init has still to add share no page with each other
\* or with what has been added.
Ahead(R, M) ==
    /\ R \in Seq(Region)
    /\ \A i \in 1..Len(R) :
          /\ RegionPages(R[i]) \cap M = {} /\ RegionPages(R[i]) \subseteq AllPages
          /\ \A j \in 1..Len(R) : i # j => RegionPages(R[i]) \cap RegionPages(R[j]) = {}
Booting ==
    /\ Ahead(regions, managed) /\ reserves \in Seq(Region)
    /\ \/ (\A c \in Cpu : pc[c] = "boot") /\ allocated = {} /\ lock = "none"
       \/ (\A c \in Cpu : pc[c] # "boot") /\ reserves = << >>

Inv == Memory /\ Locking /\ Booting

(* InHand is the block of the holder of the lock.                          *)
LEMMA HandIs == Locking => InHand = Hand
<1> SUFFICES ASSUME Locking PROVE InHand = Hand
    OBVIOUS
<1>1. CASE lock = "none"
    BY <1>1, PmmAssumption DEF Locking, InHand, Hand
<1>2. CASE lock # "none"
    <2>1. lock \in Cpu /\ {d \in Cpu : pc[d] \in {"split", "coalesce"}} = {lock}
        BY <1>2 DEF Locking
    <2> QED
        BY <1>2, <2>1 DEF InHand, Hand
<1> QED
    BY <1>1, <1>2

\* Blocks R are replaced by blocks T of the same pages, or of those of their
\* pages that are still managed.
Exchange(F, A, H, R, T, F2, A2, H2, M, M2, a, e, k, j) ==
    /\ R \subseteq F \cup A \cup H /\ Sound(T) /\ Extents(T) \subseteq Extents(R)
    /\ F2 \cap A2 = {} /\ H2 \cap (F2 \cup A2) = {}
    /\ F2 \cup A2 \cup H2 = ((F \cup A \cup H) \ R) \cup T
    /\ M2 \subseteq M /\ Extents(F2 \cup A2 \cup H2) \subseteq M2 /\ a .. (e - 1) \subseteq M2
    /\ j \in 0..MAX_BLOCK_DESC
    /\ j < MAX_BLOCK_DESC => k < MAX_BLOCK_DESC /\ Extents(R) \cap M2 \subseteq Extents(T)

(* An exchange of blocks keeps the layout.                                 *)
LEMMA Swap ==
    ASSUME NEW F, NEW A, NEW H, NEW M, NEW a, NEW e, NEW k, Layout(F, A, H, M, a, e, k),
           NEW R, NEW T, NEW F2, NEW A2, NEW H2, NEW M2, NEW j,
           Exchange(F, A, H, R, T, F2, A2, H2, M, M2, a, e, k, j)
    PROVE  Layout(F2, A2, H2, M2, a, e, j)
<1>0. /\ R \subseteq F \cup A \cup H /\ Sound(T) /\ Extents(T) \subseteq Extents(R)
      /\ F2 \cap A2 = {} /\ H2 \cap (F2 \cup A2) = {}
      /\ F2 \cup A2 \cup H2 = ((F \cup A \cup H) \ R) \cup T
      /\ M2 \subseteq M /\ Extents(F2 \cup A2 \cup H2) \subseteq M2 /\ a .. (e - 1) \subseteq M2
      /\ j \in 0..MAX_BLOCK_DESC
      /\ j < MAX_BLOCK_DESC => k < MAX_BLOCK_DESC /\ Extents(R) \cap M2 \subseteq Extents(T)
    BY Zenon DEF Exchange
<1> DEFINE O == F \cup A \cup H
           N == F2 \cup A2 \cup H2
<1>1. Sound(O)
    BY <1>0, Zenon DEF Layout, Parts
<1>2. Sound(N) /\ N = (O \ R) \cup T
    BY <1>0, <1>1, Replace
<1>3. Extents(N) \subseteq Extents(O)
    <2> SUFFICES ASSUME NEW p \in Extents(N) PROVE p \in Extents(O)
        BY <1>0, Zenon
    <2>1. PICK b \in N : p \in Extent(b)
        BY <1>0, Zenon DEF Extents
    <2>2. CASE b \in O
        BY <1>0, <2>1, <2>2, Zenon DEF Extents
    <2>3. CASE b \in T
        <3>1. p \in Extents(R)
            BY <1>0, <2>1, <2>3, Zenon DEF Extents
        <3> QED
            BY <1>0, <3>1, Zenon DEF Extents
    <2> QED
        BY <1>0, <1>2, <2>2, <2>3, Zenon
<1>4. IsFiniteSet(M2)
    BY <1>0, FS_Subset, Zenon DEF Layout
<1>5. ASSUME j < MAX_BLOCK_DESC PROVE M2 \subseteq Extents(N) \cup (a .. (e - 1))
    <2> SUFFICES ASSUME NEW p \in M2, p \notin a .. (e - 1) PROVE p \in Extents(N)
        BY <1>0, Zenon
    <2>1. p \in Extents(O)
        BY <1>0, <1>5, Zenon DEF Layout
    <2>2. PICK b \in O : p \in Extent(b)
        BY <1>0, <2>1, Zenon DEF Extents
    <2>3. CASE b \in R
        <3>1. p \in Extents(R)
            BY <1>0, <2>2, <2>3, Zenon DEF Extents
        <3>2. p \in Extents(T)
            BY <1>0, <1>5, <3>1, Zenon
        <3> QED
            BY <1>0, <1>2, <3>2, Zenon DEF Extents
    <2>4. CASE b \notin R
        BY <1>0, <1>2, <2>2, <2>4, Zenon DEF Extents
    <2> QED
        BY <1>0, <2>3, <2>4
<1>6. Parts(F2, A2, H2)
    BY <1>0, <1>2 DEF Parts
<1>7. Extents(N) \cap (a .. (e - 1)) = {}
    BY <1>0, <1>3, Zenon DEF Layout
<1>8. M2 \subseteq Nat /\ M2 \subseteq AllPages /\ a \in Nat /\ e \in Nat
    BY <1>0 DEF Layout
<1> QED
    BY <1>0, <1>4, <1>5, <1>6, <1>7, <1>8, Zenon DEF Layout

(* A block changes hands.                                                  *)
LEMMA Move ==
    ASSUME NEW F, NEW A, NEW H, NEW M, NEW a, NEW e, NEW k, Layout(F, A, H, M, a, e, k),
           NEW F2, NEW A2, NEW H2, F2 \cap A2 = {}, H2 \cap (F2 \cup A2) = {},
           F2 \cup A2 \cup H2 = F \cup A \cup H
    PROVE  Layout(F2, A2, H2, M, a, e, k)
BY Zenon DEF Layout, Parts

(* split_block puts the upper half on a free list if a descriptor is left. *)
LEMMA SplitLayout ==
    ASSUME NEW F, NEW A, NEW M, NEW a, NEW e, NEW k, NEW b, Layout(F, A, {b}, M, a, e, k),
           NEW o \in Orders, b.order = o + 1, NEW x, x = [b EXCEPT !.order = o],
           NEW y, y = UpperHalf(b, o)
    PROVE  /\ k < MAX_BLOCK_DESC => Layout(F \cup {y}, A, {x}, M, a, e, k + 1)
           /\ ~(k < MAX_BLOCK_DESC) => Layout(F, A, {x}, M, a, e, k)
<1> DEFINE O == F \cup A \cup {b}
<1>1. /\ Sound(O) /\ b \in Block /\ Aligned(b.base, b.order) /\ b \notin F \cup A /\ F \cap A = {}
      /\ k \in 0..MAX_BLOCK_DESC /\ Extents(O) \subseteq M /\ a .. (e - 1) \subseteq M
    BY Zenon DEF Layout, Parts, Sound
<1>2. /\ x \in Block /\ y \in Block /\ x # y /\ Sound({x, y}) /\ Extents({x, y}) = Extent(b)
    BY <1>1, Halves, Zenon
<1>3. Extents({b}) = Extent(b) /\ Extents({x}) \subseteq Extents({x, y}) /\ Sound({x})
    <2>1. Sound({x})
        BY <1>2, Zenon DEF Sound, Apart
    <2>2. Extents({b}) = Extent(b) /\ Extents({x}) \subseteq Extents({x, y})
        BY Zenon DEF Extents
    <2> QED
        BY <2>1, <2>2, Zenon
<1>4. {x, y} \cap (O \ {b}) = {} /\ {x} \cap (O \ {b}) = {}
    <2> DEFINE R == {b}
               T == {x, y}
               U == {x}
    <2>1. Extents(T) \subseteq Extents(R) /\ Extents(U) \subseteq Extents(R) /\ Sound(T) /\ Sound(U)
        BY <1>2, <1>3, Zenon
    <2>2. R \subseteq O
        OBVIOUS
    <2> HIDE DEF O, R, T, U
    <2>3. T \cap (O \ R) = {} /\ U \cap (O \ R) = {}
        BY <1>1, <2>1, <2>2, Replace, Zenon
    <2> QED
        BY <2>3 DEF R, T, U
<1>5. x \notin F \cup A /\ y \notin F \cup A
    BY <1>1, <1>4
<1>6. Extents((O \ {b}) \cup {x, y}) \subseteq M /\ Extents((O \ {b}) \cup {x}) \subseteq M
    <2> SUFFICES ASSUME NEW d \in O \cup {x, y}, NEW p \in Extent(d) PROVE p \in M
        BY Zenon DEF Extents
    <2>1. CASE d \in O
        BY <1>1, <2>1, Zenon DEF Extents
    <2>2. CASE d \in {x, y}
        BY <1>1, <1>2, <2>2, ZenonT(30) DEF Extents
    <2> QED
        BY <2>1, <2>2
<1>7. ASSUME k < MAX_BLOCK_DESC PROVE Layout(F \cup {y}, A, {x}, M, a, e, k + 1)
    <2>1. (F \cup {y}) \cup A \cup {x} = (O \ {b}) \cup {x, y}
        BY <1>1
    <2>2. k + 1 \in 0..MAX_BLOCK_DESC
        BY <1>1, <1>7, PmmAssumption
    <2>3. (F \cup {y}) \cap A = {} /\ {x} \cap ((F \cup {y}) \cup A) = {}
        BY <1>1, <1>2, <1>5
    <2>4. Extents((F \cup {y}) \cup A \cup {x}) \subseteq M
        BY <1>6, <2>1, Zenon
    <2> DEFINE H == {b}
               T == {x, y}
               F2 == F \cup {y}
               H2 == {x}
    <2>5. H \subseteq F \cup A \cup H /\ Extents(T) \subseteq Extents(H) /\ Sound(T)
        BY <1>2, <1>3
    <2>6. k + 1 < MAX_BLOCK_DESC => k < MAX_BLOCK_DESC /\ Extents(H) \cap M \subseteq Extents(T)
        BY <1>2, <1>3, <1>7
    <2>7. /\ Layout(F, A, H, M, a, e, k) /\ F2 \cap A = {} /\ H2 \cap (F2 \cup A) = {}
          /\ F2 \cup A \cup H2 = ((F \cup A \cup H) \ H) \cup T /\ Extents(F2 \cup A \cup H2) \subseteq M
        BY <2>1, <2>3, <2>4, Zenon
    <2>8. M \subseteq M /\ a .. (e - 1) \subseteq M
        BY <1>1
    <2> HIDE DEF O, H, T, F2, H2
    <2>9. Exchange(F, A, H, H, T, F2, A, H2, M, M, a, e, k, k + 1)
        BY <2>2, <2>5, <2>6, <2>7, <2>8, Zenon DEF Exchange
    <2>10. Layout(F2, A, H2, M, a, e, k + 1)
        BY <2>7, <2>9, Swap, Zenon
    <2> QED
        BY <2>10 DEF F2, H2
<1>8. ASSUME ~(k < MAX_BLOCK_DESC) PROVE Layout(F, A, {x}, M, a, e, k)
    <2>1. F \cup A \cup {x} = (O \ {b}) \cup {x}
        BY <1>1
    <2>2. F \cap A = {} /\ {x} \cap (F \cup A) = {}
        BY <1>1, <1>5
    <2>3. Extents(F \cup A \cup {x}) \subseteq M
        BY <1>6, <2>1
    <2> DEFINE H == {b}
               T == {x}
    <2>4. H \subseteq F \cup A \cup H /\ Extents(T) \subseteq Extents(H) /\ Sound(T) /\ M \subseteq M
        BY <1>2, <1>3, Zenon
    <2>5. /\ Layout(F, A, H, M, a, e, k) /\ F \cap A = {} /\ T \cap (F \cup A) = {}
          /\ F \cup A \cup T = ((F \cup A \cup H) \ H) \cup T /\ Extents(F \cup A \cup T) \subseteq M
        BY <2>1, <2>2, <2>3, Zenon
    <2> HIDE DEF O, H, T
    <2>6. Exchange(F, A, H, H, T, F, A, T, M, M, a, e, k, k)
        BY <1>1, <1>8, <2>4, <2>5, Zenon DEF Exchange
    <2>7. Layout(F, A, T, M, a, e, k)
        BY <2>5, <2>6, Swap, Zenon
    <2> QED
        BY <2>7 DEF T
<1> QED
    BY <1>7, <1>8

(* coalesce_block takes the buddy off its free list.                       *)
LEMMA MergeLayout ==
    ASSUME NEW F, NEW A, NEW M, NEW a, NEW e, NEW k, NEW b, Layout(F, A, {b}, M, a, e, k),
           b.order < MAX_ORDER, NEW d \in F, d = Buddy(b),
           NEW u, u = [base |-> Lower(b.base, d.base), order |-> b.order + 1]
    PROVE  Layout(F \ {d}, A, {u}, M, a, e, k)
<1> DEFINE H == {b}
           O == F \cup A \cup H
           R == {b, d}
           T == {u}
           F2 == F \ {d}
<1>1. /\ Sound(O) /\ b \in Block /\ Aligned(b.base, b.order) /\ b \notin F \cup A /\ F \cap A = {}
      /\ k \in 0..MAX_BLOCK_DESC /\ Extents(O) \subseteq M /\ a .. (e - 1) \subseteq M
    BY Zenon DEF Layout, Parts, Sound
<1>2. d # b /\ Sound({u}) /\ Extents({u}) = Extent(b) \cup Extent(d)
    BY <1>1, Union, Zenon
<1>3. Extents(R) = Extent(b) \cup Extent(d) /\ R \subseteq O
    <2>1. Extents(R) = Extent(b) \cup Extent(d)
        BY Zenon DEF Extents
    <2> QED
        BY <2>1
<1>4. T \cap (O \ R) = {}
    <2>1. Extents(T) \subseteq Extents(R) /\ Sound(T)
        BY <1>2, <1>3, Zenon
    <2> HIDE DEF O, R, T
    <2> QED
        BY <1>1, <1>3, <2>1, Replace, ZenonT(30)
<1>5. F2 \cup A \cup T = (O \ R) \cup T /\ F2 \cup A = O \ R
    BY <1>1
<1>6. F2 \cap A = {} /\ T \cap (F2 \cup A) = {}
    <2>1. F2 \cap A = {}
        BY <1>1
    <2> QED
        BY <1>4, <1>5, <2>1, Zenon
<1>7. Extents(F2 \cup A \cup T) \subseteq M
    <2> HIDE DEF F2, T
    <2> SUFFICES ASSUME NEW c \in F2 \cup A \cup T, NEW p \in Extent(c) PROVE p \in M
        BY Zenon DEF Extents
    <2> USE DEF F2, T
    <2>1. CASE c \in O
        BY <1>1, <2>1, Zenon DEF Extents
    <2>2. CASE c = u
        <3>1. Extent(u) \subseteq Extents({u}) /\ Extent(b) \subseteq Extents(O) /\ Extent(d) \subseteq Extents(O)
            BY DEF Extents
        <3> QED
            BY <1>1, <1>2, <2>2, <3>1, Zenon
    <2> QED
        BY <2>1, <2>2
<1>8. /\ Extents(T) \subseteq Extents(R) /\ Sound(T) /\ M \subseteq M
      /\ k < MAX_BLOCK_DESC => k < MAX_BLOCK_DESC /\ Extents(R) \cap M \subseteq Extents(T)
    BY <1>2, <1>3, Zenon
<1>9. Layout(F, A, H, M, a, e, k) /\ O = F \cup A \cup H
    OBVIOUS
<1> HIDE DEF H, R, T, F2
<1>10. Exchange(F, A, H, R, T, F2, A, T, M, M, a, e, k, k)
    BY <1>1, <1>3, <1>5, <1>6, <1>7, <1>8, <1>9, Zenon DEF Exchange
<1>11. Layout(F2, A, T, M, a, e, k)
    BY <1>9, <1>10, Swap, Zenon
<1> QED
    BY <1>11 DEF F2, T

(* pmm_add_region takes the next block off the pages to add, and puts it   *)
(* on a free list if a descriptor is left.                                 *)
LEMMA AddBlockLayout ==
    ASSUME NEW F, NEW A, NEW H, NEW M, NEW a, NEW e, NEW k, Layout(F, A, H, M, a, e, k), a < e,
           NEW o \in Orders, Pages(o) <= e - a, Aligned(a, o),
           NEW b, b = [base |-> a, order |-> o]
    PROVE  /\ k < MAX_BLOCK_DESC => Layout(F \cup {b}, A, H, M, a + Pages(o), e, k + 1)
           /\ ~(k < MAX_BLOCK_DESC) => Layout(F, A, H, M, a + Pages(o), e, k)
<1> DEFINE O == F \cup A \cup H
           G == a .. (e - 1)
           J == (a + Pages(o)) .. (e - 1)
<1>1. /\ Sound(O) /\ F \cap A = {} /\ H \cap (F \cup A) = {} /\ Extents(O) \subseteq M
      /\ M \subseteq Nat /\ M \subseteq AllPages /\ IsFiniteSet(M) /\ a \in Nat /\ e \in Nat
      /\ G \subseteq M /\ Extents(O) \cap G = {} /\ k \in 0..MAX_BLOCK_DESC
      /\ k < MAX_BLOCK_DESC => M \subseteq Extents(O) \cup G
    BY Zenon DEF Layout, Parts
<1>2. b \in Block /\ b.base = a /\ b.order = o
    BY <1>1, Zenon DEF Block
<1>3. Pages(o) \in Nat \ {0} /\ a + Pages(o) \in Nat
    BY <1>1, <1>2, BlockPages
<1>4. Extent(b) \cup J = G /\ Extent(b) \cap J = {}
    BY <1>1, <1>2, <1>3 DEF Extent
<1> HIDE DEF G, J
<1>5. J \subseteq M /\ Extents(O) \cap J = {} /\ Extent(b) \subseteq M /\ Extents(O) \cap Extent(b) = {}
    BY <1>1, <1>4, Zenon
<1>6. Extents(O \cup {b}) = Extents(O) \cup Extent(b)
    BY Zenon DEF Extents
<1>7. b \notin O
    <2>1. b.base \in Extent(b)
        BY <1>2, BlockPages
    <2> QED
        BY <1>5, <2>1, Zenon DEF Extents
<1>8. Sound(O \cup {b})
    <2>1. Aligned(b.base, b.order)
        BY <1>2
    <2>2. \A c \in O : Extent(c) \cap Extent(b) = {}
        BY <1>5, Zenon DEF Extents
    <2> QED
        BY <1>1, <1>2, <2>1, <2>2, Zenon DEF Sound, Apart
<1>9. ASSUME k < MAX_BLOCK_DESC PROVE Layout(F \cup {b}, A, H, M, a + Pages(o), e, k + 1)
    <2>1. (F \cup {b}) \cup A \cup H = O \cup {b}
        BY Zenon
    <2>2. (F \cup {b}) \cap A = {} /\ H \cap ((F \cup {b}) \cup A) = {}
        BY <1>1, <1>7, Zenon
    <2>3. k + 1 \in 0..MAX_BLOCK_DESC
        BY <1>1, <1>9, PmmAssumption
    <2>4. Extents(O \cup {b}) \subseteq M /\ Extents(O \cup {b}) \cap J = {} /\ M \subseteq Extents(O \cup {b}) \cup J
        BY <1>1, <1>4, <1>5, <1>6, <1>9, Zenon
    <2>5. Parts(F \cup {b}, A, H)
        BY <1>8, <2>1, <2>2, Zenon DEF Parts
    <2> HIDE DEF O
    <2> QED
        BY <1>1, <1>3, <1>5, <2>1, <2>3, <2>4, <2>5, Zenon DEF Layout, J
<1>10. ASSUME ~(k < MAX_BLOCK_DESC) PROVE Layout(F, A, H, M, a + Pages(o), e, k)
    BY <1>1, <1>3, <1>5, <1>10, Zenon DEF Layout, J, Parts
<1> QED
    BY <1>9, <1>10

(* pmm_add_region starts on a region: its pages become managed.            *)
LEMMA AddRegionLayout ==
    ASSUME NEW F, NEW A, NEW H, NEW M, NEW a, NEW e, NEW k, Layout(F, A, H, M, a, e, k), a >= e,
           NEW r \in Region, RegionPages(r) \cap M = {}, RegionPages(r) \subseteq AllPages
    PROVE  Layout(F, A, H, M \cup RegionPages(r), PageUp(r.base),
                  PageUp(r.base) + PageDown(r.size), k)
<1> DEFINE O == F \cup A \cup H
           G == RegionPages(r)
           b == PageUp(r.base)
           d == PageUp(r.base) + PageDown(r.size)
<1>1. /\ Parts(F, A, H) /\ Extents(O) \subseteq M
      /\ M \subseteq Nat /\ M \subseteq AllPages /\ IsFiniteSet(M) /\ a \in Nat /\ e \in Nat
      /\ k \in 0..MAX_BLOCK_DESC
      /\ k < MAX_BLOCK_DESC => M \subseteq Extents(O) \cup (a .. (e - 1))
    BY Zenon DEF Layout
<1>2. PageUp(r.base) \in Nat /\ PageDown(r.size) \in Nat
    BY PageNumber DEF Region
<1>3. b \in Nat /\ d \in Nat /\ d - 1 \in Int
    BY <1>2
<1>4. G = b .. (d - 1)
    <2>1. PageUp(r.base) + (PageDown(r.size) - 1) = d - 1
        BY <1>2
    <2> QED
        BY <2>1, Zenon DEF RegionPages
<1> HIDE DEF b, d
<1>5. G \subseteq Nat /\ IsFiniteSet(G)
    <2>1. G \subseteq Nat
        BY <1>3, <1>4
    <2>2. IsFiniteSet(b .. (d - 1))
        BY <1>3, FS_Interval
    <2> QED
        BY <1>4, <2>1, <2>2, Zenon
<1> HIDE DEF G
<1>6. IsFiniteSet(M \cup G)
    BY <1>1, <1>5, FS_Union, Zenon
<1>7. a .. (e - 1) = {}
    <2>1. a \in Nat /\ e \in Nat /\ a >= e
        BY <1>1
    <2> QED
        BY <2>1
<1>8. G \cap M = {} /\ G \subseteq AllPages
    BY DEF G
<1>9. Layout(F, A, H, M \cup G, b, d, k)
    <2>1. Extents(O) \subseteq M \cup G /\ M \cup G \subseteq Nat /\ M \cup G \subseteq AllPages
        BY <1>1, <1>5, <1>8, Zenon
    <2>2. G \subseteq M \cup G /\ Extents(O) \cap G = {}
        BY <1>1, <1>8, Zenon
    <2>3. k < MAX_BLOCK_DESC => M \cup G \subseteq Extents(O) \cup G
        BY <1>1, <1>7, Zenon
    <2>4. b .. (d - 1) = G /\ Parts(F, A, H) /\ b \in Nat /\ d \in Nat /\ IsFiniteSet(M \cup G)
        BY <1>1, <1>3, <1>4, <1>6, Zenon
    <2>5. k \in 0..MAX_BLOCK_DESC
        BY <1>1, Zenon
    <2> QED
        BY <2>1, <2>2, <2>3, <2>4, <2>5, Zenon DEF Layout
<1> QED
    BY <1>9 DEF G, b, d

(* The block of one page.                                                  *)
Single(p) == [base |-> p, order |-> 0]
Singles(P) == {[base |-> p, order |-> 0] : p \in P}

(* pmm_reserve_region puts single pages back.                              *)
LEMMA SinglePages ==
    ASSUME NEW P, P \subseteq Nat
    PROVE  Sound(Singles(P)) /\ Extents(Singles(P)) = P
<1>1. ASSUME NEW p \in P
      PROVE  /\ Single(p) \in Block /\ Single(p).base = p /\ Single(p).order = 0
             /\ Aligned(p, 0) /\ Extent(Single(p)) = {p}
    <2>1. Pages(0) = 1 /\ 0 \in Orders /\ p \in Nat
        BY PageSizes, PmmAssumption DEF Orders
    <2>2. Single(p) \in Block /\ Single(p).base = p /\ Single(p).order = 0
        BY <2>1 DEF Block, Single
    <2>3. Aligned(p, 0)
        BY <2>1 DEF Aligned
    <2>4. p .. (p + 1 - 1) = {p}
        BY <2>1
    <2> QED
        BY <2>1, <2>2, <2>3, <2>4, Zenon DEF Extent
<1>2. \A b \in Singles(P) : \E p \in P : b = Single(p)
    BY Zenon DEF Singles, Single
<1>3. \A p \in P : Single(p) \in Singles(P)
    BY Zenon DEF Singles, Single
<1>4. \A b, d \in Singles(P) : b # d => Extent(b) \cap Extent(d) = {}
    <2> SUFFICES ASSUME NEW b \in Singles(P), NEW d \in Singles(P), b # d
                 PROVE  Extent(b) \cap Extent(d) = {}
        BY Zenon
    <2>1. PICK p \in P : b = Single(p)
        BY <1>2
    <2>2. PICK q \in P : d = Single(q)
        BY <1>2
    <2>3. p # q
        BY <2>1, <2>2, Zenon
    <2>4. Extent(b) = {p} /\ Extent(d) = {q}
        BY <1>1, <2>1, <2>2, Zenon
    <2> QED
        BY <2>3, <2>4, Zenon
<1>5. \A b \in Singles(P) : b \in Block /\ Aligned(b.base, b.order)
    BY <1>1, <1>2
<1>6. Extents(Singles(P)) = P
    <2>1. ASSUME NEW x \in Extents(Singles(P)) PROVE x \in P
        <3>1. PICK b \in Singles(P) : x \in Extent(b)
            BY Zenon DEF Extents
        <3>2. PICK p \in P : b = Single(p)
            BY <1>2
        <3>3. Extent(b) = {p}
            BY <1>1, <3>2, Zenon
        <3> QED
            BY <3>1, <3>3
    <2>2. ASSUME NEW x \in P PROVE x \in Extents(Singles(P))
        <3>1. Single(x) \in Singles(P) /\ Extent(Single(x)) = {x}
            BY <1>1, <1>3, Zenon
        <3> QED
            BY <3>1, Zenon DEF Extents
    <2> QED
        BY <2>1, <2>2, Zenon
<1> QED
    BY <1>4, <1>5, <1>6, Zenon DEF Sound, Apart

(* pmm_reserve_region takes the free blocks that intersect the pages from  *)
(* s to t off their lists and puts back the pages outside, as far as       *)
(* descriptors last.                                                       *)
LEMMA ReserveLayout ==
    ASSUME NEW F, NEW M, NEW a, NEW e, NEW k, Layout(F, {}, {}, M, a, e, k), a >= e,
           NEW s \in Nat, NEW t \in Nat,
           NEW hit, hit = IF s >= t THEN {} ELSE {b \in F : Intersects(b, s, t)},
           NEW outside, outside = Extents(hit) \ (s .. (t - 1)),
           NEW n, n = IF Cardinality(outside) <= MAX_BLOCK_DESC - k
                      THEN Cardinality(outside) ELSE MAX_BLOCK_DESC - k,
           NEW kept, kept \subseteq outside, Cardinality(kept) = n
    PROVE  Layout((F \ hit) \cup Singles(kept), {}, {}, M \ (s .. (t - 1)), a, e, k + n)
<1> DEFINE M2 == M \ (s .. (t - 1))
           T == Singles(kept)
           F2 == (F \ hit) \cup T
<1>1. /\ Sound(F) /\ Extents(F) \subseteq M /\ M \subseteq Nat /\ IsFiniteSet(M)
      /\ a \in Nat /\ e \in Nat /\ k \in 0..MAX_BLOCK_DESC
    <2>1. F \cup {} \cup {} = F
        BY Zenon
    <2> QED
        BY <2>1, Zenon DEF Layout, Parts
<1>2. hit \subseteq F /\ \A b \in F \ hit : s < t => ~Intersects(b, s, t)
    OBVIOUS
<1>3. Extents(hit) \subseteq Extents(F) /\ outside \subseteq Extents(F) /\ kept \subseteq Nat
    <2>1. Extents(hit) \subseteq Extents(F)
        BY <1>2, Zenon DEF Extents
    <2> QED
        BY <1>1, <2>1, Zenon
<1>4. Sound(T) /\ Extents(T) = kept
    BY <1>3, SinglePages, Zenon
<1>5. ASSUME NEW b \in F \ hit PROVE Extent(b) \cap (s .. (t - 1)) = {}
    <2> SUFFICES ASSUME NEW p \in Extent(b), p \in s .. (t - 1) PROVE FALSE
        OBVIOUS
    <2>1. b \in Block
        BY <1>1, Zenon DEF Sound
    <2>2. b.base \in Nat /\ Pages(b.order) \in Nat /\ p \in Nat /\ b.base <= p /\ p < b.base + Pages(b.order)
        BY <2>1, BlockPages, Zenon
    <2>3. s <= p /\ p < t /\ s < t
        BY <2>2
    <2> QED
        BY <1>2, <2>2, <2>3 DEF Intersects
<1>6. /\ IsFiniteSet(outside) /\ Cardinality(outside) \in Nat /\ n \in Nat /\ k + n \in 0..MAX_BLOCK_DESC
      /\ k + n < MAX_BLOCK_DESC => k < MAX_BLOCK_DESC /\ n = Cardinality(outside)
    <2>1. IsFiniteSet(outside) /\ Cardinality(outside) \in Nat
        BY <1>1, <1>3, FS_Subset, FS_CardinalityType, Zenon
    <2> QED
        BY <1>1, <2>1, PmmAssumption
<1>7. k + n < MAX_BLOCK_DESC => kept = outside
    BY <1>6, FS_Subset, Zenon
<1>8. Extents(F2) \subseteq M2
    <2> HIDE DEF F2, M2
    <2> SUFFICES ASSUME NEW c \in F2, NEW p \in Extent(c) PROVE p \in M2
        BY DEF Extents
    <2> USE DEF F2, M2
    <2>1. CASE c \in F \ hit
        BY <1>1, <1>5, <2>1, Zenon DEF Extents
    <2>2. CASE c \in T
        <3>1. p \in kept
            BY <1>4, <2>2, Zenon DEF Extents
        <3> QED
            BY <1>1, <1>3, <3>1, Zenon
    <2> QED
        BY <2>1, <2>2, Zenon
<1>9. a .. (e - 1) = {}
    BY <1>1
<1>10. M2 \subseteq M /\ a .. (e - 1) \subseteq M2
    BY <1>9, Zenon
<1>11. /\ Extents(T) \subseteq Extents(hit)
       /\ k + n < MAX_BLOCK_DESC => k < MAX_BLOCK_DESC /\ Extents(hit) \cap M2 \subseteq Extents(T)
    BY <1>4, <1>6, <1>7, Zenon
<1> DEFINE N == {}
<1>12. /\ F2 = ((F \cup N \cup N) \ hit) \cup T /\ F2 \cup N \cup N = F2 /\ hit \subseteq F \cup N \cup N
       /\ F2 \cap N = {} /\ N \cap (F2 \cup N) = {} /\ Layout(F, N, N, M, a, e, k)
    BY <1>2, Zenon
<1> HIDE DEF M2, T, N, F2
<1>13. Exchange(F, N, N, hit, T, F2, N, N, M, M2, a, e, k, k + n)
    BY <1>4, <1>6, <1>8, <1>10, <1>11, <1>12, Zenon DEF Exchange
<1>14. Layout(F2, N, N, M2, a, e, k + n)
    BY <1>12, <1>13, Swap, Zenon
<1> QED
    BY <1>14 DEF M2, T, N, F2

----------------------------------------------------------------------------
(* pmm_init.                                                               *)

(* The largest order that fits: a single page always does.                 *)
LEMMA SomeOrderFits ==
    ASSUME addr \in Nat, end \in Nat, addr < end
    PROVE  /\ LargestOrder \in Orders /\ Fits(LargestOrder)
           /\ \A q \in Orders : Fits(q) => q <= LargestOrder
<1>1. Fits(0) /\ 0 \in Orders
    BY PageSizes, PmmAssumption DEF Fits, Aligned, Orders
<1> DEFINE D == {9 - q : q \in {p \in Orders : Fits(p)}}
<1>2. D \subseteq Nat /\ D # {}
    BY <1>1, PmmAssumption DEF Orders
<1> HIDE DEF D
<1>3. PICK x \in D : \A y \in D : ~ (<<y, x>> \in OpToRel(<, Nat))
    BY <1>2, NatLessThanWellFounded, WFMin, Zenon
<1>4. PICK o \in Orders : Fits(o) /\ x = 9 - o
    BY <1>3, Zenon DEF D
<1>5. ASSUME NEW q \in Orders, Fits(q) PROVE q <= o
    <2>1. 9 - q \in D
        BY <1>5, Zenon DEF D
    <2>2. ~(9 - q < 9 - o)
        <3>1. 9 - q \in Nat /\ 9 - o \in Nat
            BY <1>2, <1>3, <1>4, <2>1, Zenon
        <3>2. <<9 - q, 9 - o>> \in Nat \X Nat /\ <<9 - q, 9 - o>>[1] = 9 - q /\ <<9 - q, 9 - o>>[2] = 9 - o
            BY <3>1
        <3>3. ~ (<<9 - q, 9 - o>> \in OpToRel(<, Nat))
            BY <1>3, <1>4, <2>1, Zenon
        <3> QED
            BY <3>2, <3>3 DEF OpToRel
    <2> QED
        BY <1>5, <2>2, PmmAssumption DEF Orders
<1> QED
    BY <1>4, <1>5, Zenon DEF LargestOrder

(* The regions that are left after the first.                              *)
LEMMA AheadTail ==
    ASSUME NEW R, NEW M, Ahead(R, M), R # << >>
    PROVE  /\ Ahead(Tail(R), M \cup RegionPages(Head(R))) /\ Head(R) \in Region
           /\ RegionPages(Head(R)) \cap M = {} /\ RegionPages(Head(R)) \subseteq AllPages
<1>1. R \in Seq(Region) /\ Head(R) = R[1] /\ 1 \in 1..Len(R) /\ Head(R) \in Region /\ Len(R) \in Nat
    BY DEF Ahead
<1>2. Tail(R) \in Seq(Region) /\ Len(Tail(R)) = Len(R) - 1
    BY <1>1
<1>3. ASSUME NEW i \in 1..Len(Tail(R))
      PROVE  Tail(R)[i] = R[i + 1] /\ i + 1 \in 1..Len(R) /\ i + 1 # 1
    BY <1>1, <1>2
<1>4. /\ RegionPages(R[1]) \cap M = {} /\ RegionPages(R[1]) \subseteq AllPages
    BY <1>1 DEF Ahead
<1>5. ASSUME NEW i \in 1..Len(Tail(R))
      PROVE  /\ RegionPages(Tail(R)[i]) \cap (M \cup RegionPages(R[1])) = {}
             /\ RegionPages(Tail(R)[i]) \subseteq AllPages
    BY <1>1, <1>3, Zenon DEF Ahead
<1>6. ASSUME NEW i \in 1..Len(Tail(R)), NEW j \in 1..Len(Tail(R)), i # j
      PROVE  RegionPages(Tail(R)[i]) \cap RegionPages(Tail(R)[j]) = {}
    <2>1. i + 1 # j + 1 /\ i + 1 \in 1..Len(R) /\ j + 1 \in 1..Len(R)
        BY <1>3, <1>6
    <2> QED
        BY <1>3, <2>1, Zenon DEF Ahead
<1> QED
    BY <1>1, <1>2, <1>4, <1>5, <1>6, Zenon DEF Ahead

(* The memory map is read once: nothing is added or lost before that.      *)
LEMMA InitInv == RegionsApart /\ Init => Inv
<1> SUFFICES ASSUME RegionsApart, Init PROVE Inv
    OBVIOUS
<1>1. Hand = {} /\ managed = {} /\ free = {} /\ allocated = {}
    BY DEF Init, Hand
<1>2. Extents({}) = {} /\ Sound({}) /\ {} \cup {} \cup {} = {}
    BY DEF Extents, Sound, Apart
<1>3. addr .. (end - 1) = {} /\ addr \in Nat /\ end \in Nat /\ block_count \in 0..MAX_BLOCK_DESC
    BY PmmAssumption DEF Init
<1>4. Layout({}, {}, {}, {}, addr, end, block_count)
    BY <1>2, <1>3, FS_EmptySet, Zenon DEF Layout, Parts
<1>5. Memory
    BY <1>1, <1>4, Zenon DEF Memory
<1>6. NoBlock \in Block /\ 0 \in Orders
    BY PmmAssumption DEF NoBlock, Block, Orders
<1>7. Locking
    BY <1>6, PmmAssumption DEF Locking, Init
<1>8. Ahead(regions, managed)
    <2>1. regions \in MemMaps /\ regions \in Seq(Region)
        BY PmmAssumption DEF Init
    <2>2. \A i \in 1..Len(regions) : RegionPages(regions[i]) \subseteq AllPages
        <3> DEFINE Of(r) == UNION {RegionPages(r[i]) : i \in 1..Len(r)}
        <3>1. \A i \in 1..Len(regions) : RegionPages(regions[i]) \subseteq Of(regions)
            BY Zenon
        <3> HIDE DEF Of
        <3>2. AllPages = UNION {Of(r) : r \in MemMaps}
            BY DEF AllPages, Of
        <3>3. Of(regions) \subseteq AllPages
            BY <2>1, <3>2, Zenon
        <3> QED
            BY <3>1, <3>3, Zenon
    <2> QED
        BY <1>1, <2>1, <2>2, Zenon DEF Ahead, RegionsApart
<1>9. Booting
    BY <1>8, PmmAssumption, Zenon DEF Booting, Init
<1> QED
    BY <1>5, <1>7, <1>9, Zenon DEF Inv

(* A step that leaves the lock and the block in hand alone.                *)
LEMMA HandKept ==
    ASSUME lock' = lock, cur' = cur
    PROVE  Hand' = Hand
BY Zenon DEF Hand

(* pmm_add_region begins.                                                  *)
LEMMA AddRegionInv == Inv /\ AddRegion => Inv'
<1> SUFFICES ASSUME Inv, AddRegion PROVE Inv'
    BY Zenon
<1> DEFINE h == Head(regions)
<1>1. /\ addr >= end /\ regions # << >> /\ addr' = PageUp(h.base)
      /\ end' = PageUp(h.base) + PageDown(h.size) /\ managed' = managed \cup RegionPages(h)
      /\ regions' = Tail(regions) /\ free' = free /\ allocated' = allocated
      /\ block_count' = block_count /\ reserves' = reserves
      /\ lock' = lock /\ pc' = pc /\ cur' = cur /\ target' = target
    BY DEF AddRegion, pmm_add_region
<1>2. Memory /\ Locking /\ Booting
    BY DEF Inv
<1>3. /\ Ahead(Tail(regions), managed \cup RegionPages(h)) /\ h \in Region
      /\ RegionPages(h) \cap managed = {} /\ RegionPages(h) \subseteq AllPages
    BY <1>1, <1>2, AheadTail, Zenon DEF Booting
<1> HIDE DEF h
<1>4. Memory'
    <2>1. Layout(free, allocated, Hand, managed \cup RegionPages(h), PageUp(h.base),
                 PageUp(h.base) + PageDown(h.size), block_count)
        BY <1>1, <1>2, <1>3, AddRegionLayout, Zenon DEF Memory
    <2> QED
        BY <1>1, <2>1, HandKept, Zenon DEF Memory
<1>5. Locking'
    BY <1>1, <1>2, Zenon DEF Locking
<1>6. Booting'
    BY <1>1, <1>2, <1>3, Zenon DEF Booting
<1> QED
    BY <1>4, <1>5, <1>6, Zenon DEF Inv

(* The loop of pmm_add_region adds a block.                                *)
LEMMA AddBlockInv == Inv /\ AddBlock => Inv'
<1> SUFFICES ASSUME Inv, AddBlock PROVE Inv'
    OBVIOUS
<1> DEFINE o == LargestOrder
           b == [base |-> addr, order |-> o]
<1>1. /\ addr < end /\ addr' = addr + Pages(o) /\ end' = end /\ managed' = managed
      /\ regions' = regions /\ reserves' = reserves /\ allocated' = allocated
      /\ lock' = lock /\ pc' = pc /\ cur' = cur /\ target' = target
    BY Zenon DEF AddBlock
<1>2. \/ block_count < MAX_BLOCK_DESC /\ free' = free \cup {b} /\ block_count' = block_count + 1
      \/ ~(block_count < MAX_BLOCK_DESC) /\ free' = free /\ block_count' = block_count
    BY DEF AddBlock, add_free_block, alloc_block
<1>3. Memory /\ Locking /\ Booting
    BY DEF Inv
<1>4. addr \in Nat /\ end \in Nat
    BY <1>3, Zenon DEF Memory, Layout
<1>5. o \in Orders /\ Pages(o) <= end - addr /\ Aligned(addr, o)
    BY <1>1, <1>4, SomeOrderFits, Zenon DEF Fits
<1> HIDE DEF o
<1>6. Memory'
    <2>1. Layout(free, allocated, Hand, managed, addr, end, block_count)
        BY <1>3, Zenon DEF Memory
    <2>2. b = [base |-> addr, order |-> o]
        BY Zenon
    <2> HIDE DEF b
    <2>3. /\ block_count < MAX_BLOCK_DESC =>
                Layout(free \cup {b}, allocated, Hand, managed, addr + Pages(o), end, block_count + 1)
          /\ ~(block_count < MAX_BLOCK_DESC) =>
                Layout(free, allocated, Hand, managed, addr + Pages(o), end, block_count)
        BY <1>1, <1>5, <2>1, <2>2, AddBlockLayout, Zenon
    <2>4. Layout(free', allocated', Hand', managed', addr', end', block_count')
        BY <1>1, <1>2, <2>3, HandKept, Zenon
    <2> QED
        BY <2>4 DEF Memory
<1>7. Locking'
    BY <1>1, <1>3, Zenon DEF Locking
<1>8. Booting'
    BY <1>1, <1>3, Zenon DEF Booting
<1> QED
    BY <1>6, <1>7, <1>8 DEF Inv

(* pmm_reserve_region.                                                     *)
LEMMA ReserveInv == Inv /\ ReserveRegion => Inv'
<1> SUFFICES ASSUME Inv, ReserveRegion PROVE Inv'
    OBVIOUS
<1>1. /\ addr >= end /\ reserves # << >> /\ reserves' = Tail(reserves) /\ allocated' = allocated
      /\ regions' = regions /\ addr' = addr /\ end' = end
      /\ lock' = lock /\ pc' = pc /\ cur' = cur /\ target' = target
    BY DEF ReserveRegion
<1>2. Memory /\ Locking /\ Booting
    BY DEF Inv
<1>3. Head(reserves) \in Region /\ Tail(reserves) \in Seq(Region)
    BY <1>1, <1>2 DEF Booting
<1>4. PICK r \in Region : pmm_reserve_region(r)
    BY <1>3, Zenon DEF ReserveRegion
<1> DEFINE s == PageUp(r.base)
           t == PageDown(r.base + r.size)
           hit == IF s >= t THEN {} ELSE {b \in free : Intersects(b, s, t)}
           outside == Extents(hit) \ (s .. (t - 1))
           room == MAX_BLOCK_DESC - block_count
           n == IF Cardinality(outside) <= room THEN Cardinality(outside) ELSE room
<1>5. PICK kept \in SUBSET outside :
        /\ Cardinality(kept) = n /\ free' = (free \ hit) \cup Singles(kept)
        /\ block_count' = block_count + n /\ managed' = managed \ (s .. (t - 1))
    BY <1>4, Zenon DEF pmm_reserve_region, Singles
<1>6. s \in Nat /\ t \in Nat
    <2>1. r.base \in Nat /\ r.base + r.size \in Nat
        BY DEF Region
    <2> QED
        BY <2>1, PageNumber, Zenon
<1>7. allocated = {} /\ lock = "none" /\ Hand = {}
    BY <1>1, <1>2, Zenon DEF Booting, Hand
<1>8. Layout(free, {}, {}, managed, addr, end, block_count)
    BY <1>2, <1>7, Zenon DEF Memory
<1> HIDE DEF s, t
<1>9. /\ hit = IF s >= t THEN {} ELSE {b \in free : Intersects(b, s, t)}
      /\ outside = Extents(hit) \ (s .. (t - 1))
      /\ n = IF Cardinality(outside) <= MAX_BLOCK_DESC - block_count
             THEN Cardinality(outside) ELSE MAX_BLOCK_DESC - block_count
    OBVIOUS
<1> HIDE DEF hit, outside, n
<1>10. Layout((free \ hit) \cup Singles(kept), {}, {}, managed \ (s .. (t - 1)), addr, end, block_count + n)
    <2>1. kept \subseteq outside /\ Cardinality(kept) = n
        BY <1>5
    <2> QED
        BY <1>1, <1>6, <1>8, <1>9, <2>1, ReserveLayout, Zenon
<1>11. Memory'
    BY <1>1, <1>5, <1>7, <1>10, HandKept, Zenon DEF Memory
<1>12. Locking'
    BY <1>1, <1>2, Zenon DEF Locking
<1>13. Ahead(regions, managed')
    BY <1>2, <1>5, Zenon DEF Booting, Ahead
<1>14. Booting'
    BY <1>1, <1>2, <1>3, <1>13, Zenon DEF Booting
<1> QED
    BY <1>11, <1>12, <1>14, Zenon DEF Inv

(* pmm_init returns.                                                       *)
LEMMA BootDoneInv == Inv /\ BootDone => Inv'
<1> SUFFICES ASSUME Inv, BootDone PROVE Inv'
    OBVIOUS
<1>1. /\ reserves = << >> /\ pc' = [c \in Cpu |-> "idle"] /\ UNCHANGED bootVars
      /\ free' = free /\ allocated' = allocated /\ block_count' = block_count
      /\ lock' = lock /\ cur' = cur /\ target' = target /\ (\E c \in Cpu : pc[c] = "boot")
    BY Zenon DEF BootDone
<1>2. Memory /\ Locking /\ Booting
    BY DEF Inv
<1>3. /\ regions' = regions /\ reserves' = reserves /\ addr' = addr /\ end' = end /\ managed' = managed
    BY <1>1 DEF bootVars
<1>4. lock = "none"
    BY <1>1, <1>2, Zenon DEF Booting
<1>5. Memory'
    BY <1>1, <1>2, <1>3, HandKept, Zenon DEF Memory
<1>6. \A c \in Cpu : pc'[c] = "idle"
    BY <1>1
<1>7. Locking'
    <2>1. pc' \in [Cpu -> {"boot", "idle", "split", "pcd", "coalesce"}]
        BY <1>1, Zenon
    <2>2. \A c \in Cpu : c # "none" /\ pc'[c] \notin {"split", "coalesce"}
        BY <1>6, PmmAssumption, Zenon
    <2> QED
        BY <1>1, <1>2, <1>4, <2>1, <2>2, Zenon DEF Locking
<1>8. Booting'
    <2>1. \A c \in Cpu : pc'[c] # "boot"
        BY <1>6, Zenon
    <2> QED
        BY <1>1, <1>2, <1>3, <2>1, Zenon DEF Booting
<1> QED
    BY <1>5, <1>7, <1>8 DEF Inv

----------------------------------------------------------------------------
(* pmm_alloc and pmm_free.                                                 *)

\* A CPU that is in an operation goes to pc v with block b in its record and
\* target o, and k is the lock's next holder.
Turn(c, v, b, o, k) ==
    /\ c \in Cpu /\ pc[c] # "boot"
    /\ pc' = [pc EXCEPT ![c] = v] /\ v \in {"idle", "split", "pcd", "coalesce"}
    /\ cur' = [cur EXCEPT ![c] = b] /\ b \in Block
    /\ target' = [target EXCEPT ![c] = o] /\ o \in Orders
    /\ lock' = k /\ k \in {c, "none"} /\ lock \in {c, "none"}
    /\ v \in {"split", "coalesce"} <=> k = c

(* A CPU's turn leaves the others outside the lock, and comes after boot.  *)
LEMMA TurnKeeps ==
    ASSUME Locking, Booting, NEW c, NEW v, NEW b, NEW o, NEW k, Turn(c, v, b, o, k), UNCHANGED bootVars
    PROVE  /\ Locking' /\ Booting' /\ cur'[c] = b
           /\ Hand' = (IF k = c THEN {b} ELSE {})
           /\ managed' = managed /\ addr' = addr /\ end' = end
<1>1. /\ c \in Cpu /\ pc[c] # "boot" /\ c # "none"
      /\ pc' = [pc EXCEPT ![c] = v] /\ v \in {"idle", "split", "pcd", "coalesce"}
      /\ cur' = [cur EXCEPT ![c] = b] /\ b \in Block
      /\ target' = [target EXCEPT ![c] = o] /\ o \in Orders
      /\ lock' = k /\ k \in {c, "none"} /\ lock \in {c, "none"}
    BY PmmAssumption, Zenon DEF Turn
<1>2. /\ pc \in [Cpu -> {"boot", "idle", "split", "pcd", "coalesce"}]
      /\ cur \in [Cpu -> Block] /\ target \in [Cpu -> Orders]
      /\ \A d \in Cpu : pc[d] \in {"split", "coalesce"} <=> lock = d
    BY Zenon DEF Locking
<1>3. /\ pc'[c] = v /\ cur'[c] = b /\ \A d \in Cpu : d # c => pc'[d] = pc[d] /\ cur'[d] = cur[d]
    BY <1>1, <1>2
<1>4. Locking'
    <2>1. /\ pc' \in [Cpu -> {"boot", "idle", "split", "pcd", "coalesce"}]
          /\ cur' \in [Cpu -> Block] /\ target' \in [Cpu -> Orders]
        BY <1>1, <1>2, Zenon
    <2>2. ASSUME NEW d \in Cpu PROVE pc'[d] \in {"split", "coalesce"} <=> lock' = d
        <3>1. CASE d = c
            BY <1>1, <1>3, <3>1, Zenon DEF Turn
        <3>2. CASE d # c
            <4>1. lock # d /\ lock' # d
                BY <1>1, <3>2, PmmAssumption
            <4> QED
                BY <1>2, <1>3, <3>2, <4>1, Zenon
        <3> QED
            BY <3>1, <3>2, Zenon
    <2>3. lock' \in Cpu \cup {"none"}
        BY <1>1, Zenon
    <2> QED
        BY <2>1, <2>2, <2>3, Zenon DEF Locking
<1>5. /\ regions' = regions /\ reserves' = reserves /\ managed' = managed /\ addr' = addr /\ end' = end
    BY DEF bootVars
<1>6. Booting'
    <2>1. reserves = << >> /\ \A d \in Cpu : pc[d] # "boot"
        BY <1>1, Zenon DEF Booting
    <2>2. v # "boot"
        BY <1>1
    <2>3. \A d \in Cpu : pc'[d] # "boot"
        BY <1>3, <2>1, <2>2, Zenon
    <2> QED
        BY <1>5, <2>1, <2>3, Zenon DEF Booting
<1>7. Hand' = (IF k = c THEN {b} ELSE {})
    BY <1>1, <1>3, Zenon DEF Hand
<1> QED
    BY <1>3, <1>4, <1>5, <1>6, <1>7, Zenon

(* pmm_alloc takes a free block in hand.                                   *)
LEMMA AllocInv == ASSUME NEW c \in Cpu, NEW o \in Orders, Inv, pmm_alloc(c, o) PROVE Inv'
<1>1. PICK b \in free : free' = free \ {b} /\ cur' = [cur EXCEPT ![c] = b]
    BY Zenon DEF pmm_alloc, Candidates
<1>2. /\ pc[c] = "idle" /\ lock = "none" /\ lock' = c /\ pc' = [pc EXCEPT ![c] = "split"]
      /\ target' = [target EXCEPT ![c] = o] /\ UNCHANGED bootVars
      /\ allocated' = allocated /\ block_count' = block_count
    BY DEF pmm_alloc
<1>3. Memory /\ Locking /\ Booting
    BY Zenon DEF Inv
<1>4. Layout(free, allocated, {}, managed, addr, end, block_count)
    BY <1>2, <1>3 DEF Memory, Hand
<1>5. b \in Block /\ b \notin allocated
    BY <1>4, Zenon DEF Layout, Parts, Sound
<1>6. Turn(c, "split", b, o, c)
    BY <1>1, <1>2, <1>5, Zenon DEF Turn
<1>7. Layout(free \ {b}, allocated, {b}, managed, addr, end, block_count)
    <2> DEFINE F2 == free \ {b}
               H == {}
               H2 == {b}
    <2>1. /\ F2 \cap allocated = {} /\ H2 \cap (F2 \cup allocated) = {}
          /\ F2 \cup allocated \cup H2 = free \cup allocated \cup H
        BY <1>4, <1>5, Zenon DEF Layout, Parts
    <2>2. Layout(free, allocated, H, managed, addr, end, block_count)
        BY <1>4
    <2> HIDE DEF F2, H, H2
    <2>3. Layout(F2, allocated, H2, managed, addr, end, block_count)
        BY <2>1, <2>2, Move, Zenon
    <2> QED
        BY <2>3, Zenon DEF F2, H2
<1>8. Locking' /\ Booting' /\ Hand' = {b} /\ managed' = managed /\ addr' = addr /\ end' = end
    BY <1>2, <1>3, <1>6, TurnKeeps, Zenon
<1>9. Memory'
    BY <1>1, <1>2, <1>7, <1>8, Zenon DEF Memory
<1> QED
    BY <1>8, <1>9, Zenon DEF Inv

(* Inside an operation the block in hand is the CPU's own.                 *)
LEMMA Holding ==
    ASSUME Inv, NEW c \in Cpu, pc[c] \in {"split", "coalesce"}
    PROVE  /\ lock = c /\ Hand = {cur[c]} /\ cur[c] \in Block /\ target[c] \in Orders
           /\ cur \in [Cpu -> Block] /\ target \in [Cpu -> Orders] /\ pc \in [Cpu -> {"boot", "idle", "split", "pcd", "coalesce"}]
           /\ Layout(free, allocated, {cur[c]}, managed, addr, end, block_count)
<1>1. Locking /\ Memory /\ c # "none"
    BY PmmAssumption, Zenon DEF Inv
<1>2. lock = c
    BY <1>1, Zenon DEF Locking
<1>3. Hand = {cur[c]}
    BY <1>1, <1>2, Zenon DEF Hand
<1>4. /\ cur \in [Cpu -> Block] /\ target \in [Cpu -> Orders]
      /\ pc \in [Cpu -> {"boot", "idle", "split", "pcd", "coalesce"}]
    BY <1>1, Zenon DEF Locking
<1>5. cur[c] \in Block /\ target[c] \in Orders
    BY <1>4, Zenon
<1> QED
    BY <1>1, <1>2, <1>3, <1>4, <1>5, Zenon DEF Memory

(* split_block halves the block in hand.                                   *)
LEMMA SplitInv == ASSUME NEW c \in Cpu, Inv, split_block(c) PROVE Inv'
<1> DEFINE b == cur[c]
           o == b.order - 1
           x == [b EXCEPT !.order = o]
           y == UpperHalf(b, o)
<1>1. /\ pc[c] = "split" /\ b.order > target[c] /\ cur' = [cur EXCEPT ![c].order = o]
      /\ allocated' = allocated /\ lock' = lock /\ pc' = pc /\ target' = target /\ UNCHANGED bootVars
    BY DEF split_block
<1>2. \/ block_count < MAX_BLOCK_DESC /\ free' = free \cup {y} /\ block_count' = block_count + 1
      \/ ~(block_count < MAX_BLOCK_DESC) /\ free' = free /\ block_count' = block_count
    BY DEF split_block, add_free_block, alloc_block
<1>3. /\ lock = c /\ b \in Block /\ target[c] \in Orders
      /\ cur \in [Cpu -> Block] /\ target \in [Cpu -> Orders]
      /\ pc \in [Cpu -> {"boot", "idle", "split", "pcd", "coalesce"}]
      /\ Layout(free, allocated, {b}, managed, addr, end, block_count)
    BY <1>1, Holding, Zenon
<1>4. o \in Orders /\ b.order = o + 1
    BY <1>1, <1>3, PmmAssumption, SMTT(30) DEF Block, Orders
<1>5. cur' = [cur EXCEPT ![c] = x]
    BY <1>1, <1>3
<1>6. pc' = [pc EXCEPT ![c] = "split"] /\ target' = [target EXCEPT ![c] = target[c]]
    BY <1>1, <1>3
<1>7. x \in Block
    BY <1>3, <1>4 DEF Block
<1>8. x = [b EXCEPT !.order = o] /\ y = UpperHalf(b, o)
    OBVIOUS
<1> HIDE DEF b, o, x, y
<1>9. Turn(c, "split", x, target[c], c)
    BY <1>1, <1>3, <1>5, <1>6, <1>7, Zenon DEF Turn
<1>10. /\ block_count < MAX_BLOCK_DESC =>
             Layout(free \cup {y}, allocated, {x}, managed, addr, end, block_count + 1)
       /\ ~(block_count < MAX_BLOCK_DESC) =>
             Layout(free, allocated, {x}, managed, addr, end, block_count)
    BY <1>3, <1>4, <1>8, SplitLayout, Zenon
<1>11. Locking' /\ Booting' /\ Hand' = {x} /\ managed' = managed /\ addr' = addr /\ end' = end
    BY <1>1, <1>9, TurnKeeps, Zenon DEF Inv
<1>12. Memory'
    BY <1>1, <1>2, <1>10, <1>11, Zenon DEF Memory
<1> QED
    BY <1>11, <1>12, Zenon DEF Inv

(* coalesce_block takes the buddy up.                                      *)
LEMMA CoalesceInv == ASSUME NEW c \in Cpu, Inv, coalesce_block(c) PROVE Inv'
<1> DEFINE b == cur[c]
           d == Buddy(b)
           u == [base |-> Lower(b.base, d.base), order |-> b.order + 1]
<1>1. /\ pc[c] = "coalesce" /\ b.order < MAX_ORDER /\ d \in free /\ free' = free \ {d}
      /\ allocated' = allocated /\ block_count' = block_count /\ lock' = lock /\ pc' = pc
      /\ target' = target /\ UNCHANGED bootVars
    BY Zenon DEF coalesce_block, CanCoalesce
<1>2. /\ lock = c /\ b \in Block /\ target[c] \in Orders
      /\ cur \in [Cpu -> Block] /\ target \in [Cpu -> Orders]
      /\ pc \in [Cpu -> {"boot", "idle", "split", "pcd", "coalesce"}]
      /\ Layout(free, allocated, {b}, managed, addr, end, block_count)
    BY <1>1, Holding, Zenon
<1>3. cur' = [cur EXCEPT ![c] = u]
    BY <1>2, Zenon DEF coalesce_block
<1>4. pc' = [pc EXCEPT ![c] = "coalesce"] /\ target' = [target EXCEPT ![c] = target[c]]
    BY <1>1, <1>2, Zenon
<1>5. d \in Block /\ u \in Block
    <2>1. Aligned(b.base, b.order)
        BY <1>2, Zenon DEF Layout, Parts, Sound
    <2>2. Sound({u})
        BY <1>1, <1>2, <2>1, Union, Zenon
    <2>3. d \in Block
        BY <1>1, <1>2, Zenon DEF Layout, Parts, Sound
    <2> QED
        BY <2>2, <2>3, Zenon DEF Sound
<1>6. d = Buddy(b) /\ u = [base |-> Lower(b.base, d.base), order |-> b.order + 1]
    OBVIOUS
<1> HIDE DEF b, d, u
<1>7. Turn(c, "coalesce", u, target[c], c)
    BY <1>1, <1>2, <1>3, <1>4, <1>5, Zenon DEF Turn
<1>8. Layout(free \ {d}, allocated, {u}, managed, addr, end, block_count)
    BY <1>1, <1>2, <1>6, MergeLayout, Zenon
<1>9. Locking' /\ Booting' /\ Hand' = {u} /\ managed' = managed /\ addr' = addr /\ end' = end
    BY <1>1, <1>7, TurnKeeps, Zenon DEF Inv
<1>10. Memory'
    BY <1>1, <1>8, <1>9, Zenon DEF Memory
<1> QED
    BY <1>9, <1>10 DEF Inv

(* The block in hand goes to the allocated blocks.                         *)
LEMMA AllocDoneInv == ASSUME NEW c \in Cpu, Inv, AllocDone(c) PROVE Inv'
<1> DEFINE b == cur[c]
<1>1. /\ pc[c] = "split" /\ allocated' = allocated \cup {b} /\ lock' = "none"
      /\ pc' = [pc EXCEPT ![c] = "pcd"] /\ free' = free /\ block_count' = block_count
      /\ cur' = cur /\ target' = target /\ UNCHANGED bootVars
    BY DEF AllocDone
<1>2. /\ lock = c /\ b \in Block /\ target[c] \in Orders
      /\ cur \in [Cpu -> Block] /\ target \in [Cpu -> Orders]
      /\ Layout(free, allocated, {b}, managed, addr, end, block_count)
    BY <1>1, Holding, Zenon
<1>3. cur' = [cur EXCEPT ![c] = b] /\ target' = [target EXCEPT ![c] = target[c]]
    BY <1>1, <1>2, Zenon
<1>4. c # "none"
    BY PmmAssumption
<1> HIDE DEF b
<1>5. Turn(c, "pcd", b, target[c], "none")
    BY <1>1, <1>2, <1>3, <1>4, Zenon DEF Turn
<1>6. Layout(free, allocated \cup {b}, {}, managed, addr, end, block_count)
    <2> DEFINE A2 == allocated \cup {b}
               H == {b}
               H2 == {}
    <2>1. /\ free \cap A2 = {} /\ H2 \cap (free \cup A2) = {}
          /\ free \cup A2 \cup H2 = free \cup allocated \cup H
        BY <1>2, Zenon DEF Layout, Parts
    <2>2. Layout(free, allocated, H, managed, addr, end, block_count)
        BY <1>2
    <2> HIDE DEF A2, H, H2
    <2>3. Layout(free, A2, H2, managed, addr, end, block_count)
        BY <2>1, <2>2, Move, Zenon
    <2> QED
        BY <2>3, Zenon DEF A2, H2
<1>7. Locking' /\ Booting' /\ Hand' = {} /\ managed' = managed /\ addr' = addr /\ end' = end
    <2>1. Locking /\ Booting /\ UNCHANGED bootVars
        BY <1>1 DEF Inv
    <2>2. /\ Locking' /\ Booting' /\ managed' = managed /\ addr' = addr /\ end' = end
          /\ Hand' = IF "none" = c THEN {b} ELSE {}
        BY <1>5, <2>1, TurnKeeps, Zenon
    <2> QED
        BY <1>4, <2>2, Zenon
<1>8. Memory'
    BY <1>1, <1>6, <1>7, Zenon DEF Memory
<1> QED
    BY <1>7, <1>8, Zenon DEF Inv

(* pmm_free takes an allocated block in hand.                              *)
LEMMA FreeInv == ASSUME NEW c \in Cpu, NEW b, Inv, pmm_free(c, b) PROVE Inv'
<1>1. /\ pc[c] = "idle" /\ lock = "none" /\ lock' = c /\ pc' = [pc EXCEPT ![c] = "coalesce"]
      /\ allocated' = allocated \ {b} /\ cur' = [cur EXCEPT ![c] = b] /\ free' = free
      /\ block_count' = block_count /\ target' = target /\ UNCHANGED bootVars /\ b \in allocated
    BY DEF pmm_free, Returned
<1>2. Memory /\ Locking /\ Booting
    BY Zenon DEF Inv
<1>3. Layout(free, allocated, {}, managed, addr, end, block_count)
    BY <1>1, <1>2, Zenon DEF Memory, Hand
<1>4. b \in Block /\ b \notin free
    BY <1>1, <1>3, Zenon DEF Layout, Parts, Sound
<1>5. target[c] \in Orders /\ target' = [target EXCEPT ![c] = target[c]]
    BY <1>1, <1>2, Zenon DEF Locking
<1>6. Turn(c, "coalesce", b, target[c], c)
    BY <1>1, <1>4, <1>5, Zenon DEF Turn
<1>7. Layout(free, allocated \ {b}, {b}, managed, addr, end, block_count)
    <2> DEFINE A2 == allocated \ {b}
               H == {}
               H2 == {b}
    <2>1. /\ free \cap A2 = {} /\ H2 \cap (free \cup A2) = {}
          /\ free \cup A2 \cup H2 = free \cup allocated \cup H
        BY <1>1, <1>3, <1>4, Zenon DEF Layout, Parts
    <2>2. Layout(free, allocated, H, managed, addr, end, block_count)
        BY <1>3
    <2> HIDE DEF A2, H, H2
    <2>3. Layout(free, A2, H2, managed, addr, end, block_count)
        BY <2>1, <2>2, Move, Zenon
    <2> QED
        BY <2>3, Zenon DEF A2, H2
<1>8. Locking' /\ Booting' /\ Hand' = {b} /\ managed' = managed /\ addr' = addr /\ end' = end
    BY <1>1, <1>2, <1>6, TurnKeeps, Zenon
<1>9. Memory'
    BY <1>1, <1>7, <1>8, Zenon DEF Memory
<1> QED
    BY <1>8, <1>9, Zenon DEF Inv

(* The block in hand goes to the free blocks.                              *)
LEMMA FreeDoneInv == ASSUME NEW c \in Cpu, Inv, FreeDone(c) PROVE Inv'
<1> DEFINE b == cur[c]
<1>1. /\ pc[c] = "coalesce" /\ free' = free \cup {b} /\ lock' = "none"
      /\ pc' = [pc EXCEPT ![c] = "idle"] /\ allocated' = allocated /\ block_count' = block_count
      /\ cur' = [cur EXCEPT ![c] = NoBlock] /\ target' = target /\ UNCHANGED bootVars
    BY DEF FreeDone
<1>2. /\ lock = c /\ target[c] \in Orders /\ target \in [Cpu -> Orders]
      /\ Layout(free, allocated, {b}, managed, addr, end, block_count)
    BY <1>1, Holding, Zenon
<1>3. target' = [target EXCEPT ![c] = target[c]] /\ NoBlock \in Block
    BY <1>1, <1>2, PmmAssumption DEF NoBlock, Block, Orders
<1>4. c # "none"
    BY PmmAssumption
<1> HIDE DEF b
<1>5. Turn(c, "idle", NoBlock, target[c], "none")
    BY <1>1, <1>2, <1>3, <1>4, Zenon DEF Turn
<1>6. Layout(free \cup {b}, allocated, {}, managed, addr, end, block_count)
    <2> DEFINE F2 == free \cup {b}
               H == {b}
               H2 == {}
    <2>1. /\ F2 \cap allocated = {} /\ H2 \cap (F2 \cup allocated) = {}
          /\ F2 \cup allocated \cup H2 = free \cup allocated \cup H
        BY <1>2, Zenon DEF Layout, Parts
    <2>2. Layout(free, allocated, H, managed, addr, end, block_count)
        BY <1>2
    <2> HIDE DEF F2, H, H2
    <2>3. Layout(F2, allocated, H2, managed, addr, end, block_count)
        BY <2>1, <2>2, Move, Zenon
    <2> QED
        BY <2>3, Zenon DEF F2, H2
<1>7. Locking' /\ Booting' /\ Hand' = {} /\ managed' = managed /\ addr' = addr /\ end' = end
    BY <1>1, <1>4, <1>5, TurnKeeps, ZenonT(30) DEF Inv
<1>8. Memory'
    BY <1>1, <1>6, <1>7, Zenon DEF Memory
<1> QED
    BY <1>7, <1>8 DEF Inv

(* pmm_alloc returns the block: it holds no lock, and another CPU may be   *)
(* inside an operation.                                                    *)
LEMMA ReturnInv == ASSUME NEW c \in Cpu, Inv, AllocReturn(c) PROVE Inv'
<1>1. /\ pc[c] = "pcd" /\ pc' = [pc EXCEPT ![c] = "idle"] /\ cur' = [cur EXCEPT ![c] = NoBlock]
      /\ target' = [target EXCEPT ![c] = 0] /\ free' = free /\ allocated' = allocated
      /\ block_count' = block_count /\ UNCHANGED bootVars /\ lock' = lock
    BY DEF AllocReturn
<1>2. Memory /\ Locking /\ Booting
    BY DEF Inv
<1>3. /\ lock \in Cpu \cup {"none"}
      /\ pc \in [Cpu -> {"boot", "idle", "split", "pcd", "coalesce"}]
      /\ cur \in [Cpu -> Block] /\ target \in [Cpu -> Orders]
      /\ \A d \in Cpu : pc[d] \in {"split", "coalesce"} <=> lock = d
    BY <1>2, Zenon DEF Locking
<1>4. lock # c
    <2>1. pc[c] \notin {"split", "coalesce"}
        BY <1>1, Zenon
    <2> QED
        BY <1>3, <2>1, Zenon
<1>5. /\ pc'[c] = "idle" /\ \A d \in Cpu : d # c => pc'[d] = pc[d] /\ cur'[d] = cur[d]
    BY <1>1, <1>3
<1>6. Locking'
    <2>1. /\ pc' \in [Cpu -> {"boot", "idle", "split", "pcd", "coalesce"}]
          /\ cur' \in [Cpu -> Block] /\ target' \in [Cpu -> Orders]
        BY <1>1, <1>3, PmmAssumption DEF NoBlock, Block, Orders
    <2>2. pc'[c] \notin {"split", "coalesce"}
        BY <1>5
    <2>3. ASSUME NEW d \in Cpu PROVE pc'[d] \in {"split", "coalesce"} <=> lock' = d
        BY <1>1, <1>3, <1>4, <1>5, <2>2, Zenon
    <2> QED
        BY <1>1, <1>3, <2>1, <2>3, Zenon DEF Locking
<1>7. /\ regions' = regions /\ reserves' = reserves /\ managed' = managed /\ addr' = addr /\ end' = end
    BY <1>1 DEF bootVars
<1>8. Booting'
    <2>1. reserves = << >> /\ \A d \in Cpu : pc[d] # "boot"
        <3>1. pc[c] # "boot"
            BY <1>1, Zenon
        <3> QED
            BY <1>2, <3>1, Zenon DEF Booting
    <2>2. \A d \in Cpu : pc'[d] # "boot"
        BY <1>5, <2>1, Zenon
    <2> QED
        BY <1>2, <1>7, <2>1, <2>2, Zenon DEF Booting
<1>9. Hand' = Hand
    BY <1>1, <1>3, <1>4, <1>5, Zenon DEF Hand
<1>10. Memory'
    BY <1>1, <1>2, <1>7, <1>9, Zenon DEF Memory
<1> QED
    BY <1>6, <1>8, <1>10 DEF Inv

(* Every step of the PMM keeps the invariant.                              *)
LEMMA StepInv == Inv /\ [Next]_vars => Inv'
<1> SUFFICES ASSUME Inv, [Next]_vars PROVE Inv'
    OBVIOUS
<1>1. ASSUME UNCHANGED <<free, allocated, block_count, bootVars, lock, pc, cur, target>> PROVE Inv'
    <2>1. /\ free' = free /\ allocated' = allocated /\ block_count' = block_count /\ lock' = lock
          /\ pc' = pc /\ cur' = cur /\ target' = target /\ regions' = regions /\ reserves' = reserves
          /\ managed' = managed /\ addr' = addr /\ end' = end
        BY <1>1 DEF bootVars
    <2>2. Memory'
        BY <2>1, HandKept, Zenon DEF Inv, Memory
    <2>3. Locking' /\ Booting'
        BY <2>1, Zenon DEF Inv, Locking, Booting
    <2> QED
        BY <2>2, <2>3, Zenon DEF Inv
<1>2. CASE UNCHANGED vars
    BY <1>1, <1>2, Zenon DEF vars, bootVars
<1>3. CASE AddRegion \/ AddBlock \/ ReserveRegion \/ BootDone
    BY <1>3, AddRegionInv, AddBlockInv, ReserveInv, BootDoneInv, Zenon
<1>4. ASSUME NEW c \in Cpu, NEW o \in Orders, pmm_alloc(c, o) \/ OutOfMemory(c, o) PROVE Inv'
    <2>1. CASE pmm_alloc(c, o)
        BY <2>1, AllocInv, Zenon
    <2>2. CASE OutOfMemory(c, o)
        BY <1>2, <2>2, Zenon DEF OutOfMemory
    <2> QED
        BY <1>4, <2>1, <2>2, Zenon
<1>5. ASSUME NEW c \in Cpu, NEW b \in allocated, pmm_free(c, b) PROVE Inv'
    BY <1>5, FreeInv, Zenon
<1>6. ASSUME NEW c \in Cpu, Operation(c) PROVE Inv'
    <2>1. CASE MarkPage(c)
        BY <1>1, <2>1, Zenon DEF MarkPage
    <2> QED
        BY <1>6, <2>1, SplitInv, AllocDoneInv, ReturnInv, CoalesceInv, FreeDoneInv, Zenon DEF Operation
<1>7. ASSUME NEW b \in allocated, NEW p \in Extent(b), pcd_set_type(b, p) PROVE Inv'
    BY <1>1, <1>7, Zenon DEF pcd_set_type
<1> QED
    BY <1>2, <1>3, <1>4, <1>5, <1>6, <1>7, Zenon DEF Next

LEMMA Always == RegionsApart => (Spec => []Inv)
<1> SUFFICES ASSUME RegionsApart PROVE Spec => []Inv
    OBVIOUS
<1>1. Init => Inv
    BY InitInv
<1> QED
    BY <1>1, StepInv, PTL DEF Spec

(* The blocks of a layout are disjoint, and as many as there are pages.    *)
LEMMA InvGives == Inv => BlocksDisjoint /\ PagesConserved
<1> SUFFICES ASSUME Inv PROVE BlocksDisjoint /\ PagesConserved
    OBVIOUS
<1>1. InHand = Hand /\ Blocks = free \cup allocated \cup Hand
    BY HandIs, Zenon DEF Inv, Blocks
<1>2. Layout(free, allocated, Hand, managed, addr, end, block_count)
    BY DEF Inv, Memory
<1>3. BlocksDisjoint
    BY <1>1, <1>2, Zenon DEF BlocksDisjoint, Layout, Parts, Sound, Apart
<1>4. addr >= end => addr .. (end - 1) = {}
    <2>1. addr \in Nat /\ end \in Nat
        BY <1>2, Zenon DEF Layout
    <2> QED
        BY <2>1
<1>5. PagesConserved
    BY <1>1, <1>2, <1>4, Zenon DEF PagesConserved, Layout
<1> QED
    BY <1>3, <1>5, Zenon

(***************************************************************************)
(* The buddy allocator never hands out a page twice, for every number of   *)
(* CPUs, memory map and set of reservations (kernel/pmm.c): the free       *)
(* blocks, the allocated blocks and the block in hand are aligned to their *)
(* size and share no page.                                                 *)
(***************************************************************************)
THEOREM NoPageTwice == RegionsApart => (Spec => []BlocksDisjoint)
<1> SUFFICES ASSUME RegionsApart PROVE Spec => []BlocksDisjoint
    OBVIOUS
<1>1. Spec => []Inv
    BY Always
<1> QED
    BY <1>1, InvGives, PTL

(***************************************************************************)
(* No page is invented, and none is lost while descriptors are left: the   *)
(* blocks are then exactly the pages that pmm_add_region added and         *)
(* pmm_reserve_region did not take.                                        *)
(***************************************************************************)
THEOREM NoPageLost == RegionsApart => (Spec => []PagesConserved)
<1> SUFFICES ASSUME RegionsApart PROVE Spec => []PagesConserved
    OBVIOUS
<1>1. Spec => []Inv
    BY Always
<1> QED
    BY <1>1, InvGives, PTL

----------------------------------------------------------------------------
(* What pmm_alloc returns.                                                 *)

\* The blocks whose pages pmm_alloc has still to mark.
Pending == {cur[c] : c \in {d \in Cpu : pc[d] = "pcd"}}
\* The pages of blocks that a step returns are NK_NORMAL after it, and those
\* of blocks that stay with their owner keep the type the owner gave them.
Fresh == \A b \in Returned' \ Returned : \A p \in Extent(b) : pcd'[p] = "NK_NORMAL"
Private ==
    \A b \in Returned' \cap Returned : \A p \in Extent(b) : pcd[p] = "other" => pcd'[p] = "other"
FreshAndPrivate ==
    /\ \A b \in Returned' \ Returned : \A p \in Extent(b) : pcd'[p] = "NK_NORMAL"
    /\ \A b \in Returned' \cap Returned : \A p \in Extent(b) :
          pcd[p] = "other" => pcd'[p] = "other"

\* The first n pages of a block are NK_NORMAL in T.
MarkedUpTo(b, n, T) == \A p \in Extent(b) : p < b.base + n => T[p] = "NK_NORMAL"
\* What the loops of pmm_alloc have done so far, each on a block of its own.
Marking ==
    /\ mark \in [Cpu -> Nat] /\ DOMAIN pcd = AllPages
    /\ \A c \in Cpu : pc[c] # "pcd" => mark[c] = 0
    /\ \A c \in Cpu : pc[c] = "pcd" => cur[c] \in allocated /\ MarkedUpTo(cur[c], mark[c], pcd)
    /\ \A c, d \in Cpu : pc[c] = "pcd" /\ pc[d] = "pcd" /\ c # d => cur[c] # cur[d]

(* The pages of an allocated block are known to the page control data, and *)
(* are in no other allocated block.                                        *)
LEMMA AllocatedPages ==
    ASSUME Inv, NEW b \in allocated
    PROVE  /\ b \in Block /\ Extent(b) \subseteq AllPages
           /\ \A d \in allocated : d # b => Extent(b) \cap Extent(d) = {}
<1>1. Layout(free, allocated, Hand, managed, addr, end, block_count)
    BY DEF Inv, Memory
<1>2. Extent(b) \subseteq Extents(free \cup allocated \cup Hand)
    BY Zenon DEF Extents
<1> QED
    BY <1>1, <1>2, Zenon DEF Layout, Parts, Sound, Apart

(* A step of a CPU that is not marking leaves the loops of the others as   *)
(* they are, unless it frees one of their blocks.                          *)
LEMMA MarkingKept ==
    ASSUME Marking, pcd' = pcd, mark' = mark, NEW c \in Cpu, pc[c] # "pcd",
           NEW v, v # "pcd", DOMAIN pc = Cpu, pc' = [pc EXCEPT ![c] = v],
           NEW b, DOMAIN cur = Cpu, cur' = [cur EXCEPT ![c] = b],
           \A x \in Pending : x \in allocated => x \in allocated'
    PROVE  Marking'
<1>1. pc'[c] = v /\ \A d \in Cpu : d # c => pc'[d] = pc[d] /\ cur'[d] = cur[d]
    BY Zenon
<1>2. ASSUME NEW d \in Cpu, pc'[d] = "pcd" PROVE d # c /\ pc[d] = "pcd" /\ cur'[d] = cur[d]
    BY <1>1, <1>2, Zenon
<1>3. \A d \in Cpu : pc'[d] # "pcd" => mark'[d] = 0
    BY <1>1, Zenon DEF Marking
<1>4. ASSUME NEW d \in Cpu, pc'[d] = "pcd"
      PROVE  cur'[d] \in allocated' /\ MarkedUpTo(cur'[d], mark'[d], pcd')
    <2>1. pc[d] = "pcd" /\ cur'[d] = cur[d]
        BY <1>2, <1>4, Zenon
    <2>2. cur[d] \in allocated /\ MarkedUpTo(cur[d], mark[d], pcd)
        BY <2>1, Zenon DEF Marking
    <2>3. cur[d] \in Pending
        BY <2>1, Zenon DEF Pending
    <2> QED
        BY <2>1, <2>2, <2>3, Zenon
<1>5. \A d, e \in Cpu : pc'[d] = "pcd" /\ pc'[e] = "pcd" /\ d # e => cur'[d] # cur'[e]
    BY <1>2, Zenon DEF Marking
<1> QED
    BY <1>3, <1>4, <1>5, Zenon DEF Marking

(* split_block ends: the loop starts, on a block that nobody else has.     *)
LEMMA MarkingStarts == ASSUME NEW c \in Cpu, Inv, Marking, AllocDone(c) PROVE Marking'
<1>1. /\ pc[c] = "split" /\ allocated' = allocated \cup {cur[c]} /\ pc' = [pc EXCEPT ![c] = "pcd"]
      /\ cur' = cur /\ pcd' = pcd /\ mark' = mark
    BY DEF AllocDone
<1>2. /\ DOMAIN pc = Cpu /\ cur[c] \in Block
      /\ Layout(free, allocated, {cur[c]}, managed, addr, end, block_count)
    BY <1>1, Holding
<1>3. cur[c] \notin allocated
    BY <1>2, Zenon DEF Layout, Parts
<1>4. pc'[c] = "pcd" /\ \A d \in Cpu : d # c => pc'[d] = pc[d]
    BY <1>1, <1>2, Zenon
<1>5. MarkedUpTo(cur[c], mark[c], pcd)
    <2>1. mark[c] = 0
        BY <1>1, Zenon DEF Marking
    <2>2. \A p \in Extent(cur[c]) : p \in Nat /\ cur[c].base \in Nat /\ cur[c].base <= p
        BY <1>2, BlockPages
    <2>3. \A p \in Nat, a \in Nat : a <= p => ~(p < a + 0)
        OBVIOUS
    <2> QED
        BY <2>1, <2>2, <2>3, Zenon DEF MarkedUpTo
<1>6. ASSUME NEW d \in Cpu, d # c, pc'[d] = "pcd" PROVE cur[d] \in allocated /\ cur[d] # cur[c]
    BY <1>3, <1>4, <1>6, Zenon DEF Marking
<1>7. \A d \in Cpu : pc'[d] # "pcd" => mark'[d] = 0
    BY <1>1, <1>4, Zenon DEF Marking
<1>8. \A d \in Cpu : pc'[d] = "pcd" => cur'[d] \in allocated' /\ MarkedUpTo(cur'[d], mark'[d], pcd')
    BY <1>1, <1>4, <1>5, Zenon DEF Marking
<1>9. ASSUME NEW d \in Cpu, NEW e \in Cpu, pc'[d] = "pcd", pc'[e] = "pcd", d # e PROVE cur'[d] # cur'[e]
    BY <1>1, <1>4, <1>6, <1>9, Zenon DEF Marking
<1> QED
    BY <1>1, <1>7, <1>8, <1>9, Zenon DEF Marking

(* One iteration of the loop: it stays inside its own block.               *)
LEMMA MarkStep == ASSUME NEW c \in Cpu, Inv, Marking, MarkPage(c) PROVE Marking' /\ Fresh /\ Private
<1> DEFINE b == cur[c]
           n == b.base + mark[c]
<1>1. /\ pc[c] = "pcd" /\ mark[c] < Pages(b.order) /\ pcd' = [pcd EXCEPT ![n] = "NK_NORMAL"]
      /\ mark' = [mark EXCEPT ![c] = @ + 1] /\ pc' = pc /\ cur' = cur /\ allocated' = allocated
    BY DEF MarkPage, Unmarked
<1>2. b \in allocated /\ MarkedUpTo(b, mark[c], pcd) /\ mark[c] \in Nat /\ DOMAIN mark = Cpu
    BY <1>1 DEF Marking
<1>3. b \in Block /\ Extent(b) \subseteq AllPages /\ \A d \in allocated : d # b => Extent(b) \cap Extent(d) = {}
    BY <1>2, AllocatedPages, Zenon
<1>4. n \in Extent(b) /\ n \in AllPages /\ b.base \in Nat /\ n \in Nat
    <2>1. b.base \in Nat /\ Pages(b.order) \in Nat
          /\ \A p \in Nat : p \in Extent(b) <=> b.base <= p /\ p < b.base + Pages(b.order)
        BY <1>3, BlockPages, Zenon
    <2>2. n \in Nat /\ b.base <= n /\ n < b.base + Pages(b.order)
        BY <1>1, <1>2, <2>1
    <2> QED
        BY <1>3, <2>1, <2>2, Zenon
<1>5. DOMAIN pcd = AllPages
    BY Zenon DEF Marking
<1>6. pcd'[n] = "NK_NORMAL" /\ \A p \in AllPages : p # n => pcd'[p] = pcd[p]
    BY <1>1, <1>4, <1>5, Zenon
<1>7. mark'[c] = mark[c] + 1 /\ mark' \in [Cpu -> Nat] /\ \A d \in Cpu : d # c => mark'[d] = mark[d]
    BY <1>1, <1>2 DEF Marking
<1>8. MarkedUpTo(b, mark'[c], pcd')
    <2> SUFFICES ASSUME NEW p \in Extent(b), p < b.base + (mark[c] + 1) PROVE pcd'[p] = "NK_NORMAL"
        BY <1>7, Zenon DEF MarkedUpTo
    <2>1. p \in Nat /\ p \in AllPages
        BY <1>3, BlockPages, Zenon
    <2>2. p = n \/ p < b.base + mark[c]
        BY <1>2, <1>4, <2>1
    <2> QED
        BY <1>2, <1>6, <2>1, <2>2, Zenon DEF MarkedUpTo
<1> HIDE DEF n
<1>9. ASSUME NEW d \in Cpu, d # c, pc[d] = "pcd" PROVE MarkedUpTo(cur[d], mark'[d], pcd')
    <2>1. cur[d] \in allocated /\ MarkedUpTo(cur[d], mark[d], pcd)
        BY <1>9, Zenon DEF Marking
    <2>2. Extent(cur[d]) \subseteq AllPages
        BY <2>1, AllocatedPages, Zenon
    <2> QED
        BY <1>6, <1>7, <1>9, <2>1, <2>2, Zenon DEF MarkedUpTo
<1>10. Marking'
    <2>1. DOMAIN pcd' = AllPages
        BY <1>1, <1>5, Zenon
    <2>2. \A d \in Cpu : pc'[d] # "pcd" => mark'[d] = 0
        BY <1>1, <1>7, Zenon DEF Marking
    <2>3. \A d \in Cpu : pc'[d] = "pcd" => cur'[d] \in allocated' /\ MarkedUpTo(cur'[d], mark'[d], pcd')
        BY <1>1, <1>8, <1>9, Zenon DEF Marking
    <2> QED
        BY <1>1, <1>7, <2>1, <2>2, <2>3, Zenon DEF Marking
<1>11. Returned' = Returned
    BY <1>1, Zenon DEF Returned
<1>12. Private
    <2> SUFFICES ASSUME NEW x \in Returned, NEW p \in Extent(x) PROVE pcd'[p] = pcd[p]
        BY Zenon DEF Private
    <2>1. x \in allocated /\ x # b
        BY <1>1, Zenon DEF Returned
    <2>2. p # n /\ p \in AllPages
        BY <1>3, <1>4, <2>1, AllocatedPages, Zenon
    <2> QED
        BY <1>6, <2>2, Zenon
<1> QED
    BY <1>10, <1>11, <1>12, Zenon DEF Fresh

(* pmm_alloc returns a block all of whose pages are marked.                *)
LEMMA ReturnFresh ==
    ASSUME NEW c \in Cpu, Inv, Marking, AllocReturn(c)
    PROVE  Marking' /\ Fresh /\ Private
<1>1. /\ pc[c] = "pcd" /\ ~(mark[c] < Pages(cur[c].order)) /\ pc' = [pc EXCEPT ![c] = "idle"]
      /\ cur' = [cur EXCEPT ![c] = NoBlock] /\ mark' = [mark EXCEPT ![c] = 0]
      /\ allocated' = allocated /\ pcd' = pcd
    BY DEF AllocReturn, Unmarked
<1>2. DOMAIN pc = Cpu /\ DOMAIN cur = Cpu /\ mark \in [Cpu -> Nat]
    BY DEF Inv, Locking, Marking
<1>3. /\ pc'[c] = "idle" /\ mark'[c] = 0 /\ mark' \in [Cpu -> Nat]
      /\ \A d \in Cpu : d # c => pc'[d] = pc[d] /\ cur'[d] = cur[d] /\ mark'[d] = mark[d]
    BY <1>1, <1>2
<1>4. Marking'
    <2>1. \A d \in Cpu : pc'[d] = "pcd" => d # c
        BY <1>3
    <2>2. ASSUME NEW d \in Cpu, pc'[d] # "pcd" PROVE mark'[d] = 0
        <3>1. d # c => pc[d] # "pcd" /\ mark'[d] = mark[d]
            BY <1>3, <2>2, Zenon
        <3> QED
            BY <1>3, <3>1, Zenon DEF Marking
    <2>3. ASSUME NEW d \in Cpu, pc'[d] = "pcd"
          PROVE  d # c /\ pc[d] = "pcd" /\ cur'[d] = cur[d] /\ mark'[d] = mark[d]
        BY <1>3, <2>1, <2>3, Zenon
    <2>4. ASSUME NEW d \in Cpu, pc'[d] = "pcd"
          PROVE  cur'[d] \in allocated' /\ MarkedUpTo(cur'[d], mark'[d], pcd')
        <3>1. pc[d] = "pcd" /\ cur'[d] = cur[d] /\ mark'[d] = mark[d]
            BY <2>3, <2>4, Zenon
        <3>2. cur[d] \in allocated /\ MarkedUpTo(cur[d], mark[d], pcd)
            BY <3>1, Zenon DEF Marking
        <3>3. pcd' = pcd /\ allocated' = allocated
            BY <1>1, Zenon
        <3> QED
            BY <3>1, <3>2, <3>3, Zenon
    <2>5. \A d, e \in Cpu : pc'[d] = "pcd" /\ pc'[e] = "pcd" /\ d # e => cur'[d] # cur'[e]
        BY <2>3, Zenon DEF Marking
    <2>6. DOMAIN pcd' = AllPages
        BY <1>1, Zenon DEF Marking
    <2> QED
        BY <1>3, <2>2, <2>4, <2>5, <2>6, Zenon DEF Marking
<1>5. Private
    BY <1>1, Zenon DEF Private
<1>6. Fresh
    <2> SUFFICES ASSUME NEW b \in Returned', b \notin Returned, NEW p \in Extent(b)
                 PROVE  pcd'[p] = "NK_NORMAL"
        BY Zenon DEF Fresh
    <2>1. b \in allocated /\ b \in Pending /\ b \notin Pending'
        BY <1>1, Zenon DEF Returned, Pending
    <2>2. PICK d \in Cpu : pc[d] = "pcd" /\ b = cur[d]
        BY <2>1, Zenon DEF Pending
    <2>3. d = c
        <3> SUFFICES ASSUME d # c PROVE FALSE
            BY Zenon
        <3>1. pc'[d] = pc[d] /\ cur'[d] = cur[d]
            BY <1>3, Zenon
        <3> QED
            BY <2>1, <2>2, <3>1, Zenon DEF Pending
    <2>4. MarkedUpTo(b, mark[c], pcd)
        BY <2>2, <2>3, Zenon DEF Marking
    <2>5. p < b.base + mark[c]
        <3>1. b \in Block
            BY <2>1, AllocatedPages, Zenon
        <3>2. b.base \in Nat /\ Pages(b.order) \in Nat /\ p \in Nat /\ p < b.base + Pages(b.order)
            BY <3>1, BlockPages
        <3>3. ~(mark[c] < Pages(b.order)) /\ mark[c] \in Nat
            BY <1>1, <1>2, <2>2, <2>3
        <3> QED
            BY <3>2, <3>3
    <2> QED
        BY <1>1, <2>4, <2>5, Zenon DEF MarkedUpTo
<1> QED
    BY <1>4, <1>5, <1>6

(* An owner types its own page, which is in no block that is being marked. *)
LEMMA OwnerStep ==
    ASSUME Inv, Marking, NEW b, NEW n, pcd_set_type(b, n)
    PROVE  Marking' /\ Fresh /\ Private
<1>1. /\ b \in Returned /\ n \in Extent(b) /\ pcd' = [pcd EXCEPT ![n] = "other"] /\ mark' = mark
      /\ pc' = pc /\ cur' = cur /\ allocated' = allocated
    BY Zenon DEF pcd_set_type
<1>2. DOMAIN pcd = AllPages /\ b \in allocated
    BY <1>1, Zenon DEF Marking, Returned
<1>3. DOMAIN pcd' = AllPages /\ \A p \in AllPages : pcd'[p] = IF p = n THEN "other" ELSE pcd[p]
    BY <1>1, <1>2, Zenon
<1>4. ASSUME NEW d \in Cpu, pc[d] = "pcd" PROVE cur[d] \in allocated /\ MarkedUpTo(cur[d], mark[d], pcd')
    <2>1. cur[d] \in allocated /\ MarkedUpTo(cur[d], mark[d], pcd)
        BY <1>4, Zenon DEF Marking
    <2>2. cur[d] # b
        BY <1>1, <1>4, Zenon DEF Returned
    <2>3. Extent(cur[d]) \subseteq AllPages /\ n \notin Extent(cur[d])
        BY <1>1, <1>2, <2>1, <2>2, AllocatedPages, Zenon
    <2> QED
        BY <1>3, <2>1, <2>3, Zenon DEF MarkedUpTo
<1>5. Marking'
    BY <1>1, <1>3, <1>4, Zenon DEF Marking
<1>6. Returned' = Returned
    BY <1>1, Zenon DEF Returned
<1>7. Private
    <2> SUFFICES ASSUME NEW x \in Returned, NEW p \in Extent(x), pcd[p] = "other" PROVE pcd'[p] = "other"
        BY Zenon DEF Private
    <2>1. p \in AllPages
        BY AllocatedPages, Zenon DEF Returned
    <2> QED
        BY <1>3, <2>1, Zenon
<1> QED
    BY <1>5, <1>6, <1>7, Zenon DEF Fresh

(* Only a CPU that marks its pages stops being pending.                    *)
LEMMA PendingKept ==
    ASSUME NEW c \in Cpu, pc[c] # "pcd", DOMAIN pc = Cpu, NEW v, pc' = [pc EXCEPT ![c] = v],
           DOMAIN cur = Cpu, NEW b, cur' = [cur EXCEPT ![c] = b],
           allocated' \subseteq allocated \cup (IF v = "pcd" THEN {b} ELSE {})
    PROVE  Returned' \subseteq Returned
<1>1. \A d \in Cpu : d # c => pc'[d] = pc[d] /\ cur'[d] = cur[d]
    BY Zenon
<1>2. pc'[c] = v /\ cur'[c] = b
    OBVIOUS
<1>3. Pending \subseteq Pending'
    <2> SUFFICES ASSUME NEW x \in Pending PROVE x \in Pending'
        BY Zenon
    <2>1. PICK d \in Cpu : pc[d] = "pcd" /\ x = cur[d]
        BY Zenon DEF Pending
    <2>2. d # c
        BY <2>1, Zenon
    <2>3. pc'[d] = "pcd" /\ x = cur'[d]
        BY <1>1, <2>1, <2>2, Zenon
    <2> QED
        BY <2>3, Zenon DEF Pending
<1>4. v = "pcd" => b \in Pending'
    BY <1>2, Zenon DEF Pending
<1>5. Returned = allocated \ Pending /\ Returned' = allocated' \ Pending'
    BY Zenon DEF Returned, Pending
<1> HIDE DEF Pending
<1> QED
    BY <1>3, <1>4, <1>5, Zenon

(* Every step keeps the loops on their way, returns only marked blocks and *)
(* leaves the pages of other owners alone.                                 *)
LEMMA StepFresh == Inv /\ Marking /\ [Next]_vars => Marking' /\ Fresh /\ Private
<1> DEFINE Goal == Marking' /\ Fresh /\ Private
<1> SUFFICES ASSUME Inv, Marking, [Next]_vars PROVE Goal
    OBVIOUS
<1>0. /\ pc \in [Cpu -> {"boot", "idle", "split", "pcd", "coalesce"}] /\ DOMAIN pc = Cpu
      /\ DOMAIN cur = Cpu /\ cur \in [Cpu -> Block]
    <2>1. /\ pc \in [Cpu -> {"boot", "idle", "split", "pcd", "coalesce"}] /\ cur \in [Cpu -> Block]
        BY Zenon DEF Inv, Locking
    <2> QED
        BY <2>1
<1>1. ASSUME pcd' = pcd, Returned' \subseteq Returned PROVE Fresh /\ Private
    BY <1>1, Zenon DEF Fresh, Private
<1>2. ASSUME allocated' = allocated, pc' = pc, cur' = cur, pcd' = pcd, mark' = mark PROVE Goal
    <2>1. Returned' = Returned /\ Marking'
        BY <1>2, Zenon DEF Returned, Marking
    <2> QED
        BY <1>1, <1>2, <2>1, Zenon
<1>3. ASSUME NEW c \in Cpu, pc[c] # "pcd", NEW v, v # "pcd", pc' = [pc EXCEPT ![c] = v],
             NEW b, cur' = [cur EXCEPT ![c] = b], pcd' = pcd, mark' = mark,
             allocated' \subseteq allocated, \A x \in Pending : x \in allocated => x \in allocated'
      PROVE  Goal
    <2>1. Marking'
        BY <1>0, <1>3, MarkingKept, Zenon
    <2>2. Returned' \subseteq Returned
        BY <1>0, <1>3, PendingKept, Zenon
    <2> QED
        BY <1>1, <1>3, <2>1, <2>2, Zenon
<1>4. CASE UNCHANGED vars
    BY <1>2, <1>4, Zenon DEF vars
<1>5. CASE AddRegion \/ AddBlock \/ ReserveRegion
    <2>1. allocated' = allocated /\ pc' = pc /\ cur' = cur /\ pcd' = pcd /\ mark' = mark
        BY <1>5, Zenon DEF AddRegion, AddBlock, ReserveRegion
    <2> QED
        BY <1>2, <2>1, Zenon
<1>6. CASE BootDone
    <2>1. allocated' = {} /\ pcd' = pcd /\ mark' = mark /\ pc' = [c \in Cpu |-> "idle"]
        BY <1>6, Zenon DEF Inv, Booting, BootDone
    <2>2. \A c \in Cpu : pc[c] = "boot"
        BY <1>6, Zenon DEF Inv, Booting, BootDone
    <2>3. \A c \in Cpu : pc'[c] # "pcd" /\ mark'[c] = 0
        <3>1. \A c \in Cpu : pc[c] # "pcd"
            BY <2>2
        <3>2. \A c \in Cpu : mark[c] = 0
            BY <3>1, Zenon DEF Marking
        <3> QED
            BY <2>1, <3>2
    <2>4. Marking'
        BY <2>1, <2>3, Zenon DEF Marking
    <2> QED
        BY <1>1, <2>1, <2>4, Zenon DEF Returned
<1>7. ASSUME NEW c \in Cpu, NEW o \in Orders, pmm_alloc(c, o) \/ OutOfMemory(c, o) PROVE Goal
    <2>1. CASE pmm_alloc(c, o)
        <3>1. PICK b : cur' = [cur EXCEPT ![c] = b]
            BY <2>1, Zenon DEF pmm_alloc
        <3>2. /\ pc[c] # "pcd" /\ pc' = [pc EXCEPT ![c] = "split"] /\ allocated' = allocated
              /\ pcd' = pcd /\ mark' = mark /\ "split" # "pcd"
            BY <2>1 DEF pmm_alloc
        <3> QED
            BY <1>3, <3>1, <3>2, Zenon
    <2>2. CASE OutOfMemory(c, o)
        BY <1>4, <2>2, Zenon DEF OutOfMemory
    <2> QED
        BY <1>7, <2>1, <2>2, Zenon
<1>8. ASSUME NEW c \in Cpu, NEW b \in allocated, pmm_free(c, b) PROVE Goal
    <2>1. /\ pc[c] # "pcd" /\ pc' = [pc EXCEPT ![c] = "coalesce"] /\ cur' = [cur EXCEPT ![c] = b]
          /\ allocated' = allocated \ {b} /\ pcd' = pcd /\ mark' = mark /\ "coalesce" # "pcd"
          /\ b \notin Pending
        BY <1>8 DEF pmm_free, Returned, Pending
    <2> QED
        BY <1>3, <2>1, Zenon
<1>9. ASSUME NEW c \in Cpu, split_block(c) \/ coalesce_block(c) PROVE Goal
    <2>1. /\ pc[c] # "pcd" /\ pc' = [pc EXCEPT ![c] = pc[c]] /\ allocated' = allocated
          /\ pcd' = pcd /\ mark' = mark
        <3>1. /\ pc[c] = "split" \/ pc[c] = "coalesce"
              /\ pc' = pc /\ allocated' = allocated /\ pcd' = pcd /\ mark' = mark
            BY <1>9, Zenon DEF split_block, coalesce_block
        <3>3. pc[c] # "pcd"
            BY <3>1
        <3>2. [pc EXCEPT ![c] = pc[c]] = pc
            BY <1>0, Zenon
        <3> QED
            BY <3>1, <3>2, <3>3, Zenon
    <2>2. \E b : cur' = [cur EXCEPT ![c] = b]
        BY <1>9, Zenon DEF split_block, coalesce_block
    <2>3. pc[c] # "pcd" /\ \E v : v # "pcd" /\ pc' = [pc EXCEPT ![c] = v]
        BY <2>1, Zenon
    <2> QED
        BY <1>3, <2>1, <2>2, <2>3, Zenon
<1>10. ASSUME NEW c \in Cpu, AllocDone(c) PROVE Goal
    <2>1. /\ pc[c] # "pcd" /\ pc' = [pc EXCEPT ![c] = "pcd"] /\ allocated' = allocated \cup {cur[c]}
          /\ cur' = [cur EXCEPT ![c] = cur[c]] /\ pcd' = pcd
        BY <1>0, <1>10, Zenon DEF AllocDone
    <2>2. Returned' \subseteq Returned
        BY <1>0, <2>1, PendingKept, Zenon
    <2> QED
        BY <1>1, <1>10, <2>1, <2>2, MarkingStarts, Zenon
<1>11. ASSUME NEW c \in Cpu, FreeDone(c) PROVE Goal
    <2>1. /\ pc[c] # "pcd" /\ pc' = [pc EXCEPT ![c] = "idle"] /\ allocated' = allocated
          /\ cur' = [cur EXCEPT ![c] = NoBlock] /\ pcd' = pcd /\ mark' = mark /\ "idle" # "pcd"
        BY <1>11 DEF FreeDone
    <2> QED
        BY <1>3, <2>1, Zenon
<1>12. ASSUME NEW c \in Cpu, Operation(c) PROVE Goal
    BY <1>9, <1>10, <1>11, <1>12, MarkStep, ReturnFresh, Zenon DEF Operation
<1>13. ASSUME NEW b \in allocated, NEW p \in Extent(b), pcd_set_type(b, p) PROVE Goal
    BY <1>13, OwnerStep, Zenon
<1> HIDE DEF Goal
<1> QED
    BY <1>4, <1>5, <1>6, <1>7, <1>8, <1>12, <1>13, Zenon DEF Next

(***************************************************************************)
(* The marking loop of pmm_alloc runs without the PMM lock (pmm.c:404-412) *)
(* while other CPUs allocate, mark, free and type their pages.  For any    *)
(* number of CPUs, a block that it returns has only NK_NORMAL pages,       *)
(* whatever their previous owner made of them, and it never takes away the *)
(* type that the owner of another block has given to a page.               *)
(***************************************************************************)
THEOREM FreshlyMarked == RegionsApart => (Spec => FreshPagesPrivate)
<1> SUFFICES ASSUME RegionsApart PROVE Spec => FreshPagesPrivate
    BY Zenon
<1>1. Spec => []Inv
    BY Always
<1>2. Init => Marking
    BY DEF Init, Marking
<1>3. Inv /\ Marking /\ [Next]_vars => Marking' /\ [FreshAndPrivate]_vars
    BY StepFresh, Zenon DEF FreshAndPrivate, Fresh, Private
<1>4. Spec => [][FreshAndPrivate]_vars
    BY <1>1, <1>2, <1>3, PTL DEF Spec
<1> QED
    BY <1>4, Zenon DEF FreshPagesPrivate, FreshAndPrivate

----------------------------------------------------------------------------
(* Merging is complete.                                                    *)

\* One region and no reservation: pmm_reserve_region puts single pages back
\* without merging them, and pmm_add_region does not compare the blocks of
\* different regions.
PlainMaps == (\A m \in MemMaps : Len(m) <= 1) /\ Reservations \subseteq {<< >>}

\* Of two buddies that are both in F, one is in S.
NoBuddies(F, S) == \A b \in F : b.order < MAX_ORDER /\ Buddy(b) \in F => b \in S \/ Buddy(b) \in S
\* The blocks F that pmm_add_region has made so far end at a, and none could
\* have been larger in a region that ends at e.
Greedy(F, a, e) ==
    \A b \in F :
        /\ b.base + Pages(b.order) <= a
        /\ b.order < MAX_ORDER /\ Aligned(b.base, b.order + 1) =>
              b.base + Pages(b.order + 1) > e

Merged ==
    /\ NoBuddies(free, skipped) /\ reserves = << >>
    /\ \/ /\ \A c \in Cpu : pc[c] = "boot"
          /\ Greedy(free, addr, end)
          /\ regions # << >> => Len(regions) = 1 /\ free = {} /\ addr >= end
       \/ /\ \A c \in Cpu : pc[c] # "boot"
          /\ regions = << >> /\ addr >= end

\* Of the blocks of p pages at a and d: the two halves of a block of 2 * p.
Halved(a, d, p) ==
    /\ a % (2 * p) = 0 => (a + p) % (2 * p) # 0
    /\ a % p = 0 => (a + p) % p = 0
    /\ a % p = 0 /\ a % (2 * p) # 0 => a - p \in Nat /\ (a - p) % p = 0 /\ (a - p) % (2 * p) = 0
    /\ a % p = 0 /\ d % p = 0 /\ a # d /\ a \div (2 * p) = d \div (2 * p) =>
          d = IF a % (2 * p) = 0 THEN a + p ELSE a - p

(* The arithmetic of buddies, for each size.                               *)
LEMMA BuddyArith ==
    ASSUME NEW a \in Nat, NEW d \in Nat, NEW p \in {1, 2, 4, 8, 16, 32, 64, 128, 256}
    PROVE  Halved(a, d, p)
<1>1. Halved(a, d, 1)
    BY DEF Halved
<1>2. Halved(a, d, 2)
    BY DEF Halved
<1>3. Halved(a, d, 4)
    BY DEF Halved
<1>4. Halved(a, d, 8)
    BY DEF Halved
<1>5. Halved(a, d, 16)
    BY DEF Halved
<1>6. Halved(a, d, 32)
    BY DEF Halved
<1>7. Halved(a, d, 64)
    BY SMTT(30) DEF Halved
<1>8. Halved(a, d, 128)
    <2>1. a % 256 = 0 => (a + 128) % 256 # 0
        OBVIOUS
    <2>2. a % 128 = 0 => (a + 128) % 128 = 0
        OBVIOUS
    <2>3. a % 128 = 0 /\ a % 256 # 0 => a - 128 \in Nat /\ (a - 128) % 128 = 0 /\ (a - 128) % 256 = 0
        BY SMTT(30)
    <2>4. a % 128 = 0 /\ d % 128 = 0 /\ a # d /\ a \div 256 = d \div 256 =>
             d = IF a % 256 = 0 THEN a + 128 ELSE a - 128
        OBVIOUS
    <2> QED
        BY <2>1, <2>2, <2>3, <2>4, 2 * 128 = 256 DEF Halved
<1>9. Halved(a, d, 256)
    BY SMTT(40) DEF Halved
<1> QED
    BY <1>1, <1>2, <1>3, <1>4, <1>5, <1>6, <1>7, <1>8, <1>9, SMTT(30)

(* The sizes of the blocks that have a buddy.                              *)
LEMMA HalfSizes ==
    ASSUME NEW o \in 0..8
    PROVE  Pages(o) \in {1, 2, 4, 8, 16, 32, 64, 128, 256} /\ Pages(o + 1) = 2 * Pages(o)
<1>1. \/ o = 0 \/ o = 1 \/ o = 2 \/ o = 3 \/ o = 4 \/ o = 5 \/ o = 6 \/ o = 7 \/ o = 8
    OBVIOUS
<1> QED
    BY <1>1, PageSizes

(* The buddy of a block is another block, whose buddy is the block itself; *)
(* and two blocks of one size in one block of twice the size are buddies.  *)
LEMMA Buddies ==
    ASSUME NEW b \in Block, Aligned(b.base, b.order), b.order < MAX_ORDER
    PROVE  /\ Buddy(b) \in Block /\ Buddy(b) # b /\ Buddy(Buddy(b)) = b
           /\ \A d \in Block : /\ Aligned(d.base, d.order) /\ d.order = b.order /\ d # b
                               /\ b.base \div Pages(b.order + 1) = d.base \div Pages(d.order + 1)
                               => d = Buddy(b)
<1> DEFINE o == b.order
           p == Pages(o)
           a == b.base
           g == get_buddy_addr(b)
           d == Buddy(b)
<1>1. a \in Nat /\ o \in Orders /\ o \in 0..8 /\ b = [base |-> a, order |-> o]
    BY PmmAssumption DEF Block, Orders
<1>2. p \in {1, 2, 4, 8, 16, 32, 64, 128, 256} /\ Pages(o + 1) = 2 * p
    BY <1>1, HalfSizes
<1>3. a % p = 0
    BY DEF Aligned
<1>4. g = IF a % (2 * p) = 0 THEN a + p ELSE a - p
    BY <1>2 DEF get_buddy_addr, Aligned
<1>5. d.base = g /\ d.order = o /\ d = [base |-> g, order |-> o]
    BY DEF Buddy
<1>6. \A x \in Nat, y \in Nat : Halved(x, y, p)
    BY <1>2, BuddyArith, ZenonT(30)
<1>7. p \in Nat \ {0}
    BY <1>2
<1>8. get_buddy_addr(d) = IF g % (2 * p) = 0 THEN g + p ELSE g - p
    BY <1>2, <1>5 DEF get_buddy_addr, Aligned
<1> HIDE DEF o, p, a, g, d
<1>9. g \in Nat /\ g # a /\ get_buddy_addr(d) = a
    <2>1. Halved(a, a, p)
        BY <1>1, <1>6
    <2> QED
        BY <1>1, <1>3, <1>4, <1>7, <1>8, <2>1, SMTT(30) DEF Halved
<1>10. d \in Block /\ d # b /\ Buddy(d) = b
    <2>1. Buddy(d) = [base |-> a, order |-> o]
        BY <1>5, <1>9 DEF Buddy
    <2> QED
        BY <1>1, <1>5, <1>9, <2>1 DEF Block
<1>11. ASSUME NEW x \in Block, Aligned(x.base, x.order), x.order = o, x # b,
              a \div Pages(o + 1) = x.base \div Pages(x.order + 1)
       PROVE  x = d
    <2>1. x.base \in Nat /\ x = [base |-> x.base, order |-> o] /\ x.base # a /\ x.base % p = 0
        BY <1>1, <1>11 DEF Block, Aligned, p
    <2>2. Halved(a, x.base, p) /\ a \div (2 * p) = x.base \div (2 * p)
        BY <1>1, <1>2, <1>6, <1>11, <2>1, SMTT(30)
    <2>3. x.base = g
        BY <1>3, <1>4, <2>1, <2>2 DEF Halved
    <2> QED
        BY <1>5, <2>1, <2>3
<1> QED
    BY <1>10, <1>11 DEF d, o, a

(* A block that is added beside no free buddy, or as one that was skipped, *)
(* keeps the others apart.                                                 *)
LEMMA AddApart ==
    ASSUME NEW F, F \subseteq Block, \A b \in F : Aligned(b.base, b.order),
           NEW S, NEW T, NoBuddies(F, S), S \subseteq T,
           NEW n \in Block, Aligned(n.base, n.order),
           n.order < MAX_ORDER /\ Buddy(n) \in F => n \in T
    PROVE  NoBuddies(F \cup {n}, T)
<1> SUFFICES ASSUME NEW b \in F \cup {n}, b.order < MAX_ORDER, Buddy(b) \in F \cup {n}
             PROVE  b \in T \/ Buddy(b) \in T
    BY Zenon DEF NoBuddies
<1>1. b \in Block /\ Aligned(b.base, b.order)
    BY Zenon
<1>2. Buddy(b) \in Block /\ Buddy(b) # b /\ Buddy(Buddy(b)) = b
    BY <1>1, Buddies, Zenon
<1>3. Buddy(b).order = b.order
    BY DEF Buddy
<1>4. CASE b = n
    BY <1>2, <1>4, Zenon
<1>5. CASE b \in F /\ Buddy(b) = n
    BY <1>2, <1>3, <1>5, Zenon
<1>6. CASE b \in F /\ Buddy(b) \in F
    BY <1>6, Zenon DEF NoBuddies
<1> QED
    BY <1>4, <1>5, <1>6, Zenon

(* A block that leaves takes nobody's excuse away but its buddy's, and     *)
(* that one is alone now.                                                  *)
LEMMA LeaveApart ==
    ASSUME NEW F, F \subseteq Block, \A b \in F : Aligned(b.base, b.order),
           NEW S, NoBuddies(F, S), NEW x, NEW T, T = {d \in S : d # x /\ Buddy(d) # x}
    PROVE  NoBuddies(F \ {x}, T)
<1> DEFINE G == F \ {x}
<1> SUFFICES ASSUME NEW b \in G, b.order < MAX_ORDER, Buddy(b) \in G
             PROVE  b \in T \/ Buddy(b) \in T
    BY Zenon DEF NoBuddies
<1>1. b \in S \/ Buddy(b) \in S
    BY Zenon DEF NoBuddies
<1>2. Buddy(Buddy(b)) = b
    BY Buddies, Zenon
<1> QED
    BY <1>1, <1>2, Zenon

(* The halves of the block in hand have no free buddy but each other.      *)
LEMMA HalfApart ==
    ASSUME NEW F, NEW b, Sound(F \cup {b}), b \notin F,
           NEW o \in Orders, b.order = o + 1, NEW y, y = UpperHalf(b, o)
    PROVE  y \in Block /\ Aligned(y.base, y.order) /\ Buddy(y) \notin F
<1>1. /\ b \in Block /\ Aligned(b.base, b.order) /\ b.base \in Nat /\ o \in 0..8
      /\ o < MAX_ORDER /\ F \subseteq Block
    BY PmmAssumption, SMTT(30) DEF Sound, Block, Orders
<1>2. /\ Pages(o) \in {1, 2, 4, 8, 16, 32, 64, 128, 256} /\ Pages(o + 1) = 2 * Pages(o)
      /\ Pages(o) \in Nat \ {0}
    BY <1>1, HalfSizes, HalfArith, ZenonT(30)
<1>3. Halved(b.base, b.base, Pages(o))
    BY <1>1, <1>2, BuddyArith
<1>4. b.base % (2 * Pages(o)) = 0 /\ b.base % Pages(o) = 0
    BY <1>1, <1>2, HalfArith DEF Aligned
<1>5. y = [base |-> b.base + Pages(o), order |-> o] /\ y.base = b.base + Pages(o) /\ y.order = o
    BY DEF UpperHalf
<1>6. y \in Block /\ Aligned(y.base, y.order)
    BY <1>1, <1>2, <1>3, <1>4, <1>5, SMTT(30) DEF Block, Aligned, Halved
<1>7. get_buddy_addr(y) = b.base
    <2>1. ~Aligned(y.base, y.order + 1)
        BY <1>2, <1>3, <1>4, <1>5 DEF Halved, Aligned
    <2>2. get_buddy_addr(y) = y.base - Pages(y.order)
        BY <2>1, Zenon DEF get_buddy_addr
    <2> QED
        BY <1>1, <1>2, <1>5, <2>2, SMTT(30)
<1>8. Buddy(y).base = b.base /\ Buddy(y).order = o
    BY <1>5, <1>7 DEF Buddy
<1>9. ASSUME Buddy(y) \in F PROVE FALSE
    <2>1. b.base \in Extent(b) /\ b.base \in Extent(Buddy(y))
        BY <1>1, <1>8, <1>9, BlockPages
    <2>2. Buddy(y) # b /\ Extent(Buddy(y)) \cap Extent(b) = {}
        BY <1>9, Zenon DEF Sound, Apart
    <2> QED
        BY <2>1, <2>2, Zenon
<1> QED
    BY <1>6, <1>9

(* pmm_add_region takes the largest block that fits, so the one before is  *)
(* not its buddy.                                                          *)
LEMMA GreedyStep ==
    ASSUME addr \in Nat, end \in Nat, addr < end, free \subseteq Block,
           \A b \in free : Aligned(b.base, b.order), Greedy(free, addr, end), NoBuddies(free, skipped),
           NEW n, n = [base |-> addr, order |-> LargestOrder]
    PROVE  /\ NoBuddies(free \cup {n}, skipped)
           /\ Greedy(free \cup {n}, addr + Pages(LargestOrder), end)
           /\ Greedy(free, addr + Pages(LargestOrder), end)
<1> DEFINE o == LargestOrder
<1>1. o \in Orders /\ Fits(o) /\ \A q \in Orders : Fits(q) => q <= o
    BY SomeOrderFits
<1>2. n.base = addr /\ n.order = o /\ n \in Block /\ Aligned(n.base, n.order)
    BY <1>1 DEF Block, Fits
<1>3. o \in 0..9 /\ Pages(o) \in Nat \ {0} /\ Pages(o) <= end - addr
    <2>1. o \in 0..9
        BY <1>1, PmmAssumption DEF Orders
    <2> QED
        BY <1>1, <2>1, PagesValue, Zenon DEF Fits
<1> HIDE DEF o
<1>4. ASSUME o < MAX_ORDER PROVE Buddy(n) \notin free
    <2> SUFFICES ASSUME Buddy(n) \in free PROVE FALSE
        OBVIOUS
    <2>1. Buddy(n).base = get_buddy_addr(n) /\ Buddy(n).order = o
        BY <1>2 DEF Buddy
    <2>2. o \in 0..8
        BY <1>3, <1>4, PmmAssumption
    <2>3. CASE Aligned(addr, o + 1)
        <3>1. get_buddy_addr(n) = addr + Pages(o)
            BY <1>2, <2>3, Zenon DEF get_buddy_addr
        <3>2. Buddy(n).base + Pages(Buddy(n).order) <= addr
            BY Zenon DEF Greedy
        <3> QED
            BY <1>3, <2>1, <3>1, <3>2
    <2>4. CASE ~Aligned(addr, o + 1)
        <3>1. get_buddy_addr(n) = addr - Pages(o)
            BY <1>2, <2>4, Zenon DEF get_buddy_addr
        <3>2. Aligned(addr - Pages(o), o + 1) /\ Pages(o + 1) = 2 * Pages(o)
            BY <1>2, <2>2, <2>4, HalfArith DEF Aligned
        <3>3. Buddy(n).base + Pages(o + 1) > end
            BY <1>4, <2>1, <3>1, <3>2, Zenon DEF Greedy
        <3> QED
            BY <1>3, <2>1, <3>1, <3>2, <3>3
    <2> QED
        BY <2>3, <2>4
<1>5. NoBuddies(free \cup {n}, skipped)
    BY <1>2, <1>4, AddApart, Zenon
<1>6. Greedy(free, addr + Pages(o), end)
    <2> SUFFICES ASSUME NEW b \in free PROVE b.base + Pages(b.order) <= addr + Pages(o)
        BY Zenon DEF Greedy
    <2>1. b.base \in Nat /\ Pages(b.order) \in Nat
        BY BlockPages
    <2> QED
        BY <1>3, <2>1 DEF Greedy
<1>7. ASSUME o < MAX_ORDER, Aligned(addr, o + 1) PROVE addr + Pages(o + 1) > end
    <2>1. o + 1 \in Orders /\ o + 1 \in 0..9 /\ ~(o + 1 <= o)
        BY <1>3, <1>7, PmmAssumption DEF Orders
    <2>2. ~Fits(o + 1) /\ Pages(o + 1) \in Nat
        BY <1>1, <2>1, PagesValue DEF o
    <2> QED
        BY <1>7, <2>2 DEF Fits
<1>8. n.base + Pages(n.order) <= addr + Pages(o)
    BY <1>2, <1>3
<1>9. Greedy(free \cup {n}, addr + Pages(o), end)
    BY <1>2, <1>6, <1>7, <1>8, Zenon DEF Greedy
<1> QED
    BY <1>5, <1>6, <1>9 DEF o

(* The free lists are empty when pmm_init starts.                          *)
LEMMA MergedInit == PlainMaps /\ Init => Merged
<1> SUFFICES ASSUME PlainMaps, Init PROVE Merged
    OBVIOUS
<1>1. free = {} /\ reserves = << >> /\ \A c \in Cpu : pc[c] = "boot"
    BY Zenon DEF PlainMaps, Init
<1>2. regions # << >> => Len(regions) = 1
    <2>1. regions \in Seq(Region) /\ Len(regions) <= 1
        BY PmmAssumption DEF PlainMaps, Init
    <2>2. Len(regions) \in Nat /\ (Len(regions) = 0 => regions = << >>)
        BY <2>1
    <2>3. \A n \in Nat : n <= 1 => n = 0 \/ n = 1
        OBVIOUS
    <2> QED
        BY <2>1, <2>2, <2>3, Zenon
<1>3. addr >= end
    BY DEF Init
<1> QED
    BY <1>1, <1>2, <1>3, Zenon DEF Merged, NoBuddies, Greedy

(* Boot-time steps.                                                        *)
LEMMA MergedBoot == Inv /\ Merged /\ (AddRegion \/ AddBlock \/ ReserveRegion \/ BootDone) => Merged'
<1> SUFFICES ASSUME Inv, Merged, AddRegion \/ AddBlock \/ ReserveRegion \/ BootDone PROVE Merged'
    OBVIOUS
<1>0. addr \in Nat /\ end \in Nat /\ free \subseteq Block /\ \A b \in free : Aligned(b.base, b.order)
    BY Zenon DEF Inv, Memory, Layout, Parts, Sound
<1>1. CASE AddRegion
    <2>1. /\ regions # << >> /\ regions' = Tail(regions) /\ free' = free /\ reserves' = reserves /\ pc' = pc
          /\ skipped' = skipped
        BY <1>1, Zenon DEF AddRegion
    <2>2. Len(regions) = 1 /\ free = {} /\ \A c \in Cpu : pc[c] = "boot"
        BY <2>1, Zenon DEF Merged
    <2>3. regions' = << >>
        <3>1. regions \in Seq(Region)
            BY DEF Inv, Booting, Ahead
        <3> QED
            BY <2>1, <2>2, <3>1
    <2> QED
        BY <2>1, <2>2, <2>3, Zenon DEF Merged, NoBuddies, Greedy
<1>2. CASE AddBlock
    <2> DEFINE n == [base |-> addr, order |-> LargestOrder]
    <2>1. /\ addr < end /\ addr' = addr + Pages(LargestOrder) /\ end' = end /\ pc' = pc
          /\ regions' = regions /\ reserves' = reserves /\ skipped' = skipped
          /\ free' = free \cup {n} \/ free' = free
        BY <1>2 DEF AddBlock, add_free_block
    <2>2. ~(addr >= end)
        BY <1>0, <2>1
    <2>3. /\ Greedy(free, addr, end) /\ NoBuddies(free, skipped) /\ reserves = << >>
          /\ \A c \in Cpu : pc[c] = "boot"
        BY <2>2, Zenon DEF Merged
    <2>4. regions = << >>
        BY <2>2, Zenon DEF Merged
    <2> QED
        BY <1>0, <2>1, <2>3, <2>4, GreedyStep, Zenon DEF Merged
<1>3. CASE ReserveRegion
    BY <1>3, Zenon DEF ReserveRegion, Merged
<1>4. CASE BootDone
    <2>1. /\ pc' = [c \in Cpu |-> "idle"] /\ regions = << >> /\ addr >= end /\ free' = free
          /\ UNCHANGED bootVars /\ skipped' = skipped
        BY <1>4, Zenon DEF BootDone
    <2>2. \A c \in Cpu : pc'[c] # "boot"
        BY <2>1
    <2> QED
        BY <2>1, <2>2, Zenon DEF Merged, bootVars
<1> QED
    BY <1>1, <1>2, <1>3, <1>4

(* Allocating and freeing.                                                 *)
LEMMA MergedRun ==
    ASSUME Inv, Merged, NEW c \in Cpu,
           \/ \E o \in Orders : pmm_alloc(c, o)
           \/ \E b \in allocated : pmm_free(c, b)
           \/ Operation(c)
    PROVE  Merged'
<1>1. pc[c] # "boot" /\ UNCHANGED bootVars
    BY Zenon DEF pmm_alloc, pmm_free, Operation, split_block, AllocDone, MarkPage, AllocReturn,
        coalesce_block, FreeDone
<1>2. /\ \A d \in Cpu : pc[d] # "boot"
      /\ NoBuddies(free, skipped) /\ reserves = << >> /\ regions = << >> /\ addr >= end
    BY <1>1, Zenon DEF Merged
<1>3. pc \in [Cpu -> {"boot", "idle", "split", "pcd", "coalesce"}]
    BY DEF Inv, Locking
<1>4. \A d \in Cpu : pc'[d] # "boot"
    <2>1. pc' = pc \/ \E v \in {"idle", "split", "pcd", "coalesce"} : pc' = [pc EXCEPT ![c] = v]
        BY DEF pmm_alloc, pmm_free, Operation, split_block, AllocDone, MarkPage, AllocReturn,
            coalesce_block, FreeDone
    <2> QED
        BY <1>2, <1>3, <2>1
<1>5. free \subseteq Block /\ \A b \in free : Aligned(b.base, b.order)
    BY Zenon DEF Inv, Memory, Layout, Parts, Sound
<1>6. ASSUME NEW x, free' = free \ {x}, skipped' = Unskipped(x) PROVE NoBuddies(free', skipped')
    <2>1. skipped' = {d \in skipped : d # x /\ Buddy(d) # x}
        BY <1>6, Zenon DEF Unskipped
    <2>2. free \subseteq Block /\ (\A b \in free : Aligned(b.base, b.order)) /\ NoBuddies(free, skipped)
        BY <1>2, <1>5, Zenon
    <2>3. NoBuddies(free \ {x}, skipped')
        BY <2>1, <2>2, LeaveApart, Zenon
    <2> QED
        BY <1>6, <2>3, Zenon
<1>7. CASE split_block(c)
    <2> DEFINE b == cur[c]
               o == b.order - 1
               y == UpperHalf(b, o)
    <2>1. /\ pc[c] = "split" /\ b.order > target[c] /\ free' \in {free, free \cup {y}} /\ skipped' = skipped
        BY <1>7 DEF split_block, add_free_block
    <2>2. b \in Block /\ target[c] \in Orders /\ Layout(free, allocated, {b}, managed, addr, end, block_count)
        BY <2>1, Holding, Zenon
    <2>3. o \in Orders /\ b.order = o + 1
        BY <2>1, <2>2, PmmAssumption DEF Block, Orders
    <2>4. Sound(free \cup {b}) /\ b \notin free
        BY <2>2, Zenon DEF Layout, Parts, Sound, Apart
    <2> HIDE DEF b, o
    <2>5. y \in Block /\ Aligned(y.base, y.order) /\ Buddy(y) \notin free
        BY <2>3, <2>4, HalfApart, Zenon
    <2> HIDE DEF y
    <2>6. NoBuddies(free \cup {y}, skipped)
        BY <1>2, <1>5, <2>5, AddApart, Zenon
    <2>7. NoBuddies(free', skipped')
        BY <1>2, <2>1, <2>6, Zenon
    <2> QED
        BY <1>1, <1>2, <1>4, <2>7, Zenon DEF Merged, bootVars
<1>8. CASE FreeDone(c)
    <2>1. /\ pc[c] = "coalesce" /\ free' = free \cup {cur[c]}
          /\ skipped' = IF CanCoalesce(cur[c]) THEN skipped \cup {cur[c]} ELSE skipped
        BY <1>8, Zenon DEF FreeDone
    <2>2. cur[c] \in Block /\ Layout(free, allocated, {cur[c]}, managed, addr, end, block_count)
        BY <2>1, Holding, Zenon
    <2>3. Aligned(cur[c].base, cur[c].order)
        BY <2>2, Zenon DEF Layout, Parts, Sound
    <2>4. /\ cur[c].order < MAX_ORDER /\ Buddy(cur[c]) \in free => cur[c] \in skipped'
          /\ skipped \subseteq skipped'
        BY <2>1, Zenon DEF CanCoalesce
    <2>5. NoBuddies(free', skipped')
        BY <1>2, <1>5, <2>1, <2>2, <2>3, <2>4, AddApart, Zenon
    <2> QED
        BY <1>1, <1>2, <1>4, <2>5, Zenon DEF Merged, bootVars
<1>9. ASSUME \/ \E o \in Orders : pmm_alloc(c, o)
             \/ coalesce_block(c)
      PROVE  Merged'
    <2>1. \E x : free' = free \ {x} /\ skipped' = Unskipped(x)
        BY <1>9, Zenon DEF pmm_alloc, coalesce_block
    <2>2. NoBuddies(free', skipped')
        BY <1>6, <2>1, Zenon
    <2> QED
        BY <1>1, <1>2, <1>4, <2>2, Zenon DEF Merged, bootVars
<1>10. ASSUME \/ \E b \in allocated : pmm_free(c, b)
              \/ AllocDone(c) \/ MarkPage(c) \/ AllocReturn(c)
       PROVE  Merged'
    <2>1. free' = free /\ skipped' = skipped
        BY <1>10, Zenon DEF pmm_free, AllocDone, MarkPage, AllocReturn
    <2> QED
        BY <1>1, <1>2, <1>4, <2>1, Zenon DEF Merged, bootVars
<1> QED
    BY <1>7, <1>8, <1>9, <1>10, Zenon DEF Operation

(* Every step.                                                             *)
LEMMA MergedStep == Inv /\ Merged /\ [Next]_vars => Merged'
<1> SUFFICES ASSUME Inv, Merged, [Next]_vars PROVE Merged'
    OBVIOUS
<1>1. ASSUME UNCHANGED <<free, bootVars, pc, skipped>> PROVE Merged'
    BY <1>1, Zenon DEF Merged, bootVars
<1>2. CASE UNCHANGED vars
    BY <1>1, <1>2, Zenon DEF vars, bootVars
<1>3. ASSUME NEW c \in Cpu, NEW o \in Orders, OutOfMemory(c, o) PROVE Merged'
    BY <1>2, <1>3, Zenon DEF OutOfMemory
<1>4. ASSUME NEW b \in allocated, NEW p \in Extent(b), pcd_set_type(b, p) PROVE Merged'
    BY <1>1, <1>4, Zenon DEF pcd_set_type
<1>5. ASSUME NEW c \in Cpu, \/ \E o \in Orders : pmm_alloc(c, o)
                            \/ \E b \in allocated : pmm_free(c, b)
                            \/ Operation(c)
      PROVE  Merged'
    BY <1>5, MergedRun, Zenon
<1> QED
    BY <1>2, <1>3, <1>4, <1>5, MergedBoot, Zenon DEF Next

(***************************************************************************)
(* coalesce_block merges as far as it looks (pmm.c:131-181), for any       *)
(* number of CPUs, orders and descriptors and any length of the search:    *)
(* two free blocks that are the halves of one block are left apart only    *)
(* when the search for the one gave up before it came to the other.  For   *)
(* memory maps of one region and no reservation.                           *)
(***************************************************************************)
THEOREM MergingComplete == PlainMaps => (Spec => []FullyCoalesced)
<1> SUFFICES ASSUME PlainMaps PROVE Spec => []FullyCoalesced
    OBVIOUS
<1>1. RegionsApart
    <2> SUFFICES ASSUME NEW m \in MemMaps, NEW i \in 1..Len(m), NEW j \in 1..Len(m) PROVE i = j
        BY Zenon DEF RegionsApart
    <2> QED
        BY PmmAssumption DEF PlainMaps
<1>2. Inv /\ Merged => FullyCoalesced
    <2> SUFFICES ASSUME Inv, Merged, NEW b \in free \ skipped, NEW d \in free \ skipped,
                        b.order = d.order /\ b.order < MAX_ORDER /\ b # d,
                        b.base \div Pages(b.order + 1) = d.base \div Pages(d.order + 1)
                 PROVE  FALSE
        BY Zenon DEF FullyCoalesced
    <2>1. /\ b \in Block /\ Aligned(b.base, b.order) /\ d \in Block /\ Aligned(d.base, d.order)
        BY Zenon DEF Inv, Memory, Layout, Parts, Sound
    <2>2. d = Buddy(b)
        BY <2>1, Buddies, Zenon
    <2> QED
        BY <2>2, Zenon DEF Merged, NoBuddies
<1>3. Spec => []Inv
    BY <1>1, Always
<1>4. Init => Merged
    BY MergedInit
<1> QED
    BY <1>2, <1>3, <1>4, MergedStep, PTL DEF Spec
============================================================================
