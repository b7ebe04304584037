----------------------------- MODULE SlabProofs -----------------------------
(* The slab allocator keeps its lists linked and its objects accounted for *)
(* with any number of CPUs and pages, when a slab holds two objects or     *)
(* more (a slab of one object is filed as partial when it is full).        *)
EXTENDS Slab, FiniteSetTheorems, TLAPS

-----------------------------------------------------------------------------
(* What the list operations do to a heap whose two directions agree, for   *)
(* any set of cells.                                                       *)

Sound(k, C) == LinksOK(k, C) /\ WellLinked(k, C)

(* Pushing a node that points to itself at the front of a list touches the *)
(* node, the head and the old first node, and keeps the links in agreement *)
(* (list.h:26-31).                                                         *)
THEOREM PushFrontSound ==
    ASSUME NEW C, NEW k, Sound(k, C), NEW x \in C, NEW n \in C, x # n,
           k[n] = Self(n)
    PROVE  LET g == list_push_front(k, x, n)
           IN  Sound(g, C) /\ \A c \in C \ {n} : k[c] = Self(c) /\ c # x => g[c] = k[c]
<1> DEFINE f == k[x].next
           g == list_push_front(k, x, n)
<1>1. /\ f \in C /\ DOMAIN k = C
      /\ k[n].next = n /\ k[n].prev = n
      /\ k[f].prev = x
    BY DEF Sound, LinksOK, WellLinked, Self
<1>2. n # f
    BY <1>1
<1>3. LinksOK(g, C)
    BY <1>1 DEF Sound, LinksOK, list_push_front
<1>4. /\ g[n] = [next |-> f, prev |-> x]
      /\ g[f].prev = n /\ g[x].next = n
      /\ x # f => g[x].prev = k[x].prev /\ g[f].next = k[f].next
      /\ \A c \in C \ {n, f, x} : g[c] = k[c]
    BY <1>1, <1>2 DEF Sound, LinksOK, list_push_front
<1>5. ASSUME NEW c \in C
      PROVE  g[g[c].next].prev = c /\ g[g[c].prev].next = c
  <2>1. k[k[c].next].prev = c /\ k[k[c].prev].next = c
        /\ k[c].next \in C /\ k[c].prev \in C
      BY DEF Sound, LinksOK, WellLinked
  <2>2. CASE c = n
      BY <2>2, <1>1, <1>2, <1>4
  <2>3. CASE c = x
      BY <2>1, <2>3, <1>1, <1>2, <1>4
  <2>4. CASE c = f /\ c # x
      BY <2>1, <2>4, <1>1, <1>2, <1>4
  <2>5. CASE c \notin {n, x, f}
    <3>1. g[c] = k[c]
        BY <2>5, <1>4
    <3>2. k[c].next # n /\ k[c].prev # n
        BY <2>1, <2>5, <1>1
    <3>3. g[k[c].next].prev = c
        BY <2>1, <2>5, <3>2, <1>1, <1>2, <1>4
    <3>4. g[k[c].prev].next = c
        BY <2>1, <2>5, <3>2, <1>1, <1>2, <1>4
    <3> QED
        BY <3>1, <3>3, <3>4
  <2> QED
      BY <2>2, <2>3, <2>4, <2>5
<1>6. ASSUME NEW c \in C \ {n}, k[c] = Self(c), c # x PROVE g[c] = k[c]
    BY <1>1, <1>4, <1>6 DEF Self
<1> QED
    BY <1>3, <1>5, <1>6 DEF Sound, WellLinked

(* The same for the back of a list (list.h:34-39).                         *)
THEOREM PushBackSound ==
    ASSUME NEW C, NEW k, Sound(k, C), NEW x \in C, NEW n \in C, x # n,
           k[n] = Self(n)
    PROVE  LET g == list_push_back(k, x, n)
           IN  Sound(g, C) /\ \A c \in C \ {n} : k[c] = Self(c) /\ c # x => g[c] = k[c]
<1> DEFINE p == k[x].prev
           g == list_push_back(k, x, n)
<1>1. /\ p \in C /\ DOMAIN k = C
      /\ k[n].next = n /\ k[n].prev = n
      /\ k[p].next = x
    BY DEF Sound, LinksOK, WellLinked, Self
<1>2. n # p
    BY <1>1
<1>3. LinksOK(g, C)
    BY <1>1 DEF Sound, LinksOK, list_push_back
<1>4. /\ g[n] = [next |-> x, prev |-> p]
      /\ g[p].next = n /\ g[x].prev = n
      /\ x # p => g[x].next = k[x].next /\ g[p].prev = k[p].prev
      /\ \A c \in C \ {n, p, x} : g[c] = k[c]
    BY <1>1, <1>2, SMTT(60) DEF Sound, LinksOK, list_push_back
<1>5. ASSUME NEW c \in C
      PROVE  g[g[c].next].prev = c /\ g[g[c].prev].next = c
  <2>1. k[k[c].next].prev = c /\ k[k[c].prev].next = c
        /\ k[c].next \in C /\ k[c].prev \in C
      BY DEF Sound, LinksOK, WellLinked
  <2>2. CASE c = n
      BY <2>2, <1>1, <1>2, <1>4
  <2>3. CASE c = x
      BY <2>1, <2>3, <1>1, <1>2, <1>4
  <2>4. CASE c = p /\ c # x
      BY <2>1, <2>4, <1>1, <1>2, <1>4
  <2>5. CASE c \notin {n, x, p}
    <3>1. g[c] = k[c]
        BY <2>5, <1>4
    <3>2. k[c].next # n /\ k[c].prev # n
        BY <2>1, <2>5, <1>1
    <3>3. g[k[c].next].prev = c
        BY <2>1, <2>5, <3>2, <1>1, <1>2, <1>4
    <3>4. g[k[c].prev].next = c
        BY <2>1, <2>5, <3>2, <1>1, <1>2, <1>4
    <3> QED
        BY <3>1, <3>3, <3>4
  <2> QED
      BY <2>2, <2>3, <2>4, <2>5
<1>6. ASSUME NEW c \in C \ {n}, k[c] = Self(c), c # x PROVE g[c] = k[c]
    BY <1>1, <1>4, <1>6 DEF Self
<1> QED
    BY <1>3, <1>5, <1>6 DEF Sound, WellLinked

(* Removing a node, even one that is on no list, closes the gap it leaves, *)
(* and leaves every cell that points to itself alone (list.h:42-47).       *)
THEOREM RemoveSound ==
    ASSUME NEW C, NEW k, Sound(k, C), NEW n \in C
    PROVE  LET g == list_remove(k, n)
           IN  /\ Sound(g, C) /\ g[n] = Self(n)
               /\ \A c \in C : k[c] = Self(c) => g[c] = k[c]
<1> DEFINE p == k[n].prev
           s == k[n].next
           g == list_remove(k, n)
<1>1. /\ p \in C /\ s \in C /\ DOMAIN k = C
      /\ k[p].next = n /\ k[s].prev = n
    BY DEF Sound, LinksOK, WellLinked
<1>2. LinksOK(g, C)
    BY <1>1 DEF Sound, LinksOK, list_remove, Self
<1>3. g[n] = [next |-> n, prev |-> n]
    BY <1>1, <1>2 DEF Sound, LinksOK, list_remove, Self
<1>4. /\ p # n => g[p].next = s /\ (p # s => g[p].prev = k[p].prev)
      /\ s # n => g[s].prev = p /\ (p # s => g[s].next = k[s].next)
      /\ \A c \in C \ {n, p, s} : g[c] = k[c]
  <2>1. p # n => g[p].next = s /\ (p # s => g[p].prev = k[p].prev)
      BY <1>1, SMTT(30) DEF Sound, LinksOK, list_remove, Self
  <2>2. s # n => g[s].prev = p /\ (p # s => g[s].next = k[s].next)
      BY <1>1, SMTT(30) DEF Sound, LinksOK, list_remove, Self
  <2>3. \A c \in C \ {n, p, s} : g[c] = k[c]
      BY <1>1, SMTT(30) DEF Sound, LinksOK, list_remove, Self
  <2> QED
      BY <2>1, <2>2, <2>3
<1>5. p = n <=> s = n
    BY <1>1
<1>6. ASSUME NEW c \in C
      PROVE  g[g[c].next].prev = c /\ g[g[c].prev].next = c
  <2>1. k[k[c].next].prev = c /\ k[k[c].prev].next = c
        /\ k[c].next \in C /\ k[c].prev \in C
      BY DEF Sound, LinksOK, WellLinked
  <2>2. CASE c = n
      BY <2>2, <1>3
  <2>3. CASE c # n /\ p = n
      BY <2>1, <2>3, <1>1, <1>4, <1>5
  <2>4. CASE c # n /\ p # n /\ p = s
      BY <2>1, <2>4, <1>1, <1>3, <1>4, <1>5
  <2>5. CASE c # n /\ p # n /\ p # s
    <3>1. g[g[c].next].prev = c
        BY <2>1, <2>5, <1>1, <1>3, <1>4, <1>5
    <3>2. g[g[c].prev].next = c
        BY <2>1, <2>5, <1>1, <1>3, <1>4, <1>5
    <3> QED
        BY <3>1, <3>2
  <2> QED
      BY <2>2, <2>3, <2>4, <2>5
<1>7. ASSUME NEW c \in C, k[c] = Self(c) PROVE g[c] = k[c]
  <2>1. c # n => c # p /\ c # s
      BY <1>1, <1>7 DEF Self
  <2> QED
      BY <2>1, <1>3, <1>4, <1>7 DEF Self
<1> QED
    BY <1>2, <1>3, <1>6, <1>7 DEF Sound, WellLinked, Self

----------------------------------------------------------------------------
(* A labelling that is constant along the links tells which list a node is *)
(* on: the head's label is the label of the whole list.                    *)
Labelled(k, C, lab) == \A c \in C : lab[k[c].next] = lab[c]

(* A removed node may take any label; the rest of its list keeps its own.  *)
LEMMA RemoveLabels ==
    ASSUME NEW C, NEW k, Sound(k, C), NEW n \in C, NEW L, NEW l \in L,
           NEW lab \in [C -> L], Labelled(k, C, lab)
    PROVE  Labelled(list_remove(k, n), C, [lab EXCEPT ![n] = l])
<1> DEFINE p == k[n].prev
           s == k[n].next
           g == list_remove(k, n)
           m == [lab EXCEPT ![n] = l]
<1>1. /\ p \in C /\ s \in C /\ DOMAIN k = C
      /\ k[p].next = n /\ k[s].prev = n
    BY DEF Sound, LinksOK, WellLinked
<1>2. g[n].next = n
    BY <1>1 DEF Sound, LinksOK, list_remove, Self
<1>3. \A c \in C \ {n} : g[c].next = IF c = p THEN s ELSE k[c].next
    BY <1>1 DEF Sound, LinksOK, list_remove, Self
<1>4. ASSUME NEW c \in C PROVE m[g[c].next] = m[c]
  <2>1. CASE c = n
      BY <2>1, <1>2
  <2>2. CASE c # n /\ c = p
    <3>1. s # n
        BY <2>2, <1>1
    <3>2. lab[s] = lab[n] /\ lab[n] = lab[p]
        BY <1>1 DEF Labelled
    <3> QED
        BY <2>2, <3>1, <3>2, <1>1, <1>3
  <2>3. CASE c # n /\ c # p
    <3>1. k[c].next \in C /\ k[c].next # n
        BY <2>3, <1>1 DEF Sound, LinksOK, WellLinked
    <3>2. lab[k[c].next] = lab[c]
        BY DEF Labelled
    <3> QED
        BY <2>3, <3>1, <3>2, <1>3
  <2> QED
      BY <2>1, <2>2, <2>3
<1> QED
    BY <1>4 DEF Labelled

(* A node that is pushed must carry the label of the list.                 *)
LEMMA PushFrontLabels ==
    ASSUME NEW C, NEW k, Sound(k, C), NEW x \in C, NEW n \in C, x # n,
           k[n] = Self(n), NEW lab, Labelled(k, C, lab), lab[n] = lab[x]
    PROVE  Labelled(list_push_front(k, x, n), C, lab)
<1> DEFINE f == k[x].next
           g == list_push_front(k, x, n)
<1>1. /\ f \in C /\ DOMAIN k = C /\ k[f].prev = x
      /\ k[n].next = n /\ k[n].prev = n
    BY DEF Sound, LinksOK, WellLinked, Self
<1>2. /\ g[n].next = f /\ g[x].next = n
      /\ \A c \in C \ {n, x} : g[c].next = k[c].next
    BY <1>1 DEF Sound, LinksOK, list_push_front
<1>3. lab[f] = lab[x]
    BY DEF Labelled
<1> QED
    BY <1>2, <1>3 DEF Labelled

-----------------------------------------------------------------------------
(* The inductive invariant of the allocator.                               *)

Listed == used \ Private

Types ==
    /\ free_list \in [Page -> SUBSET Object]
    /\ inuse \in [Page -> Int]
    /\ used \subseteq Page
    /\ new \in [Cpu -> Page \cup {NoPage}]
    /\ pc \in [Cpu -> {"idle", "new", "count", "store", "relock"}]
    /\ out \subseteq Page \X Object

\* Slabs in preparation belong to one CPU and are whole.
Preparing ==
    \A c \in Cpu :
        /\ new[c] # NoPage <=> pc[c] \in {"count", "store", "relock"}
        /\ new[c] # NoPage => new[c] \in used /\ free_list[new[c]] = Object
        /\ \A d \in Cpu : c # d /\ new[c] # NoPage => new[c] # new[d]

Objects ==
    /\ \A s \in Page, o \in Object :
          <<s, o>> \in out <=> s \in used /\ o \notin free_list[s]
    /\ \A s \in used : inuse[s] = Cardinality(OutOf(s))

\* Which list each slab is on, and what that says of its objects.
Filing(lab) ==
    /\ lab \in [Cell -> Heads \cup {NoPage}]
    /\ Labelled(h, Cell, lab)
    /\ \A x \in Heads : lab[x] = x
    /\ \A p \in Page : lab[p] = NoPage <=> p \notin Listed
    /\ \A p \in Page : lab[p] = slabs_partial => free_list[p] # {}
    /\ \A p \in Page : lab[p] = slabs_free => free_list[p] = Object

Links ==
    /\ Sound(h, Cell)
    /\ \A p \in Page : p \notin Listed => h[p] = Self(p)

IInv == Types /\ Preparing /\ Objects /\ Links /\ \E lab : Filing(lab)

----------------------------------------------------------------------------
(* Facts about the lists.                                                  *)

LEMMA HeadsDistinct ==
    /\ slabs_full # slabs_partial /\ slabs_full # slabs_free
    /\ slabs_partial # slabs_free
    /\ NoPage \notin Heads /\ Heads \cap Page = {} /\ NoPage \notin Page
BY SlabAssumption DEF slabs_full, slabs_partial, slabs_free, NoPage, Heads

(* The first node of a list that is not empty is a slab of that list.      *)
LEMMA FrontIsSlab ==
    ASSUME IInv, NEW lab, Filing(lab), NEW x \in Heads, ~Empty(x)
    PROVE  /\ front(h, x) \in Page /\ lab[front(h, x)] = x
           /\ front(h, x) \in Listed
<1>1. front(h, x) \in Cell /\ front(h, x) # x
    BY DEF IInv, Links, Sound, LinksOK, Cell, front, Empty, list_empty
<1>2. lab[front(h, x)] = x
    BY DEF Filing, Labelled, front, Cell
<1>3. front(h, x) \in Page
    BY <1>1, <1>2 DEF Filing, Cell
<1> QED
    BY <1>2, <1>3, HeadsDistinct DEF Filing

(* Moving a slab to the front of another list keeps the links sound, does  *)
(* not touch slabs on no list, and changes the label of that slab only.    *)
LEMMA MoveKeeps ==
    ASSUME IInv, NEW lab, Filing(lab), NEW s \in Page, NEW x \in Heads
    PROVE  /\ Sound(Moved(s, x), Cell)
           /\ \A p \in Page : p \notin Listed /\ p # s => Moved(s, x)[p] = Self(p)
           /\ Labelled(Moved(s, x), Cell, [lab EXCEPT ![s] = x])
<1> DEFINE g == list_remove(h, s)
           m == [lab EXCEPT ![s] = x]
<1>1. s \in Cell /\ x \in Cell /\ x # s /\ Page \subseteq Cell
    BY HeadsDistinct DEF Cell
<1>2. Sound(h, Cell) /\ \A p \in Page : p \notin Listed => h[p] = Self(p)
    BY DEF IInv, Links
<1>3. Sound(g, Cell) /\ g[s] = Self(s) /\ \A c \in Cell : h[c] = Self(c) => g[c] = h[c]
    BY <1>1, <1>2, RemoveSound
<1>4. Labelled(g, Cell, m)
    BY <1>1, <1>2, RemoveLabels, Zenon DEF Filing
<1>5. m[s] = m[x]
    BY <1>1 DEF Filing
<1>6. Sound(Moved(s, x), Cell)
      /\ \A c \in Cell \ {s} : g[c] = Self(c) /\ c # x => Moved(s, x)[c] = g[c]
    BY <1>1, <1>3, PushFrontSound DEF Moved
<1>7. Labelled(Moved(s, x), Cell, m)
    BY <1>1, <1>3, <1>4, <1>5, PushFrontLabels, Zenon DEF Moved
<1>8. ASSUME NEW p \in Page, p \notin Listed, p # s PROVE Moved(s, x)[p] = Self(p)
    BY <1>1, <1>2, <1>3, <1>6, <1>8, HeadsDistinct
<1> QED
    BY <1>6, <1>7, <1>8

----------------------------------------------------------------------------
(* Facts about the objects.                                                *)

LEMMA OutFinite ==
    ASSUME IInv, NEW s \in Page
    PROVE  /\ OutOf(s) = {o \in Object : <<s, o>> \in out}
           /\ IsFiniteSet(OutOf(s))
<1>1. OutOf(s) = {o \in Object : <<s, o>> \in out}
    BY DEF IInv, Types, OutOf
<1>2. IsFiniteSet(Object)
    BY SlabAssumption, FS_Interval DEF Object
<1> QED
    BY <1>1, <1>2, FS_Subset, Zenon

(* Taking an object off a slab that has one.                               *)
LEMMA TakeKeeps ==
    ASSUME IInv, NEW s \in used, free_list[s] # {}, Take(s), used' = used
    PROVE  /\ \E o \in free_list[s] : free_list' = [free_list EXCEPT ![s] = @ \ {o}]
           /\ free_list' \in [Page -> SUBSET Object]
           /\ inuse' \in [Page -> Int] /\ out' \subseteq Page \X Object
           /\ Objects'
<1>1. s \in Page /\ free_list \in [Page -> SUBSET Object] /\ inuse \in [Page -> Int]
      /\ out \subseteq Page \X Object /\ used \subseteq Page
    BY DEF IInv, Types
<1>2. PICK o \in free_list[s] :
        /\ free_list' = [free_list EXCEPT ![s] = @ \ {o}]
        /\ inuse' = [inuse EXCEPT ![s] = @ + 1]
        /\ out' = out \cup {<<s, o>>}
    BY Zenon DEF Take, Unlinked
<1>3. o \in Object /\ <<s, o>> \notin out
    BY <1>1 DEF IInv, Objects
<1>4. /\ free_list' \in [Page -> SUBSET Object]
      /\ inuse' \in [Page -> Int] /\ out' \subseteq Page \X Object
    BY <1>1, <1>2, <1>3
<1>5. \A t \in Page, q \in Object :
          <<t, q>> \in out' <=> t \in used /\ q \notin free_list'[t]
    BY <1>1, <1>2, <1>3, Zenon DEF IInv, Objects
<1>6. ASSUME NEW t \in used PROVE inuse'[t] = Cardinality(OutOf(t)')
  <2>1. t \in Page /\ inuse[t] = Cardinality(OutOf(t)) /\ inuse[t] \in Int
      BY <1>1 DEF IInv, Objects
  <2>2. CASE t = s
    <3>1. OutOf(s)' = OutOf(s) \cup {o} /\ o \notin OutOf(s)
        BY <1>2, <1>3 DEF OutOf
    <3>2. Cardinality(OutOf(s) \cup {o}) = Cardinality(OutOf(s)) + 1
        BY <3>1, <1>1, OutFinite, FS_AddElement, Zenon
    <3> QED
        BY <2>1, <2>2, <3>1, <3>2, <1>1, <1>2
  <2>3. CASE t # s
    <3>1. OutOf(t)' = OutOf(t)
        BY <2>3, <1>2 DEF OutOf
    <3> QED
        BY <2>1, <2>3, <3>1, <1>1, <1>2
  <2> QED
      BY <2>2, <2>3
<1>7. Objects'
    BY <1>5, <1>6 DEF Objects
<1> QED
    BY <1>2, <1>4, <1>7, Zenon

(* Giving an object back to its slab.                                      *)
LEMMA FreeKeeps ==
    ASSUME IInv, NEW c \in Cpu, NEW s \in Page, NEW o \in Object,
           slab_free(c, s, o)
    PROVE  /\ s \in Listed /\ o \notin free_list[s]
           /\ free_list' = [free_list EXCEPT ![s] = @ \cup {o}]
           /\ free_list' \in [Page -> SUBSET Object]
           /\ inuse' \in [Page -> Int] /\ out' \subseteq Page \X Object
           /\ Objects'
           /\ Emptied(s) => free_list'[s] = Object
<1>1. /\ free_list \in [Page -> SUBSET Object] /\ inuse \in [Page -> Int]
      /\ out \subseteq Page \X Object /\ used \subseteq Page
    BY DEF IInv, Types
<1>2. /\ <<s, o>> \in out /\ used' = used
      /\ free_list' = [free_list EXCEPT ![s] = @ \cup {o}]
      /\ inuse' = [inuse EXCEPT ![s] = @ - 1]
      /\ out' = out \ {<<s, o>>}
    BY DEF slab_free
<1>3. s \in used /\ o \notin free_list[s]
    BY <1>2 DEF IInv, Objects
<1>4. s \in Listed
    BY <1>3 DEF IInv, Preparing, Listed, Private
<1>5. /\ free_list' \in [Page -> SUBSET Object]
      /\ inuse' \in [Page -> Int] /\ out' \subseteq Page \X Object
    BY <1>1, <1>2
<1>6. \A t \in Page, q \in Object :
          <<t, q>> \in out' <=> t \in used /\ q \notin free_list'[t]
    BY <1>1, <1>2, <1>3, Zenon DEF IInv, Objects
<1>7. OutOf(s)' = OutOf(s) \ {o} /\ o \in OutOf(s)
    BY <1>2, <1>3 DEF OutOf
<1>8. /\ Cardinality(OutOf(s) \ {o}) = Cardinality(OutOf(s)) - 1
      /\ IsFiniteSet(OutOf(s) \ {o})
    BY <1>7, OutFinite, FS_RemoveElement
<1>9. ASSUME NEW t \in used PROVE inuse'[t] = Cardinality(OutOf(t)')
  <2>1. t \in Page /\ inuse[t] = Cardinality(OutOf(t)) /\ inuse[t] \in Int
      BY <1>1 DEF IInv, Objects
  <2>2. CASE t = s
      BY <2>1, <2>2, <1>1, <1>2, <1>7, <1>8
  <2>3. CASE t # s
    <3>1. OutOf(t)' = OutOf(t)
        BY <2>3, <1>2 DEF OutOf
    <3> QED
        BY <2>1, <2>3, <3>1, <1>1, <1>2
  <2> QED
      BY <2>2, <2>3
<1>10. Objects'
    BY <1>2, <1>6, <1>9 DEF Objects
<1>11. ASSUME Emptied(s) PROVE free_list'[s] = Object
  <2>1. Cardinality(OutOf(s) \ {o}) = 0
      BY <1>3, <1>7, <1>9, <1>11 DEF Emptied
  <2>2. OutOf(s)' = {}
      BY <2>1, <1>7, <1>8, FS_EmptySet
  <2>3. \A q \in Object : <<s, q>> \notin out'
      BY <2>2 DEF OutOf
  <2>4. \A q \in Object : q \in free_list'[s]
      BY <2>3, <1>3, <1>6, Zenon
  <2> QED
      BY <2>4, <1>5
<1> QED
    BY <1>2, <1>3, <1>4, <1>5, <1>10, <1>11

----------------------------------------------------------------------------
(* One lemma per operation.                                                *)

(* Slabs in preparation are not touched by operations on listed slabs.     *)
LEMMA ListedStep ==
    ASSUME IInv, NEW s \in Listed, UNCHANGED <<used, pc, new, tmp>>,
           \A p \in Page \ {s} : free_list'[p] = free_list[p]
    PROVE  Preparing' /\ Listed' = Listed /\ Private' = Private
<1>1. \A c \in Cpu : new[c] # NoPage => new[c] \in Page /\ new[c] # s
    BY DEF IInv, Types, Listed, Private
<1>2. Private' = Private /\ Listed' = Listed
    BY DEF Private, Listed
<1>3. Preparing'
    BY <1>1 DEF IInv, Preparing
<1> QED
    BY <1>2, <1>3

LEMMA AllocPartialKeeps ==
    ASSUME IInv, NEW c \in Cpu, AllocPartial(c)
    PROVE  IInv'
<1>1. PICK lab : Filing(lab)
    BY DEF IInv
<1>2. PICK s \in Page :
        s = front(h, slabs_partial) /\ lab[s] = slabs_partial /\ s \in Listed
    BY <1>1, FrontIsSlab DEF AllocPartial, Heads
<1>3. s \in used /\ free_list[s] # {}
    BY <1>1, <1>2 DEF Filing, Listed
<1>4. Take(s) /\ UNCHANGED <<used, pc, new, tmp>>
      /\ h' = IF BecameFull(s) THEN Moved(s, slabs_full) ELSE h
    BY <1>2 DEF AllocPartial
<1>5. /\ \E o \in free_list[s] : free_list' = [free_list EXCEPT ![s] = @ \ {o}]
      /\ free_list' \in [Page -> SUBSET Object]
      /\ inuse' \in [Page -> Int] /\ out' \subseteq Page \X Object
      /\ Objects'
    BY <1>3, <1>4, TakeKeeps
<1>6. Types'
    BY <1>4, <1>5 DEF IInv, Types
<1>7. Preparing' /\ Listed' = Listed
    BY <1>2, <1>4, <1>5, ListedStep
<1>8. CASE BecameFull(s)
  <2> DEFINE m == [lab EXCEPT ![s] = slabs_full]
  <2>1. slabs_full \in Heads /\ h' = Moved(s, slabs_full)
      BY <1>4, <1>8 DEF Heads
  <2>2. Links'
      BY <2>1, <1>1, <1>2, <1>7, MoveKeeps, Zenon DEF Links
  <2>3. Labelled(h', Cell, m)
      BY <2>1, <1>1, <1>2, MoveKeeps
  <2>4. m \in [Cell -> Heads \cup {NoPage}] /\ m[s] = slabs_full
        /\ \A x \in Cell \ {s} : m[x] = lab[x]
      BY <2>1, <1>1, <1>2 DEF Filing, Cell
  <2>5. \A p \in Page \ {s} : free_list'[p] = free_list[p]
      BY <1>5 DEF IInv, Types
  <2>6. \A x \in Heads : m[x] = x
      BY <2>4, <1>1, HeadsDistinct DEF Filing, Cell
  <2>7. \A p \in Page :
          /\ m[p] = NoPage <=> p \notin Listed
          /\ m[p] = slabs_partial => free_list'[p] # {}
          /\ m[p] = slabs_free => free_list'[p] = Object
    <3> SUFFICES ASSUME NEW p \in Page
                 PROVE  /\ m[p] = NoPage <=> p \notin Listed
                        /\ m[p] = slabs_partial => free_list'[p] # {}
                        /\ m[p] = slabs_free => free_list'[p] = Object
        OBVIOUS
    <3>1. CASE p = s
        BY <3>1, <2>4, <1>2, HeadsDistinct DEF Heads
    <3>2. CASE p # s
        BY <3>2, <2>4, <2>5, <1>1 DEF Filing, Cell
    <3> QED
        BY <3>1, <3>2
  <2>8. Filing(m)'
      BY <2>3, <2>4, <2>6, <2>7, <1>7 DEF Filing
  <2> QED
      BY <2>2, <2>8, <1>5, <1>6, <1>7 DEF IInv
<1>9. CASE ~BecameFull(s)
  <2>1. h' = h /\ free_list'[s] # {}
      BY <1>4, <1>9 DEF BecameFull
  <2>2. Links'
      BY <2>1, <1>7 DEF IInv, Links
  <2>3. Filing(lab)'
      BY <2>1, <1>1, <1>2, <1>5, <1>7, HeadsDistinct DEF Filing
  <2> QED
      BY <2>2, <2>3, <1>5, <1>6, <1>7 DEF IInv
<1> QED
    BY <1>8, <1>9

LEMMA AllocFreeKeeps ==
    ASSUME objects_per_slab >= 2, IInv, NEW c \in Cpu, AllocFree(c)
    PROVE  IInv'
<1>1. PICK lab : Filing(lab)
    BY DEF IInv
<1>2. PICK s \in Page :
        s = front(h, slabs_free) /\ lab[s] = slabs_free /\ s \in Listed
    BY <1>1, FrontIsSlab DEF AllocFree, Heads
<1>3. s \in used /\ free_list[s] = Object /\ 1 \in Object /\ 2 \in Object
    BY <1>1, <1>2, SlabAssumption DEF Filing, Listed, Object
<1>4. Take(s) /\ UNCHANGED <<used, pc, new, tmp>> /\ h' = Moved(s, slabs_partial)
    BY <1>2 DEF AllocFree
<1>5. /\ \E o \in free_list[s] : free_list' = [free_list EXCEPT ![s] = @ \ {o}]
      /\ free_list' \in [Page -> SUBSET Object]
      /\ inuse' \in [Page -> Int] /\ out' \subseteq Page \X Object
      /\ Objects'
    BY <1>3, <1>4, TakeKeeps
<1>6. Types'
    BY <1>4, <1>5 DEF IInv, Types
<1>7. Preparing' /\ Listed' = Listed
    BY <1>2, <1>4, <1>5, ListedStep
<1>8. free_list'[s] # {} /\ free_list'[s] # Object
      /\ \A p \in Page \ {s} : free_list'[p] = free_list[p]
    BY <1>2, <1>3, <1>5 DEF IInv, Types
<1> DEFINE m == [lab EXCEPT ![s] = slabs_partial]
<1>9. Links'
    BY <1>1, <1>2, <1>4, <1>7, MoveKeeps, Zenon DEF Links, Heads
<1>10. Labelled(h', Cell, m)
    BY <1>1, <1>2, <1>4, MoveKeeps, Zenon DEF Heads
<1>11. m \in [Cell -> Heads \cup {NoPage}] /\ m[s] = slabs_partial
       /\ \A x \in Cell \ {s} : m[x] = lab[x]
    BY <1>1, <1>2 DEF Filing, Cell, Heads
<1>12. \A x \in Heads : m[x] = x
    BY <1>1, <1>11, HeadsDistinct DEF Filing, Cell
<1>13. \A p \in Page :
          /\ m[p] = NoPage <=> p \notin Listed
          /\ m[p] = slabs_partial => free_list'[p] # {}
          /\ m[p] = slabs_free => free_list'[p] = Object
  <2> SUFFICES ASSUME NEW p \in Page
               PROVE  /\ m[p] = NoPage <=> p \notin Listed
                      /\ m[p] = slabs_partial => free_list'[p] # {}
                      /\ m[p] = slabs_free => free_list'[p] = Object
      OBVIOUS
  <2>1. CASE p = s
      BY <2>1, <1>2, <1>8, <1>11, HeadsDistinct DEF Heads
  <2>2. CASE p # s
      BY <2>2, <1>1, <1>8, <1>11 DEF Filing, Cell
  <2> QED
      BY <2>1, <2>2
<1>14. Filing(m)'
    BY <1>7, <1>10, <1>11, <1>12, <1>13 DEF Filing
<1> QED
    BY <1>5, <1>6, <1>7, <1>9, <1>14 DEF IInv

LEMMA SlabFreeKeeps ==
    ASSUME IInv, NEW c \in Cpu, NEW s \in Page, NEW o \in Object,
           slab_free(c, s, o)
    PROVE  IInv'
<1>1. PICK lab : Filing(lab)
    BY DEF IInv
<1>2. /\ s \in Listed /\ o \notin free_list[s]
      /\ free_list' = [free_list EXCEPT ![s] = @ \cup {o}]
      /\ free_list' \in [Page -> SUBSET Object]
      /\ inuse' \in [Page -> Int] /\ out' \subseteq Page \X Object
      /\ Objects'
      /\ Emptied(s) => free_list'[s] = Object
    BY FreeKeeps
<1>3. UNCHANGED <<used, pc, new, tmp>>
    BY DEF slab_free
<1>4. Types'
    BY <1>2, <1>3 DEF IInv, Types
<1>5. o \in free_list'[s] /\ \A p \in Page \ {s} : free_list'[p] = free_list[p]
    BY <1>2 DEF IInv, Types
<1>6. Preparing' /\ Listed' = Listed
    BY <1>2, <1>3, <1>5, ListedStep
<1>7. ASSUME NEW x \in Heads, h' = Moved(s, x), x # slabs_full,
             x = slabs_free => free_list'[s] = Object
      PROVE  IInv'
  <2> DEFINE m == [lab EXCEPT ![s] = x]
  <2>1. Links'
      BY <1>1, <1>2, <1>6, <1>7, MoveKeeps, ZenonT(30) DEF Links
  <2>2. Labelled(h', Cell, m)
      BY <1>1, <1>7, MoveKeeps
  <2>3. m \in [Cell -> Heads \cup {NoPage}] /\ m[s] = x
        /\ \A y \in Cell \ {s} : m[y] = lab[y]
      BY <1>1 DEF Filing, Cell
  <2>4. Filing(m)'
      BY <2>2, <2>3, <1>1, <1>2, <1>5, <1>6, <1>7, HeadsDistinct, SMTT(60) DEF Filing, Cell
  <2> QED
      BY <2>1, <2>4, <1>2, <1>4, <1>6 DEF IInv
<1>8. CASE was_full(s)
  <2>1. h' = Moved(s, slabs_partial)
      BY <1>8 DEF slab_free
  <2> QED
      BY <2>1, <1>7, HeadsDistinct DEF Heads
<1>9. CASE ~was_full(s) /\ Emptied(s)
  <2>1. h' = Moved(s, slabs_free)
      BY <1>9 DEF slab_free
  <2> QED
      BY <2>1, <1>2, <1>7, <1>9, HeadsDistinct DEF Heads
<1>10. CASE ~was_full(s) /\ ~Emptied(s)
  <2>1. h' = h
      BY <1>10 DEF slab_free
  <2>2. Links'
      BY <2>1, <1>6 DEF IInv, Links
  <2>3. lab[s] # slabs_free
      BY <1>1, <1>2 DEF Filing
  <2>4. Filing(lab)'
      BY <2>1, <2>3, <1>1, <1>5, <1>6 DEF Filing
  <2> QED
      BY <2>2, <2>4, <1>2, <1>4, <1>6 DEF IInv
<1> QED
    BY <1>8, <1>9, <1>10

(* A new slab, still private, gives its first object and goes to the       *)
(* partial list.                                                           *)
LEMMA AllocNewKeeps ==
    ASSUME objects_per_slab >= 2, IInv, NEW c \in Cpu, AllocNew(c)
    PROVE  IInv'
<1>1. PICK lab : Filing(lab)
    BY DEF IInv
<1>2. PICK s \in Page : s = new[c] /\ s \in used /\ free_list[s] = Object
    BY HeadsDistinct DEF AllocNew, IInv, Types, Preparing
<1>3. s \in Private /\ s \notin Listed /\ h[s] = Self(s) /\ lab[s] = NoPage
    BY <1>1, <1>2, HeadsDistinct DEF Private, Listed, IInv, Links, Filing
<1>4. /\ Take(s) /\ used' = used
      /\ h' = list_push_front(h, slabs_partial, s)
      /\ pc' = [pc EXCEPT ![c] = "idle"] /\ new' = [new EXCEPT ![c] = NoPage]
    BY <1>2 DEF AllocNew
<1>5. 1 \in Object /\ 2 \in Object
    BY SlabAssumption DEF Object
<1>6. /\ \E o \in free_list[s] : free_list' = [free_list EXCEPT ![s] = @ \ {o}]
      /\ free_list' \in [Page -> SUBSET Object]
      /\ inuse' \in [Page -> Int] /\ out' \subseteq Page \X Object
      /\ Objects'
    BY <1>2, <1>4, <1>5, TakeKeeps
<1>7. Types'
    BY <1>4, <1>6 DEF IInv, Types
<1>8. free_list'[s] # {} /\ \A p \in Page \ {s} : free_list'[p] = free_list[p]
    BY <1>2, <1>5, <1>6 DEF IInv, Types
<1>9. /\ new'[c] = NoPage /\ pc'[c] = "idle"
      /\ \A d \in Cpu \ {c} : new'[d] = new[d] /\ pc'[d] = pc[d] /\ new[d] # s
    BY <1>2, <1>4, HeadsDistinct DEF IInv, Types, Preparing
<1>10. Preparing'
  <2> SUFFICES ASSUME NEW d \in Cpu
               PROVE  /\ new'[d] # NoPage <=> pc'[d] \in {"count", "store", "relock"}
                      /\ new'[d] # NoPage => new'[d] \in used'
                                             /\ free_list'[new'[d]] = Object
                      /\ \A e \in Cpu : d # e /\ new'[d] # NoPage => new'[d] # new'[e]
      BY DEF Preparing
  <2>1. CASE d = c
      BY <2>1, <1>9
  <2>2. CASE d # c
      BY <2>2, <1>4, <1>8, <1>9, ZenonT(60) DEF IInv, Types, Preparing
  <2> QED
      BY <2>1, <2>2
<1>11. Private' = Private \ {s}
    BY <1>2, <1>9 DEF Private
<1>12. Listed' = Listed \cup {s}
    BY <1>2, <1>4, <1>11 DEF Listed
<1>13. Sound(h, Cell) /\ s \in Cell /\ slabs_partial \in Cell /\ s # slabs_partial
    BY HeadsDistinct DEF IInv, Links, Cell, Heads
<1>14. Sound(h', Cell)
       /\ \A x \in Cell \ {s} : h[x] = Self(x) /\ x # slabs_partial => h'[x] = h[x]
    BY <1>3, <1>4, <1>13, PushFrontSound
<1>15. Links'
    BY <1>12, <1>14, HeadsDistinct DEF IInv, Links, Cell, Heads
<1> DEFINE m == [lab EXCEPT ![s] = slabs_partial]
<1>16. m \in [Cell -> Heads \cup {NoPage}] /\ m[s] = slabs_partial
       /\ m[slabs_partial] = slabs_partial /\ \A x \in Cell \ {s} : m[x] = lab[x]
    BY <1>1, <1>13 DEF Filing, Cell, Heads
<1>17. Labelled(h, Cell, m)
  <2>1. ASSUME NEW x \in Cell \ {s} PROVE h[x].next \in Cell \ {s}
      BY <1>3, <1>13 DEF Sound, LinksOK, WellLinked, Self
  <2>2. h[s].next = s
      BY <1>3 DEF Self
  <2> QED
      BY <2>1, <2>2, <1>1, <1>16 DEF Labelled, Filing
<1>18. Labelled(h', Cell, m)
    BY <1>3, <1>4, <1>13, <1>16, <1>17, PushFrontLabels, Zenon
<1>19. \A x \in Heads : m[x] = x
    BY <1>1, <1>16, HeadsDistinct DEF Filing, Cell
<1>20. \A p \in Page :
          /\ m[p] = NoPage <=> p \notin Listed'
          /\ m[p] = slabs_partial => free_list'[p] # {}
          /\ m[p] = slabs_free => free_list'[p] = Object
  <2> SUFFICES ASSUME NEW p \in Page
               PROVE  /\ m[p] = NoPage <=> p \notin Listed'
                      /\ m[p] = slabs_partial => free_list'[p] # {}
                      /\ m[p] = slabs_free => free_list'[p] = Object
      OBVIOUS
  <2>1. CASE p = s
      BY <2>1, <1>8, <1>12, <1>16, HeadsDistinct DEF Heads
  <2>2. CASE p # s
      BY <2>2, <1>1, <1>8, <1>12, <1>16 DEF Filing, Cell
  <2> QED
      BY <2>1, <2>2
<1>21. Filing(m)'
    BY <1>16, <1>18, <1>19, <1>20 DEF Filing
<1> QED
    BY <1>6, <1>7, <1>10, <1>15, <1>21 DEF IInv

(* A fresh page becomes a private slab.                                    *)
LEMMA SlabNewKeeps ==
    ASSUME IInv, NEW c \in Cpu, slab_new(c)
    PROVE  IInv'
<1>1. PICK lab : Filing(lab)
    BY DEF IInv
<1>2. PICK p \in Page \ used :
        /\ used' = used \cup {p} /\ new' = [new EXCEPT ![c] = p]
        /\ free_list' = [free_list EXCEPT ![p] = Object]
        /\ inuse' = [inuse EXCEPT ![p] = 0]
    BY Zenon DEF slab_new
<1>3. /\ pc[c] = "new" /\ pc' = [pc EXCEPT ![c] = "count"]
      /\ UNCHANGED <<h, out>>
    BY DEF slab_new
<1>4. Types'
    BY <1>2, <1>3 DEF IInv, Types
<1>5. new[c] = NoPage /\ p # NoPage /\ \A d \in Cpu : new[d] # p
    BY <1>2, <1>3, HeadsDistinct DEF IInv, Preparing, Types
<1>6. Preparing'
    BY <1>2, <1>3, <1>5 DEF IInv, Types, Preparing
<1>7. Private' = Private \cup {p}
    BY <1>2, <1>5 DEF IInv, Types, Private
<1>8. Listed' = Listed /\ p \notin Listed
    BY <1>2, <1>7 DEF Listed
<1>9. OutOf(p)' = {} /\ \A t \in used : OutOf(t)' = OutOf(t)
    BY <1>2, <1>3 DEF IInv, Types, Objects, OutOf
<1>10. Objects'
  <2>1. \A t \in Page, q \in Object :
          <<t, q>> \in out' <=> t \in used' /\ q \notin free_list'[t]
      BY <1>2, <1>3, Zenon DEF IInv, Types, Objects
  <2>2. ASSUME NEW t \in used' PROVE inuse'[t] = Cardinality(OutOf(t)')
    <3>1. CASE t = p
      <4>1. inuse'[p] = 0
          BY <1>2 DEF IInv, Types
      <4>2. Cardinality(OutOf(p)') = 0
          BY <1>9, FS_EmptySet
      <4> QED
          BY <3>1, <4>1, <4>2
    <3>2. CASE t # p
      <4>1. t \in used /\ inuse'[t] = inuse[t]
          BY <3>2, <1>2 DEF IInv, Types
      <4> QED
          BY <4>1, <1>9 DEF IInv, Objects
    <3> QED
        BY <3>1, <3>2
  <2> QED
      BY <2>1, <2>2 DEF Objects
<1>11. Links'
    BY <1>3, <1>8 DEF IInv, Links
<1>12. lab[p] = NoPage /\ \A t \in Page \ {p} : free_list'[t] = free_list[t]
    BY <1>1, <1>2, <1>8 DEF Filing, IInv, Types
<1>13. Filing(lab)'
    BY <1>1, <1>3, <1>8, <1>12, HeadsDistinct DEF Filing, Heads
<1> QED
    BY <1>4, <1>6, <1>10, <1>11, <1>13 DEF IInv

(* The steps that change no slab.                                          *)
LEMMA QuietKeeps ==
    ASSUME IInv, NEW c \in Cpu,
           AllocMiss(c) \/ OutOfMemory(c) \/ CountRead(c) \/ CountStore(c)
    PROVE  IInv'
<1>1. UNCHANGED <<h, free_list, inuse, used, new, out>>
    BY DEF AllocMiss, OutOfMemory, CountRead, CountStore
<1>2. \E p \in {"idle", "new", "count", "store", "relock"} :
        /\ pc' = [pc EXCEPT ![c] = p]
        /\ p \in {"count", "store", "relock"} <=> pc[c] \in {"count", "store", "relock"}
    BY DEF AllocMiss, OutOfMemory, CountRead, CountStore
<1>3. Types' /\ Preparing'
    BY <1>1, <1>2 DEF IInv, Types, Preparing
<1>4. Private' = Private /\ Listed' = Listed /\ \A t : OutOf(t)' = OutOf(t)
    BY <1>1 DEF Private, Listed, OutOf
<1>5. Objects'
    BY <1>1, <1>4 DEF IInv, Objects
<1>6. Links' /\ (\E lab : Filing(lab)')
    BY <1>1, <1>4 DEF IInv, Links, Filing
<1> QED
    BY <1>3, <1>5, <1>6 DEF IInv

----------------------------------------------------------------------------
LEMMA InitKeeps == Init => IInv
<1> SUFFICES ASSUME Init PROVE IInv
    OBVIOUS
<1>1. Types /\ Preparing /\ Objects /\ Private = {} /\ Listed = {}
    BY HeadsDistinct DEF Init, Types, Preparing, Objects, Private, Listed
<1>2. Links
    BY DEF Init, Links, Sound, LinksOK, WellLinked, Self, Cell
<1> DEFINE lab == [x \in Cell |-> IF x \in Heads THEN x ELSE NoPage]
<1>3. Filing(lab)
    BY <1>1, HeadsDistinct DEF Init, Filing, Labelled, Self, Cell, Heads
<1> QED
    BY <1>1, <1>2, <1>3 DEF IInv

LEMMA StepKeeps ==
    ASSUME objects_per_slab >= 2
    PROVE  IInv /\ [Next]_vars => IInv'
<1> SUFFICES ASSUME IInv, [Next]_vars PROVE IInv'
    OBVIOUS
<1>1. CASE UNCHANGED vars
  <2>1. Private' = Private /\ Listed' = Listed /\ \A t : OutOf(t)' = OutOf(t)
      BY <1>1 DEF vars, Private, Listed, OutOf
  <2>2. Types' /\ Preparing' /\ Objects' /\ Links' /\ (\E lab : Filing(lab)')
      BY <2>1, <1>1, SMTT(60) DEF vars, IInv, Types, Preparing, Objects, Links, Filing
  <2> QED
      BY <2>2 DEF IInv
<1>2. ASSUME NEW c \in Cpu, Alloc(c) PROVE IInv'
    BY <1>2, AllocPartialKeeps, AllocFreeKeeps, AllocNewKeeps, SlabNewKeeps,
        QuietKeeps DEF Alloc
<1> QED
    BY <1>1, <1>2, SlabFreeKeeps DEF Next

(* When a slab holds two objects or more, an object is never given to two  *)
(* callers nor lost, inuse is exact, and the lists of slabs stay linked,   *)
(* however the CPUs interleave, the unlocked slab_new included             *)
(* (slab.c:149-293).                                                       *)
THEOREM SlabSafety ==
    objects_per_slab >= 2 => (Spec => [](ObjectsAccounted /\ ListsSound))
<1> SUFFICES ASSUME objects_per_slab >= 2
             PROVE  Spec => [](ObjectsAccounted /\ ListsSound)
    OBVIOUS
<1>1. IInv => ObjectsAccounted
  <2> SUFFICES ASSUME IInv, NEW s \in used
               PROVE  /\ OutOf(s) \cap free_list[s] = {}
                      /\ OutOf(s) \cup free_list[s] = Object
                      /\ inuse[s] = Cardinality(OutOf(s))
      BY DEF ObjectsAccounted
  <2>1. s \in Page /\ free_list[s] \subseteq Object
      BY DEF IInv, Types
  <2> QED
      BY <2>1, OutFinite, Zenon DEF IInv, Objects
<1>2. IInv => ListsSound
    BY DEF IInv, Links, Sound, ListsSound, Listed
<1> QED
    BY <1>1, <1>2, InitKeeps, StepKeeps, PTL DEF Spec
============================================================================
