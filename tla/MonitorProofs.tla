--------------------------- MODULE MonitorProofs ---------------------------
(***************************************************************************)
(* The monitor's gate, for any number of CPUs; what the monitor's          *)
(* operations do to a record of memory; and, for any machine with one CPU, *)
(* the inductive invariant of memory and what it says about the tables,    *)
(* the writable mappings and the read-only view.                           *)
(***************************************************************************)
EXTENDS Monitor, WellFoundedInduction, TLAPS

----------------------------------------------------------------------------
(* The gate.                                                               *)

\* Before the monitor is there no CPU calls it; once it is, a CPU is in it
\* with the registers that the way back needs in its own per-CPU data.
Outside(c) ==
    /\ phase \notin {"run", "failed"} => pc[c] = "off"
    /\ pc[c] = "off" => rsp[c] = "own"
    /\ phase = "run" /\ pc[c] = "idle" => wp[c] /\ rsp[c] = "own"
Inside(c) ==
    phase = "run" /\ pc[c] \notin {"off", "idle"} =>
        /\ ~wp[c] /\ rsp[c] = "monitor"
        /\ gate[c] /\ gs_cr0[c] /\ gs_rsp[c] = "own"
Gates ==
    /\ wp \in [Cpu -> BOOLEAN] /\ gs_cr0 \in [Cpu -> BOOLEAN] /\ gate \in [Cpu -> BOOLEAN]
    /\ rsp \in [Cpu -> {"none", "own", "monitor"}]
    /\ gs_rsp \in [Cpu -> {"none", "own", "monitor"}]
    /\ pc \in [Cpu -> {"off", "idle", "handler", "walk", "leave"}]
    /\ \A c \in Cpu : Outside(c) /\ Inside(c)

(* No CPU has called the monitor when kernel_main starts.                  *)
LEMMA GatesInit == Init => Gates
BY DEF Init, Gates, Outside, Inside

(* Each step of boot and of a CPU leaves WP, the stacks and the saved      *)
(* registers of all CPUs as the gate needs them.                           *)
LEMMA GatesStep == Gates /\ [Next]_vars => Gates'
<1> SUFFICES ASSUME Gates, [Next]_vars PROVE Gates'
    BY Zenon
<1>1. CASE pcd_init \/ monitor_init \/ AllocLow \/ Build \/ monitor_create_ro_mappings
    BY <1>1 DEF Gates, Outside, Inside, pcd_init, monitor_init, AllocViews, AllocLow, Build,
        monitor_create_ro_mappings, cpuVars
<1>2. CASE ViewDone
    BY <1>2 DEF Gates, Outside, Inside, ViewDone, cpuVars
<1>3. ASSUME NEW c \in Cpu, Enforce(c) PROVE Gates'
    <2>1. /\ phase \in {"run", "failed"} /\ pc[c] = "off"
          /\ wp' = [wp EXCEPT ![c] = phase = "run"] /\ pc' = [pc EXCEPT ![c] = "idle"]
          /\ UNCHANGED <<phase, rsp, gs_cr0, gs_rsp, gate>>
        BY <1>3 DEF Enforce, bootVars
    <2>2. wp' \in [Cpu -> BOOLEAN] /\ pc' \in [Cpu -> {"off", "idle", "handler", "walk", "leave"}]
        BY <2>1 DEF Gates
    <2>3. ASSUME NEW d \in Cpu PROVE Outside(d)' /\ Inside(d)'
        BY <2>1, Zenon DEF Gates, Outside, Inside
    <2> QED
        BY <2>1, <2>2, <2>3 DEF Gates
<1>4. ASSUME NEW c \in Cpu, monitor_call(c) PROVE Gates'
    <2>1. pc[c] = "idle" /\ pc' = [pc EXCEPT ![c] = "handler"] /\ phase' = phase /\ Enter(c)
        BY <1>4 DEF monitor_call, bootVars
    <2>2. CASE Direct(c)
        <3>1. phase # "run"
            BY <2>1, <2>2 DEF Direct, Privileged, Gates, Outside
        <3>2. gate' = [gate EXCEPT ![c] = FALSE] /\ UNCHANGED <<wp, rsp, gs_cr0, gs_rsp>>
            BY <2>1, <2>2 DEF Enter
        <3> QED
            BY <2>1, <3>1, <3>2 DEF Gates, Outside, Inside
    <2>3. CASE ~Direct(c)
        <3>1. phase = "run" /\ wp[c] /\ rsp[c] = "own"
            BY <2>1, <2>3 DEF Direct, Privileged, Gates, Outside
        <3>2. /\ gate' = [gate EXCEPT ![c] = TRUE]
              /\ gs_rsp' = [gs_rsp EXCEPT ![c] = "own"] /\ gs_cr0' = [gs_cr0 EXCEPT ![c] = TRUE]
              /\ wp' = [wp EXCEPT ![c] = FALSE] /\ rsp' = [rsp EXCEPT ![c] = "monitor"]
            BY <2>1, <2>3, <3>1 DEF Enter, Gates
        <3>3. ASSUME NEW d \in Cpu PROVE Outside(d)' /\ Inside(d)'
            BY <2>1, <3>1, <3>2 DEF Gates, Outside, Inside
        <3> QED
            BY <2>1, <3>2, <3>3 DEF Gates
    <2> QED
        BY <2>2, <2>3
<1>5. ASSUME NEW c \in Cpu, monitor_call_handler(c) PROVE Gates'
    <2>1. pc' \in {[pc EXCEPT ![c] = "leave"], [pc EXCEPT ![c] = "walk"]}
        BY <1>5, Zenon DEF monitor_call_handler, Goto
    <2>2. pc[c] = "handler" /\ UNCHANGED <<phase, wp, rsp, gs_cr0, gs_rsp, gate>>
        BY <1>5, Zenon DEF monitor_call_handler, bootVars
    <2> QED
        BY <2>1, <2>2 DEF Gates, Outside, Inside
<1>6. ASSUME NEW c \in Cpu, get_or_create_table(c) \/ Astray(c) PROVE Gates'
    <2>1. /\ pc[c] \notin {"off", "idle"}
          /\ pc' \in {pc, [pc EXCEPT ![c] = "walk"], [pc EXCEPT ![c] = "leave"]}
        <3>1. CASE get_or_create_table(c)
            BY <3>1 DEF get_or_create_table, Goto
        <3>2. CASE Astray(c)
            BY <3>2 DEF Astray, Goto
        <3> QED
            BY <1>6, <3>1, <3>2
    <2>2. UNCHANGED <<phase, wp, rsp, gate>>
        BY <1>6, Zenon DEF get_or_create_table, Astray, bootVars
    <2>0. UNCHANGED <<gs_rsp, gs_cr0>> \/ Nested(c)
        BY <1>6, Zenon DEF get_or_create_table, Astray
    <2>3. phase = "run" => UNCHANGED <<gs_cr0, gs_rsp>>
        BY <2>0, <2>1, Zenon DEF Nested, Direct, Privileged, Gates, Inside
    <2>4. gs_cr0' \in [Cpu -> BOOLEAN] /\ gs_rsp' \in [Cpu -> {"none", "own", "monitor"}]
        BY <2>0 DEF Nested, Gates
    <2> QED
        BY <2>1, <2>2, <2>3, <2>4 DEF Gates, Outside, Inside
<1>7. ASSUME NEW c \in Cpu, SetPte(c) PROVE Gates'
    <2>1. pc[c] = "walk" /\ pc' = [pc EXCEPT ![c] = "leave"] /\ UNCHANGED <<phase, wp, rsp, gs_cr0, gs_rsp, gate>>
        BY <1>7, Zenon DEF SetPte, Goto, bootVars
    <2> QED
        BY <2>1 DEF Gates, Outside, Inside
<1>8. ASSUME NEW c \in Cpu, Leave(c) PROVE Gates'
    <2>1. /\ pc[c] = "leave" /\ pc' = [pc EXCEPT ![c] = "idle"]
          /\ UNCHANGED <<phase, gs_cr0, gs_rsp, gate>>
        BY <1>8 DEF Leave, Goto, bootVars
    <2>2. CASE phase = "run"
        <3>1. wp' = [wp EXCEPT ![c] = TRUE] /\ rsp' = [rsp EXCEPT ![c] = "own"]
            BY <1>8, <2>1, <2>2, Zenon DEF Leave, Restored, Gates, Inside
        <3>2. ASSUME NEW d \in Cpu PROVE Outside(d)' /\ Inside(d)'
            BY <2>1, <2>2, <3>1 DEF Gates, Outside, Inside
        <3> QED
            BY <2>1, <3>1, <3>2 DEF Gates
    <2>3. CASE phase # "run"
        <3>1. /\ wp' \in [Cpu -> BOOLEAN] /\ rsp' \in [Cpu -> {"none", "own", "monitor"}]
              /\ (\A d \in Cpu \ {c} : rsp'[d] = rsp[d])
            BY <1>8 DEF Leave, Restored, Gates
        <3> QED
            BY <2>1, <2>3, <3>1, Zenon DEF Gates, Outside, Inside
    <2> QED
        BY <2>2, <2>3
<1>9. CASE UNCHANGED vars
    BY <1>9 DEF Gates, Outside, Inside, vars
<1> QED
    BY <1>1, <1>2, <1>3, <1>4, <1>5, <1>6, <1>7, <1>8, <1>9, Zenon DEF Next, Boot, Handler

(* Between calls a CPU is on its own stack with CR0.WP on, and inside the  *)
(* monitor WP is off and the stack is the monitor's, for any number of     *)
(* CPUs, however their calls and the calls that the monitor makes to       *)
(* itself interleave (monitor_call.S:41-111, monitor.c:862-876).           *)
THEOREM GateKept == Spec => []GateBalanced
<1>1. Gates => GateBalanced
    BY DEF Gates, Outside, Inside, GateBalanced
<1> QED
    BY <1>1, GatesInit, GatesStep, PTL DEF Spec

----------------------------------------------------------------------------
(* Memory: what the monitor's operations do to a record s of it.           *)

Mem == [ram : SUBSET Page, free : SUBSET Page, pcd : [Page -> PcdType],
        node : [Entry -> Page \cup {None}], leaf : [Addr -> Page \cup {None}],
        rw : SUBSET MapAddr, low : SUBSET Page, held : SUBSET Page, loose : SUBSET Page,
        ok : BOOLEAN]

\* Pages are given out once, but for loose ones: the free ones and the tables
\* are none of X, and each table is behind one entry and typed as a table if
\* it is below k.
Good(s, X, k) ==
    /\ s \in Mem /\ s.free \cap X \subseteq s.loose
    /\ \A e \in Entry : s.node[e] \notin s.loose \cup {None} =>
          /\ s.node[e] \notin s.free \cup X
          /\ s.node[e] < k => s.pcd[s.node[e]] = "NK_PGTABLE"
          /\ \A d \in Entry : d # e => s.node[d] # s.node[e]

\* What is mapped, who holds it and what has become loose is as it was.
Still(s, t) ==
    /\ t.ram = s.ram /\ t.leaf = s.leaf /\ t.rw = s.rw /\ t.low = s.low
    /\ t.held = s.held /\ t.loose = s.loose
\* The pages in use keep their types, and all keep their places.
Kept(s, t) ==
    /\ t.free \subseteq s.free /\ Still(s, t)
    /\ \A p \in Page : t.pcd[p] = s.pcd[p] \/ (p \in s.free /\ t.pcd[p] \in Nk)

(* A set of natural numbers has a least element.                           *)
LEMMA Least ==
    ASSUME NEW S, S \subseteq Nat, S # {}
    PROVE  \E x \in S : \A y \in S : x <= y
<1>1. PICK x \in S : \A y \in S : ~ (<<y, x>> \in OpToRel(<, Nat))
    BY NatLessThanWellFounded, WFMin, Zenon
<1>2. ASSUME NEW y \in S PROVE x <= y
    <2>1. <<y, x>> \in Nat \X Nat /\ <<y, x>>[1] = y /\ <<y, x>>[2] = x
        OBVIOUS
    <2>2. ~(y < x)
        BY <1>1, <2>1 DEF OpToRel
    <2> QED
        BY <2>2
<1> QED
    BY <1>2

(* The page that pmm_alloc gives out is a free one, whichever end of       *)
(* memory the free lists give pages from.                                  *)
LEMMA NextPageFree ==
    ASSUME NEW s, s.free \subseteq Page, s.free # {}
    PROVE  NextPage(s) \in s.free
<1> DEFINE S == s.free
<1>1. S \subseteq Nat
    BY MonitorAssumption, Zenon
<1>2. Min(S) \in S
    BY <1>1, Least, Zenon DEF Min
<1>3. Max(S) \in S
    <2>1. PICK last \in Page : \A p \in Page : p <= last
        BY MonitorAssumption, Zenon
    <2> DEFINE D == {last - x : x \in S}
    <2>2. D \subseteq Nat /\ D # {}
        BY <1>1, <2>1, MonitorAssumption
    <2>3. PICK d \in D : \A y \in D : d <= y
        BY <2>2, Least, Zenon
    <2>4. PICK x \in S : d = last - x
        OBVIOUS
    <2>5. ASSUME NEW y \in S PROVE y <= x
        <3>1. last - y \in D
            OBVIOUS
        <3>2. last - x <= last - y
            BY <2>3, <2>4, <3>1
        <3> QED
            BY <1>1, <2>1, <3>2, MonitorAssumption
    <2> QED
        BY <2>5, <1>1 DEF Max
<1> QED
    BY <1>2, <1>3 DEF NextPage

(* _pcd_set_type_internal changes the types of the given managed pages.    *)
LEMMA SetTypeMem ==
    ASSUME NEW s \in Mem, NEW ps, NEW t \in PcdType
    PROVE  LET u == SetType(s, ps, t)
           IN  /\ u \in Mem
               /\ u.free = s.free /\ u.node = s.node /\ Still(s, u) /\ u.ok = s.ok
               /\ \A p \in Page : u.pcd[p] = IF p \in ps /\ Managed(p) THEN t ELSE s.pcd[p]
BY Zenon DEF SetType, Mem, Still

(* pmm_alloc takes the page it gives out and types it NK_NORMAL.           *)
LEMMA AllocMem ==
    ASSUME NEW s \in Mem, s.free # {}
    PROVE  LET u == pmm_alloc(s)
           IN  /\ u \in Mem /\ NextPage(s) \in s.free
               /\ u.free = s.free \ {NextPage(s)} /\ u.node = s.node /\ Still(s, u) /\ u.ok = s.ok
               /\ \A p \in Page : u.pcd[p] = IF p = NextPage(s) /\ Managed(p)
                                             THEN "NK_NORMAL" ELSE s.pcd[p]
<1> DEFINE n == NextPage(s)
           v == [s EXCEPT !.free = @ \ {n}]
<1>1. n \in s.free
    BY NextPageFree DEF Mem
<1>2. /\ v \in Mem /\ v.free = s.free \ {n} /\ v.node = s.node /\ Still(s, v)
      /\ v.ok = s.ok /\ v.pcd = s.pcd
    BY Zenon DEF Mem, Still
<1>3. pmm_alloc(s) = SetType(v, {n}, "NK_NORMAL")
    BY DEF pmm_alloc, pcd_set_type
<1> HIDE DEF v, n
<1> QED
    BY <1>1, <1>2, <1>3, SetTypeMem DEF PcdType, Still, n

(* A new table is a page that was free, typed as a table.                  *)
LEMMA NewTableMem ==
    ASSUME NEW s \in Mem, s.free # {}, NEW e \in Entry
    PROVE  LET u == NewTable(s, e)
           IN  /\ u \in Mem /\ NextPage(s) \in s.free
               /\ u.free = s.free \ {NextPage(s)} /\ Still(s, u) /\ u.ok = s.ok
               /\ u.node = [s.node EXCEPT ![e] = NextPage(s)]
               /\ \A p \in Page : u.pcd[p] = IF p = NextPage(s) /\ Managed(p)
                                             THEN "NK_PGTABLE" ELSE s.pcd[p]
<1> DEFINE n == NextPage(s)
           a == pmm_alloc(s)
           v == SetType(a, {n}, "NK_PGTABLE")
<1>1. /\ a \in Mem /\ n \in s.free
      /\ a.free = s.free \ {n} /\ a.node = s.node /\ Still(s, a) /\ a.ok = s.ok
      /\ \A p \in Page : a.pcd[p] = IF p = n /\ Managed(p) THEN "NK_NORMAL" ELSE s.pcd[p]
    BY AllocMem, Zenon
<1> HIDE DEF a
<1>2. /\ v \in Mem
      /\ v.free = a.free /\ v.node = a.node /\ Still(a, v) /\ v.ok = a.ok
      /\ \A p \in Page : v.pcd[p] = IF p \in {n} /\ Managed(p) THEN "NK_PGTABLE" ELSE a.pcd[p]
    BY <1>1, SetTypeMem DEF PcdType
<1>3. NewTable(s, e) = [v EXCEPT !.node[e] = n]
    BY DEF NewTable, a
<1>4. n \in Page
    BY <1>1 DEF Mem
<1> HIDE DEF v, n
<1>5. LET u == [v EXCEPT !.node[e] = n]
      IN  /\ u \in Mem /\ u.free = v.free /\ Still(v, u) /\ u.ok = v.ok /\ u.pcd = v.pcd
          /\ u.node = [v.node EXCEPT ![e] = n]
    BY <1>2, <1>4, Zenon DEF Mem, Still
<1> QED
    BY <1>1, <1>2, <1>3, <1>5 DEF Still, n

(* Giving out a page, and making a table of one, keep pages apart.         *)
LEMMA AllocGood ==
    ASSUME NEW s, NEW X, Good(s, X, tracked), s.free # {}
    PROVE  /\ Good(pmm_alloc(s), X \cup {NextPage(s)}, tracked)
           /\ Kept(s, pmm_alloc(s)) /\ pmm_alloc(s).node = s.node
<1> DEFINE n == NextPage(s)
           u == pmm_alloc(s)
<1>1. /\ u \in Mem /\ n \in s.free /\ s \in Mem
      /\ u.free = s.free \ {n} /\ u.node = s.node /\ Still(s, u) /\ u.loose = s.loose
      /\ \A p \in Page : u.pcd[p] = IF p = n /\ Managed(p) THEN "NK_NORMAL" ELSE s.pcd[p]
    BY AllocMem DEF Good, Still
<1>2. \A e \in Entry : s.node[e] \in Page \cup {None}
    BY <1>1 DEF Mem
<1> HIDE DEF n, u
<1>3. Kept(s, u)
    BY <1>1, Zenon DEF Kept, Nk
<1>4. Good(u, X \cup {n}, tracked)
    BY <1>1, <1>2 DEF Good
<1> QED
    BY <1>1, <1>3, <1>4 DEF n, u

(* The table that get_or_create_table links at an entry is no other's.     *)
LEMMA TableGood ==
    ASSUME NEW s, NEW X, Good(s, X, tracked), s.free # {}, NEW e \in Entry, s.node[e] = None
    PROVE  Good(NewTable(s, e), X, tracked) /\ Kept(s, NewTable(s, e))
<1> DEFINE n == NextPage(s)
           u == NewTable(s, e)
<1>1. /\ u \in Mem /\ n \in s.free /\ s \in Mem
      /\ u.free = s.free \ {n} /\ Still(s, u) /\ u.loose = s.loose
      /\ u.node = [s.node EXCEPT ![e] = n]
      /\ \A p \in Page : u.pcd[p] = IF p = n /\ Managed(p) THEN "NK_PGTABLE" ELSE s.pcd[p]
    BY NewTableMem DEF Good, Still
<1>2. s.node \in [Entry -> Page \cup {None}] /\ n \in Page /\ n # None
    BY <1>1, MonitorAssumption DEF Mem, None
<1> HIDE DEF n, u
<1>3. Kept(s, u)
    BY <1>1, Zenon DEF Kept, Nk
<1>4. /\ u.node[e] = n /\ \A d \in Entry : d # e => u.node[d] = s.node[d]
      /\ \A d \in Entry : s.node[d] \notin s.loose \cup {None} => s.node[d] \notin s.free \cup X
    BY <1>1, <1>2, Zenon DEF Good
<1>5. ASSUME NEW d \in Entry, u.node[d] \notin u.loose \cup {None}
      PROVE  /\ u.node[d] \notin u.free \cup X
             /\ u.node[d] < tracked => u.pcd[u.node[d]] = "NK_PGTABLE"
             /\ \A f \in Entry : f # d => u.node[f] # u.node[d]
    <2>1. CASE d = e
        <3>1. u.node[d] = n /\ n \notin s.loose /\ n \notin X /\ n \notin u.free
            BY <1>1, <1>4, <1>5, <2>1, Zenon DEF Good
        <3>2. n < tracked => u.pcd[n] = "NK_PGTABLE"
            BY <1>1, <1>2, Zenon DEF Managed
        <3>3. \A f \in Entry : f # d => u.node[f] # n
            <4> SUFFICES ASSUME NEW f \in Entry, f # d, u.node[f] = n PROVE FALSE
                BY Zenon
            <4>1. s.node[f] = n
                BY <1>4, <2>1, Zenon
            <4>2. n \notin s.loose \cup {None}
                BY <1>2, <3>1, Zenon
            <4> QED
                BY <1>1, <1>4, <4>1, <4>2, Zenon
        <3> QED
            BY <3>1, <3>2, <3>3, Zenon
    <2>2. CASE d # e
        BY <1>1, <1>2, <1>4, <1>5, <2>2 DEF Good
    <2> QED
        BY <2>1, <2>2, Zenon
<1>6. Good(u, X, tracked)
    BY <1>1, <1>5 DEF Good
<1> QED
    BY <1>3, <1>6, Zenon DEF u

(* Giving out pages twice is giving out pages.                             *)
LEMMA KeptTwice ==
    ASSUME NEW s, NEW t, NEW u, Kept(s, t), Kept(t, u)
    PROVE  Kept(s, u)
BY Zenon DEF Kept, Still

(* The pages that have been given out can be counted among those in use.   *)
LEMMA Widen ==
    ASSUME NEW s, NEW t, NEW X, NEW k, Good(s, X, k), Good(t, X, k), t.node = s.node,
           t.loose = s.loose
    PROVE  Good(t, X \cup (s.free \ t.free), k)
BY DEF Good

(* So does a call of pmm_alloc that may find no page.                      *)
LEMMA TakeGood ==
    ASSUME NEW s, NEW X, Good(s, X, tracked)
    PROVE  /\ Good(Take(s), X, tracked)
           /\ Kept(s, Take(s)) /\ Take(s).node = s.node
<1>1. CASE s.free = {}
    BY <1>1, Zenon DEF Take, Kept, Still
<1>2. CASE s.free # {}
    <2>1. /\ Good(pmm_alloc(s), X \cup {NextPage(s)}, tracked)
          /\ Kept(s, pmm_alloc(s)) /\ pmm_alloc(s).node = s.node
        BY <1>2, AllocGood, Zenon
    <2>2. Good(pmm_alloc(s), X, tracked)
        BY <2>1, Zenon DEF Good
    <2> QED
        BY <1>2, <2>1, <2>2, Zenon DEF Take
<1> QED
    BY <1>1, <1>2, Zenon

(* One level of the walk of create_ro_mapping, and the whole of it: the    *)
(* page is at its place of the view unless memory ran out.                 *)
LEMMA DescendGood ==
    ASSUME NEW s, NEW X, Good(s, X, tracked), NEW a \in Addr, NEW j \in 1..3
    PROVE  Good(RoDescend(s, a, j), X, tracked) /\ Kept(s, RoDescend(s, a, j))
<1> DEFINE e == At(a, j)
<1>1. e \in Entry
    BY DEF Entry
<1> HIDE DEF e
<1>2. CASE s.ok /\ s.node[e] = None /\ s.free # {}
    <2>1. RoDescend(s, a, j) = NewTable(s, e)
        BY <1>2 DEF RoDescend, e
    <2> QED
        BY <1>1, <1>2, <2>1, TableGood
<1>3. CASE ~(s.ok /\ s.node[e] = None /\ s.free # {})
    <2> DEFINE b == s.ok /\ s.node[e] \notin Low1M \cup {None}
    <2>1. RoDescend(s, a, j) = [s EXCEPT !.ok = b]
        BY <1>3 DEF RoDescend, e
    <2>2. s \in Mem /\ b \in BOOLEAN
        BY DEF Good
    <2> HIDE DEF b
    <2> DEFINE u == [s EXCEPT !.ok = b]
    <2>3. /\ u \in Mem /\ u.free = s.free /\ u.node = s.node /\ Still(s, u) /\ u.loose = s.loose
          /\ u.pcd = s.pcd
        BY <2>2, Zenon DEF Mem, Still
    <2> HIDE DEF u
    <2>4. Good(u, X, tracked) /\ Kept(s, u)
        BY <2>3 DEF Good, Kept
    <2> QED
        BY <2>1, <2>4 DEF u
<1> QED
    BY <1>2, <1>3

(* create_ro_mapping moves no other page, and gives out only free ones.    *)
LEMMA RoGood ==
    ASSUME NEW X, Good(mem, X, tracked), NEW p \in Page
    PROVE  LET u == [create_ro_mapping(p) EXCEPT !.ok = TRUE]
           IN  /\ Good(u, X, tracked) /\ u.rw = mem.rw /\ u.free \subseteq mem.free
               /\ u.low = mem.low /\ u.held = mem.held /\ u.loose = mem.loose
               /\ \A q \in Page : u.pcd[q] = mem.pcd[q] \/ (q \in mem.free /\ u.pcd[q] \in Nk)
               /\ \A q \in Addr : q # p => u.leaf[q] = mem.leaf[q]
               /\ u.leaf[p] = IF create_ro_mapping(p).ok THEN p ELSE mem.leaf[p]
<1> DEFINE s == RoDescend(RoDescend(RoDescend(mem, p, 3), p, 2), p, 1)
           v == create_ro_mapping(p)
           u == [v EXCEPT !.ok = TRUE]
<1>1. p \in Addr
    BY DEF Addr, View
<1>2. Good(RoDescend(mem, p, 3), X, tracked) /\ Kept(mem, RoDescend(mem, p, 3))
    BY <1>1, DescendGood
<1>3. /\ Good(RoDescend(RoDescend(mem, p, 3), p, 2), X, tracked)
      /\ Kept(mem, RoDescend(RoDescend(mem, p, 3), p, 2))
    BY <1>1, <1>2, DescendGood, KeptTwice
<1>4. Good(s, X, tracked) /\ Kept(mem, s)
    BY <1>1, <1>3, DescendGood, KeptTwice
<1>5. v = IF s.ok THEN [s EXCEPT !.leaf[p] = p] ELSE s
    BY Zenon DEF create_ro_mapping
<1> HIDE DEF s, v
<1>6. s \in Mem
    BY <1>4 DEF Good
<1>7. /\ v \in Mem /\ v.free = s.free /\ v.node = s.node /\ v.rw = s.rw /\ v.pcd = s.pcd
      /\ v.low = s.low /\ v.held = s.held /\ v.loose = s.loose
      /\ v.leaf = IF v.ok THEN [s.leaf EXCEPT ![p] = p] ELSE s.leaf
    BY <1>1, <1>5, <1>6, Zenon DEF Mem
<1>8. /\ u \in Mem /\ u.free = s.free /\ u.node = s.node /\ u.rw = s.rw /\ u.pcd = s.pcd
      /\ u.leaf = v.leaf /\ u.low = s.low /\ u.held = s.held /\ u.loose = s.loose
    BY <1>7, Zenon DEF Mem
<1> HIDE DEF u
<1>9. Good(u, X, tracked)
    BY <1>4, <1>8 DEF Good
<1>10. /\ \A q \in Addr : q # p => u.leaf[q] = s.leaf[q]
       /\ u.leaf[p] = IF v.ok THEN p ELSE s.leaf[p]
    BY <1>1, <1>6, <1>7, <1>8 DEF Mem
<1> QED
    BY <1>4, <1>8, <1>9, <1>10 DEF Kept, Still, u, v

----------------------------------------------------------------------------
(* The inductive invariant of memory, for one CPU.                         *)

Reserved == views \cup kept \cup Foreign
InUse == mem.held \cup Reserved
Early == {"pcd", "monitor", "unpriv", "low", "build"}

\* The pages below j are at their places, those of m, those that callers map
\* and those that were never the monitor's excepted.
Seen(s, j, m, k) ==
    \A p \in Page \ (m \cup MapAddr \cup Foreign) : p < k /\ p < j => s.leaf[p] = p
\* The tables of the views are typed and out of the outer kernel's reach.
ViewTables(s, v, k) ==
    \A p \in v \ s.loose : p < k => s.pcd[p] = "NK_PGTABLE" /\ p \notin s.free \cup s.low
\* What is mapped writable, or about to be, is in use and not the monitor's,
\* unless it is loose.
Given(s, p, k) == p \in Page /\ (p \notin s.loose => p < k /\ s.pcd[p] \notin Nk /\ p \notin s.free)
Outer(s, k) == \A a \in s.rw : Given(s, s.leaf[a], k)
Mapping(s, r, k) ==
    /\ r.page \in Page /\ r.virt \in MapAddr \cup {LowVirt, BigVirt}
    /\ r.writable => Given(s, r.page, k)

Booting ==
    /\ phase \in Early => i = 0 /\ \A e \in Entry : mem.node[e] = None
    /\ phase \in Early \cup {"view"} => /\ mem.rw = {} /\ mem.held = {} /\ mem.loose = {}
                                        /\ \A p \in Page \ Foreign : mem.pcd[p] \in Nk
    /\ phase = "run" => i >= tracked
    /\ phase \in {"view", "run"} => ViewTables(mem, views, tracked)

Known ==
    /\ Good(mem, InUse, tracked) /\ mem.held \cap Reserved \subseteq mem.loose
    /\ Booting
    /\ Seen(mem, i, missed, tracked) /\ Outer(mem, tracked)
    /\ pc[Bsp] = "walk" => Mapping(mem, call[Bsp], tracked) /\ lv[Bsp] \in 0..3

MemInv ==
    /\ tracked \in 0..TotalPages /\ i \in Nat
    /\ views \subseteq Page \ Foreign /\ kept \subseteq Page
    /\ DOMAIN call = Cpu /\ DOMAIN lv = Cpu
    /\ ~wild => Known

(* What holds of the pages in use holds after pages have been given out.   *)
LEMMA KeptFacts ==
    ASSUME NEW s, NEW t, NEW k, Kept(s, t)
    PROVE  /\ \A j, m : Seen(s, j, m, k) => Seen(t, j, m, k)
           /\ \A p : Given(s, p, k) => Given(t, p, k)
           /\ Outer(s, k) => Outer(t, k)
           /\ \A v : v \subseteq Page /\ ViewTables(s, v, k) => ViewTables(t, v, k)
           /\ \A r : Mapping(s, r, k) => Mapping(t, r, k)
           /\ \A P : P \subseteq Page /\ (\A p \in P : s.pcd[p] \in Nk) => \A p \in P : t.pcd[p] \in Nk
<1>1. /\ t.free \subseteq s.free /\ t.leaf = s.leaf /\ t.rw = s.rw /\ t.loose = s.loose
      /\ t.low = s.low
      /\ \A p \in Page : t.pcd[p] = s.pcd[p] \/ (p \in s.free /\ t.pcd[p] \in Nk)
    BY Zenon DEF Kept, Still
<1>2. ASSUME NEW j, NEW m, Seen(s, j, m, k) PROVE Seen(t, j, m, k)
    BY <1>1, <1>2, Zenon DEF Seen
<1>3. ASSUME NEW p, Given(s, p, k) PROVE Given(t, p, k)
    BY <1>1, <1>3, Zenon DEF Given
<1>4. ASSUME NEW v, v \subseteq Page, ViewTables(s, v, k) PROVE ViewTables(t, v, k)
    BY <1>1, <1>4, Zenon DEF ViewTables
<1>5. Outer(s, k) => Outer(t, k)
    BY <1>1, <1>3, Zenon DEF Outer
<1>6. ASSUME NEW r, Mapping(s, r, k) PROVE Mapping(t, r, k)
    BY <1>3, <1>6, Zenon DEF Mapping
<1>7. ASSUME NEW P, P \subseteq Page, \A p \in P : s.pcd[p] \in Nk
      PROVE  \A p \in P : t.pcd[p] \in Nk
    BY <1>1, <1>7, Zenon
<1> QED
    BY <1>2, <1>3, <1>4, <1>5, <1>6, <1>7, Zenon

(* A write that is followed leaves the memory that it is to leave.         *)
LEMMA Followed ==
    ASSUME NEW s, NEW W, W \subseteq BOOLEAN, Write(s, W), ~wild'
    PROVE  mem' = s /\ FALSE \in W
<1>1. PICK w \in W : wild' = w /\ mem' = IF w THEN Memory({}) ELSE s
    BY Zenon DEF Write
<1>2. w = FALSE
    BY <1>1, Zenon
<1> QED
    BY <1>1, <1>2, Zenon

(* Memory as kernel_main finds it.                                         *)
LEMMA MemInit == Init => MemInv
<1> SUFFICES ASSUME Init PROVE MemInv
    OBVIOUS
<1>1. PICK ram \in Rams : mem = Memory(ram)
    BY Zenon DEF Init
<1>2. ram \subseteq Page /\ ram \cap Foreign = {}
    BY MonitorAssumption, Zenon
<1>3. mem \in Mem
    BY <1>1, <1>2, Zenon DEF Mem, Memory, PcdType
<1>4. /\ mem.free = ram /\ mem.rw = {} /\ mem.held = {} /\ mem.loose = {}
      /\ \A e \in Entry : mem.node[e] = None
      /\ \A p \in Page : mem.pcd[p] = "NK_NORMAL"
    BY <1>1, Zenon DEF Memory
<1>5. /\ views = {} /\ kept = {} /\ tracked = 0 /\ i = 0 /\ phase = "pcd" /\ pc[Bsp] = "off"
      /\ DOMAIN call = Cpu /\ DOMAIN lv = Cpu
    BY MonitorAssumption, Zenon DEF Init
<1>0. InUse = Foreign
    BY <1>4, <1>5 DEF InUse, Reserved
<1>6. Good(mem, InUse, tracked)
    BY <1>0, <1>2, <1>3, <1>4, <1>5, Zenon DEF Good
<1>7. Booting
    BY <1>4, <1>5, Zenon DEF Booting, Nk, Early
<1>8. Seen(mem, i, missed, tracked) /\ Outer(mem, tracked)
    BY <1>4, <1>5, MonitorAssumption DEF Seen, Outer
<1>9. Known
    BY <1>4, <1>5, <1>6, <1>7, <1>8, Zenon DEF Known
<1> QED
    BY <1>5, <1>9, MonitorAssumption DEF MemInv

----------------------------------------------------------------------------
(* The steps of boot.                                                      *)

(* While the monitor is being built there is no caller and no mapping.     *)
LEMMA EarlyFacts ==
    ASSUME MemInv, Gates, ~wild, phase \in Early \cup {"view"}
    PROVE  /\ pc[Bsp] = "off" /\ mem.rw = {} /\ mem.held = {} /\ mem.loose = {}
           /\ \A p \in Page \ Foreign : mem.pcd[p] \in Nk
           /\ Good(mem, InUse, tracked) /\ mem \in Mem /\ InUse = Reserved
           /\ mem.free \subseteq Page /\ mem.free \cap Reserved = {}
           /\ phase \in Early => i = 0 /\ \A e \in Entry : mem.node[e] = None
<1>1. Known
    BY DEF MemInv
<1>2. /\ mem.rw = {} /\ mem.held = {} /\ mem.loose = {}
      /\ \A p \in Page \ Foreign : mem.pcd[p] \in Nk
      /\ phase \in Early => i = 0 /\ \A e \in Entry : mem.node[e] = None
    BY <1>1, Zenon DEF Known, Booting
<1>3. pc[Bsp] = "off"
    BY MonitorAssumption, Zenon DEF Gates, Outside, Early
<1>4. Good(mem, InUse, tracked) /\ mem \in Mem
    BY <1>1, Zenon DEF Known, Good
<1>5. InUse = Reserved
    BY <1>2 DEF InUse
<1>6. mem.free \subseteq Page /\ mem.free \cap InUse \subseteq mem.loose
    BY <1>4, Zenon DEF Good, Mem
<1> QED
    BY <1>2, <1>3, <1>4, <1>5, <1>6, Zenon

(* So a step of boot has little to keep.                                   *)
LEMMA EarlyInv ==
    ASSUME MemInv, Gates, phase \in Early, phase' \in Early \cup {"view", "failed"},
           UNCHANGED <<i, missed, cpuVars>>, ~wild,
           tracked' \in 0..TotalPages, views' \subseteq Page \ Foreign, kept' \subseteq Page,
           ~wild' => /\ Good(mem', Reserved', tracked')
                     /\ mem'.rw = {} /\ mem'.held = {} /\ mem'.loose = {}
                     /\ \A e \in Entry : mem'.node[e] = None
                     /\ \A p \in Page \ Foreign : mem'.pcd[p] \in Nk
                     /\ phase' = "view" => ViewTables(mem', views', tracked')
    PROVE  MemInv'
<1>1. pc[Bsp] = "off" /\ i = 0 /\ UNCHANGED <<pc, call, lv>>
    BY EarlyFacts, Zenon DEF cpuVars
<1>2. ASSUME ~wild' PROVE Known'
    <2>1. InUse' = Reserved'
        BY <1>2 DEF InUse
    <2>2. Booting'
        BY <1>1, <1>2, Zenon DEF Booting, Early
    <2>3. Seen(mem, i, missed, tracked)' /\ Outer(mem, tracked)'
        <3>1. i' = 0 /\ mem'.rw = {} /\ \A p \in Page : ~(p < 0)
            BY <1>1, <1>2, MonitorAssumption
        <3> QED
            BY <3>1, Zenon DEF Seen, Outer
    <2> QED
        BY <1>1, <1>2, <2>1, <2>2, <2>3, Zenon DEF Known
<1>3. DOMAIN call' = Cpu /\ DOMAIN lv' = Cpu /\ i' \in Nat
    BY <1>1, Zenon DEF MemInv
<1> QED
    BY <1>2, <1>3, Zenon DEF MemInv

(* pcd_init gives every page its type.                                     *)
LEMMA PcdStep == MemInv /\ Gates /\ ~wild /\ pcd_init => MemInv'
<1> SUFFICES ASSUME MemInv, Gates, ~wild, pcd_init PROVE MemInv'
    OBVIOUS
<1>1. /\ phase = "pcd" /\ phase' = "monitor"
      /\ UNCHANGED <<views, i, missed, wild, cpuVars>>
    BY Zenon DEF pcd_init
<1>2. phase \in Early /\ phase' \in Early
    BY <1>1, Zenon DEF Early
<1>3. /\ mem.rw = {} /\ mem.held = {} /\ mem.loose = {} /\ mem \in Mem
      /\ Good(mem, Reserved, tracked) /\ mem.free \subseteq Page /\ mem.free \cap Reserved = {}
      /\ \A e \in Entry : mem.node[e] = None
      /\ \A p \in Page \ Foreign : mem.pcd[p] \in Nk
    BY <1>2, EarlyFacts, Zenon
<1>4. /\ Good(mem', Reserved', tracked') /\ tracked' \in 0..TotalPages
      /\ mem'.rw = {} /\ mem'.held = {} /\ mem'.loose = {} /\ kept' \subseteq Page
      /\ \A e \in Entry : mem'.node[e] = None
      /\ \A p \in Page \ Foreign : mem'.pcd[p] \in Nk
    <2>1. CASE mem.free = {}
        BY <1>1, <1>3, <2>1, Zenon DEF pcd_init, MemInv, Reserved
    <2>2. CASE mem.free # {}
        <3> DEFINE f == [p \in Page |-> IF p \in OkStacks /\ p < TotalPages
                                        THEN "OK_NORMAL" ELSE "NK_NORMAL"]
                   n == NextPage(mem)
        <3>1. /\ tracked' = TotalPages /\ kept' = {n}
              /\ mem' = [mem EXCEPT !.free = @ \ {n}, !.pcd = f]
            BY <2>2 DEF pcd_init
        <3>2. f \in [Page -> PcdType] /\ \A p \in Page \ Foreign : f[p] \in Nk
            BY DEF PcdType, Nk, Foreign
        <3>3. n \in mem.free
            BY <1>3, <2>2, NextPageFree, Zenon
        <3> HIDE DEF f, n
        <3>4. /\ mem' \in Mem /\ mem'.free = mem.free \ {n} /\ mem'.node = mem.node
              /\ mem'.rw = mem.rw /\ mem'.pcd = f /\ mem'.held = mem.held /\ mem'.loose = mem.loose
            BY <1>3, <3>1, <3>2, Zenon DEF Mem
        <3>5. Reserved' \subseteq Reserved \cup {n}
            BY <1>1, <3>1, Zenon DEF Reserved
        <3>6. Good(mem', Reserved', tracked')
            BY <1>3, <3>4, <3>5, Zenon DEF Good
        <3> QED
            BY <1>3, <3>1, <3>2, <3>3, <3>4, <3>6, MonitorAssumption
    <2> QED
        BY <2>1, <2>2
<1>5. views' \subseteq Page \ Foreign
    BY <1>1, Zenon DEF MemInv
<1> QED
    BY <1>1, <1>2, <1>4, <1>5, EarlyInv, Zenon

(* A group of allocations of monitor_init takes free pages for the tables  *)
(* of the views, whether all of them succeed or not.                       *)
LEMMA GroupStep ==
    ASSUME MemInv, Gates, ~wild, Kept(mem, mem'), Good(mem', InUse, tracked), mem'.node = mem.node,
           UNCHANGED <<tracked, i, missed, wild, cpuVars>>,
           phase \in {"monitor", "unpriv", "low"}, phase' \in {"unpriv", "low", "build", "failed"},
           views' \subseteq views \cup (mem.free \ mem'.free),
           kept' \subseteq kept \cup (mem.free \ mem'.free)
    PROVE  MemInv'
<1>1. phase \in Early /\ phase' \in Early \cup {"failed"} /\ phase' # "view"
    BY Zenon DEF Early
<1>2. /\ mem.rw = {} /\ mem.held = {} /\ mem.loose = {} /\ InUse = Reserved
      /\ Good(mem, InUse, tracked) /\ mem.free \subseteq Page /\ mem.free \cap Reserved = {}
      /\ \A e \in Entry : mem.node[e] = None
      /\ \A p \in Page \ Foreign : mem.pcd[p] \in Nk
    BY <1>1, EarlyFacts, Zenon
<1>3. /\ mem'.rw = {} /\ mem'.held = {} /\ mem'.loose = {}
      /\ \A p \in Page \ Foreign : mem'.pcd[p] \in Nk
    BY <1>2, KeptFacts, Zenon DEF Kept, Still
<1>4. Good(mem', Reserved', tracked')
    <2>1. Good(mem', InUse \cup (mem.free \ mem'.free), tracked)
        BY <1>2, <1>3, Widen, Zenon
    <2>2. Reserved' \subseteq InUse \cup (mem.free \ mem'.free)
        BY <1>2, Zenon DEF Reserved
    <2> QED
        BY <2>1, <2>2, Zenon DEF Good
<1>5. views' \subseteq Page \ Foreign /\ kept' \subseteq Page /\ tracked' \in 0..TotalPages
    <2>1. mem.free \cap Foreign = {}
        BY <1>2, Zenon DEF Reserved
    <2>2. views \subseteq Page \ Foreign /\ kept \subseteq Page /\ tracked \in 0..TotalPages
        BY DEF MemInv
    <2> QED
        BY <1>2, <2>1, <2>2, Zenon
<1> QED
    BY <1>1, <1>2, <1>3, <1>4, <1>5, EarlyInv, Zenon

(* monitor_init: the tables of both views and the 4 KB tables.             *)
LEMMA AllocStep == MemInv /\ Gates /\ ~wild /\ (monitor_init \/ AllocLow) => MemInv'
<1> SUFFICES ASSUME MemInv, Gates, ~wild, monitor_init \/ AllocLow PROVE MemInv'
    BY Zenon
<1>1. Good(mem, InUse, tracked)
    BY Zenon DEF MemInv, Known
<1> DEFINE s1 == Take(mem)
           s2 == Take(s1)
           s3 == Take(s2)
<1>2. Good(s1, InUse, tracked) /\ Kept(mem, s1) /\ s1.node = mem.node
    BY <1>1, TakeGood, Zenon
<1>3. Good(s2, InUse, tracked) /\ Kept(mem, s2) /\ s2.node = mem.node
    BY <1>2, TakeGood, KeptTwice, Zenon
<1>4. Good(s3, InUse, tracked) /\ Kept(mem, s3) /\ s3.node = mem.node
    BY <1>3, TakeGood, KeptTwice, Zenon
<1> HIDE DEF s1, s2, s3
<1>5. CASE monitor_init
    <2>1. /\ mem' = s3 /\ views' = views \cup (mem.free \ mem'.free) /\ kept' = kept
          /\ phase \in {"monitor", "unpriv"} /\ phase' \in {"unpriv", "low", "failed"}
          /\ UNCHANGED <<tracked, i, missed, wild, cpuVars>>
        BY <1>5, Zenon DEF monitor_init, AllocViews, s1, s2, s3
    <2> QED
        BY <1>4, <2>1, GroupStep, Zenon
<1>6. CASE AllocLow
    <2>1. /\ mem' = s2 /\ kept' = kept \cup (mem.free \ mem'.free) /\ views' = views
          /\ phase = "low" /\ phase' \in {"build", "failed"}
          /\ UNCHANGED <<tracked, i, missed, wild, cpuVars>>
        BY <1>6, Zenon DEF AllocLow, s1, s2
    <2> QED
        BY <1>3, <2>1, GroupStep, Zenon
<1> QED
    BY <1>5, <1>6

(* What Low2MB does to a record of memory.                                 *)
LEMMA LowMem ==
    ASSUME NEW s \in Mem, views \cap Foreign = {}
    PROVE  LET u == Low2MB(s)
           IN  /\ u \in Mem /\ u.free = s.free /\ u.node = s.node /\ u.rw = s.rw
               /\ u.held = s.held /\ u.loose = s.loose /\ u.low \cap views = {}
               /\ \A p \in Page : /\ p \in views /\ Managed(p) => u.pcd[p] = "NK_PGTABLE"
                                  /\ p \notin Apic => u.pcd[p] \in {s.pcd[p], "NK_PGTABLE"}
<1> DEFINE v == SetType(s, BootTables \cup views, "NK_PGTABLE")
           w == SetType(v, Apic, "NK_IO")
           l == (Low \ (BootTables \cup views)) \ monitor_protect_all_ptps(v)
<1>1. /\ v \in Mem /\ v.free = s.free /\ v.node = s.node /\ Still(s, v)
      /\ \A p \in Page : v.pcd[p] = IF p \in BootTables \cup views /\ Managed(p)
                                    THEN "NK_PGTABLE" ELSE s.pcd[p]
    BY SetTypeMem DEF PcdType
<1>2. Low2MB(s) = [w EXCEPT !.low = l]
    BY Zenon DEF Low2MB
<1>3. l \subseteq Page /\ l \cap views = {}
    BY MonitorAssumption
<1> HIDE DEF v, l
<1>4. /\ w \in Mem /\ w.free = v.free /\ w.node = v.node /\ Still(v, w)
      /\ \A p \in Page : w.pcd[p] = IF p \in Apic /\ Managed(p) THEN "NK_IO" ELSE v.pcd[p]
    BY <1>1, SetTypeMem DEF PcdType
<1> HIDE DEF w
<1>5. LET u == [w EXCEPT !.low = l]
      IN  /\ u \in Mem /\ u.free = w.free /\ u.node = w.node /\ u.rw = w.rw
          /\ u.held = w.held /\ u.loose = w.loose /\ u.low = l /\ u.pcd = w.pcd
    BY <1>3, <1>4, Zenon DEF Mem
<1>6. \A p \in Page : /\ p \in views /\ Managed(p) => w.pcd[p] = "NK_PGTABLE"
                      /\ p \notin Apic => w.pcd[p] \in {s.pcd[p], "NK_PGTABLE"}
    BY <1>1, <1>4, Zenon DEF Foreign
<1> QED
    BY <1>1, <1>2, <1>3, <1>4, <1>5, <1>6 DEF Still

(* The tables of the views are typed and lose their writable bit.          *)
LEMMA BuildStep == MemInv /\ Gates /\ ~wild /\ Build => MemInv'
<1> SUFFICES ASSUME MemInv, Gates, ~wild, Build PROVE MemInv'
    OBVIOUS
<1>1. /\ phase = "build" /\ phase' = "view"
      /\ UNCHANGED <<tracked, views, kept, i, missed, cpuVars>>
    BY Zenon DEF Build
<1>2. phase \in Early /\ phase' \in Early \cup {"view"}
    BY <1>1, Zenon DEF Early
<1>3. /\ mem.rw = {} /\ mem.held = {} /\ mem.loose = {} /\ mem \in Mem
      /\ Good(mem, Reserved, tracked) /\ mem.free \subseteq Page /\ mem.free \cap Reserved = {}
      /\ \A e \in Entry : mem.node[e] = None
      /\ \A p \in Page \ Foreign : mem.pcd[p] \in Nk
    BY <1>2, EarlyFacts, Zenon
<1>4. /\ views \subseteq Page \ Foreign /\ kept \subseteq Page /\ tracked \in 0..TotalPages
      /\ Reserved' = Reserved /\ views \subseteq Reserved
    BY <1>1, Zenon DEF MemInv, Reserved
<1>5. ASSUME ~wild' PROVE mem' = Low2MB(mem)
    <2>1. PICK hit \in SUBSET StackFix : Write(Low2MB(mem), {~(hit \subseteq mem.free)})
        BY Zenon DEF Build
    <2>2. {~(hit \subseteq mem.free)} \subseteq BOOLEAN
        BY Zenon
    <2> QED
        BY <1>5, <2>1, <2>2, Followed, Zenon
<1>6. ASSUME ~wild'
      PROVE  /\ mem' \in Mem /\ mem'.free = mem.free /\ mem'.node = mem.node /\ mem'.rw = mem.rw
             /\ mem'.held = mem.held /\ mem'.loose = mem.loose /\ mem'.low \cap views = {}
             /\ \A p \in Page : /\ p \in views /\ Managed(p) => mem'.pcd[p] = "NK_PGTABLE"
                                /\ p \notin Apic => mem'.pcd[p] \in {mem.pcd[p], "NK_PGTABLE"}
    <2>1. views \cap Foreign = {}
        BY <1>4, Zenon
    <2> QED
        BY <1>3, <1>5, <1>6, <2>1, LowMem
<1>7. ASSUME ~wild' PROVE Good(mem', Reserved', tracked')
    BY <1>1, <1>3, <1>4, <1>6, <1>7, Zenon DEF Good
<1>8. ASSUME ~wild' PROVE ViewTables(mem', views', tracked')
    <2>1. \A p \in views : p \in Page /\ p \notin mem.free /\ p \notin mem'.low
        BY <1>3, <1>4, <1>6, <1>8, Zenon
    <2> QED
        BY <1>1, <1>6, <1>8, <2>1, Zenon DEF ViewTables, Managed
<1>9. ASSUME ~wild' PROVE \A p \in Page \ Foreign : mem'.pcd[p] \in Nk
    BY <1>3, <1>6, <1>9, Zenon DEF Nk, Foreign
<1> QED
    BY <1>1, <1>2, <1>3, <1>4, <1>6, <1>7, <1>8, <1>9, EarlyInv, Zenon

(* One page of monitor_create_ro_mappings.                                 *)
LEMMA ViewStep == MemInv /\ Gates /\ ~wild /\ monitor_create_ro_mappings => MemInv'
<1> SUFFICES ASSUME MemInv, Gates, ~wild, monitor_create_ro_mappings PROVE MemInv'
    OBVIOUS
<1>1. /\ phase = "view" /\ i < tracked /\ i' = i + 1
      /\ UNCHANGED <<tracked, phase, views, kept, wild, pc, call, lv>>
    BY Zenon DEF monitor_create_ro_mappings, cpuVars
<1>2. /\ pc[Bsp] = "off" /\ mem.rw = {} /\ mem.held = {} /\ mem.loose = {} /\ mem \in Mem
      /\ Good(mem, Reserved, tracked) /\ InUse = Reserved
      /\ \A p \in Page \ Foreign : mem.pcd[p] \in Nk
    BY <1>1, EarlyFacts, Zenon
<1>3. /\ ViewTables(mem, views, tracked) /\ Seen(mem, i, missed, tracked)
      /\ i \in Page /\ i' \in Nat /\ views \subseteq Page
    BY <1>1, MonitorAssumption DEF MemInv, Known, Booting
<1>4. /\ Good(mem', Reserved, tracked) /\ mem'.free \subseteq mem.free
      /\ mem'.rw = {} /\ mem'.held = {} /\ mem'.loose = {} /\ mem'.low = mem.low
      /\ \A q \in Page : mem'.pcd[q] = mem.pcd[q] \/ (q \in mem.free /\ mem'.pcd[q] \in Nk)
      /\ missed \subseteq missed'
      /\ \A q \in Page : q # i => mem'.leaf[q] = mem.leaf[q]
      /\ i \in missed' \/ mem'.leaf[i] = i \/ i \in Foreign
    <2>1. CASE Shown(i)
        <3> DEFINE u == [create_ro_mapping(i) EXCEPT !.ok = TRUE]
        <3>1. /\ mem' = u
              /\ missed' = IF create_ro_mapping(i).ok THEN missed ELSE missed \cup {i}
            BY <2>1 DEF monitor_create_ro_mappings
        <3>2. /\ Good(u, Reserved, tracked) /\ u.rw = mem.rw /\ u.free \subseteq mem.free
              /\ u.low = mem.low /\ u.held = mem.held /\ u.loose = mem.loose
              /\ \A q \in Page : u.pcd[q] = mem.pcd[q] \/ (q \in mem.free /\ u.pcd[q] \in Nk)
              /\ \A q \in Addr : q # i => u.leaf[q] = mem.leaf[q]
              /\ u.leaf[i] = IF create_ro_mapping(i).ok THEN i ELSE mem.leaf[i]
            BY <1>2, <1>3, RoGood, Zenon
        <3> HIDE DEF u
        <3> QED
            BY <1>2, <3>1, <3>2, Zenon DEF Addr, View
    <2>2. CASE ~Shown(i)
        <3>1. mem' = mem /\ missed' = missed
            BY <2>2, Zenon DEF monitor_create_ro_mappings
        <3>2. mem.pcd[i] \notin Nk
            BY <1>1, <2>2, Zenon DEF Shown, pcd_get_type, Managed
        <3> QED
            BY <1>2, <1>3, <3>1, <3>2, Zenon
    <2> QED
        BY <2>1, <2>2
<1>5. ViewTables(mem', views, tracked)
    BY <1>2, <1>3, <1>4, Zenon DEF ViewTables
<1>6. Booting'
    BY <1>1, <1>2, <1>4, <1>5, Zenon DEF Booting, Early
<1>7. Seen(mem', i', missed', tracked)
    <2> SUFFICES ASSUME NEW p \in Page \ (missed' \cup MapAddr \cup Foreign), p < i + 1, p < tracked
                 PROVE  mem'.leaf[p] = p
        BY <1>1, Zenon DEF Seen
    <2>1. CASE p = i
        BY <1>4, <2>1, Zenon
    <2>2. CASE p # i
        <3>1. p < i /\ p \in Page \ (missed \cup MapAddr \cup Foreign)
            BY <1>3, <1>4, <2>2, MonitorAssumption
        <3> QED
            BY <1>3, <1>4, <2>2, <3>1, Zenon DEF Seen
    <2> QED
        BY <2>1, <2>2, Zenon
<1>8. Outer(mem', tracked')
    BY <1>4, Zenon DEF Outer
<1>9. InUse' = Reserved /\ Reserved' = Reserved
    BY <1>1, <1>4 DEF InUse, Reserved
<1>10. Known'
    BY <1>1, <1>2, <1>4, <1>6, <1>7, <1>8, <1>9, Zenon DEF Known
<1> QED
    BY <1>1, <1>3, <1>10, Zenon DEF MemInv

(* The last page is done.                                                  *)
LEMMA DoneStep == MemInv /\ Gates /\ ViewDone => MemInv'
<1> SUFFICES ASSUME MemInv, Gates, ViewDone PROVE MemInv'
    OBVIOUS
<1>1. /\ phase = "view" /\ (~wild => i >= tracked) /\ phase' = "run"
      /\ UNCHANGED <<mem, tracked, views, kept, i, missed, wild, pc, call, lv>>
    BY Zenon DEF ViewDone, cpuVars
<1>2. ASSUME ~wild PROVE Known'
    <2>1. Booting'
        BY <1>1, <1>2, Zenon DEF MemInv, Known, Booting, Early
    <2>2. InUse' = InUse /\ Reserved' = Reserved
        BY <1>1, Zenon DEF InUse, Reserved
    <2> QED
        BY <1>1, <1>2, <2>1, <2>2, Zenon DEF MemInv, Known
<1> QED
    BY <1>1, <1>2, Zenon DEF MemInv
----------------------------------------------------------------------------
(* The steps of the CPU.                                                   *)

\* After boot, what a step of the CPU has to keep.
Settled(s) ==
    /\ Good(s, s.held \cup Reserved, tracked) /\ s.held \cap Reserved \subseteq s.loose
    /\ phase = "run" => ViewTables(s, views, tracked)
    /\ Seen(s, i, missed, tracked) /\ Outer(s, tracked)

(* The CPU's steps leave what boot has built, and vice versa.              *)
LEMMA SettledInv ==
    ASSUME phase \in {"run", "failed"}, MemInv
    PROVE  /\ ~wild => Settled(mem)
           /\ (/\ UNCHANGED bootVars /\ DOMAIN call' = Cpu /\ DOMAIN lv' = Cpu
               /\ ~wild' => /\ ~wild /\ Settled(mem')
                            /\ pc'[Bsp] = "walk" => /\ Mapping(mem', call'[Bsp], tracked)
                                                    /\ lv'[Bsp] \in 0..3)
              => MemInv'
<1>1. ~wild => Settled(mem)
    BY Zenon DEF MemInv, Known, Settled, Booting, InUse
<1>2. ASSUME UNCHANGED bootVars, DOMAIN call' = Cpu, DOMAIN lv' = Cpu,
             ~wild' => /\ ~wild /\ Settled(mem')
                       /\ pc'[Bsp] = "walk" => /\ Mapping(mem', call'[Bsp], tracked)
                                               /\ lv'[Bsp] \in 0..3
      PROVE  MemInv'
    <2>1. UNCHANGED <<tracked, phase, views, kept, i, missed>>
        BY <1>2, Zenon DEF bootVars
    <2>2. InUse' = mem'.held \cup Reserved /\ Reserved' = Reserved
        BY <2>1, Zenon DEF InUse, Reserved
    <2>3. ASSUME ~wild' PROVE Booting'
        <3>1. phase' \notin Early \cup {"view"} /\ (phase' = "run" => i' >= tracked')
            BY <1>2, <2>1, <2>3, Zenon DEF MemInv, Known, Booting, Early
        <3> QED
            BY <1>2, <2>1, <2>3, <3>1, Zenon DEF Booting, Settled
    <2>4. ASSUME ~wild' PROVE Known'
        BY <1>2, <2>1, <2>2, <2>3, <2>4, Zenon DEF Settled, Known
    <2> QED
        BY <1>2, <2>1, <2>4, Zenon DEF MemInv
<1> QED
    BY <1>1, <1>2, Zenon

(* A CPU calls the monitor only after boot.                                *)
LEMMA Running ==
    ASSUME Gates, NEW c \in Cpu, pc[c] # "off"
    PROVE  phase \in {"run", "failed"}
BY DEF Gates, Outside

(* The arguments of a call are of their types.                             *)
LEMMA Arguments ==
    ASSUME NEW r \in Requests
    PROVE  /\ r.op \in {"FREE_PHYS", "SET_PAGE_TYPE", "MAP_PAGE"} => r.page \in Page
           /\ r.op = "SET_PAGE_TYPE" => r.type \in PcdType
           /\ r.op = "MAP_PAGE" => /\ r.virt \in MapAddr \cup {LowVirt, BigVirt}
                                   /\ r.writable \in BOOLEAN
<1>1. CASE r \in [op : {"ALLOC_PHYS", "ALLOC_PGTABLE", "UNMAP_PAGE", "GET_PAGE_TYPE"}]
    BY <1>1
<1>2. CASE r \in [op : {"FREE_PHYS"}, page : Asked]
    BY <1>2, MonitorAssumption
<1>3. CASE r \in [op : {"SET_PAGE_TYPE"}, page : Asked, type : PcdType]
    BY <1>3, MonitorAssumption
<1>4. CASE r \in [op : {"MAP_PAGE"}, page : Asked, virt : MapAddr \cup {LowVirt, BigVirt},
                  writable : BOOLEAN]
    BY <1>4, MonitorAssumption
<1> QED
    BY <1>1, <1>2, <1>3, <1>4, Zenon DEF Requests

(* The steps that do not touch memory, and those in memory that is not     *)
(* known.                                                                  *)
LEMMA QuietStep ==
    ASSUME MemInv, Gates, Cpu = {Bsp}, NEW c \in Cpu,
           Enforce(c) \/ monitor_call(c) \/ Leave(c) \/ (wild /\ Astray(c))
    PROVE  MemInv'
<1>1. c = Bsp /\ pc \in [Cpu -> {"off", "idle", "handler", "walk", "leave"}]
    BY DEF Gates
<1>2. phase \in {"run", "failed"}
    <2>1. phase \in {"run", "failed"} \/ pc[c] # "off"
        BY DEF Enforce, monitor_call, Leave, Astray
    <2> QED
        BY <2>1, Running, Zenon
<1>3. mem' = mem /\ wild' = wild /\ UNCHANGED bootVars
    BY Zenon DEF Enforce, monitor_call, Leave, Astray
<1>4. wild \/ pc'[Bsp] # "walk"
    BY <1>1 DEF Enforce, monitor_call, Leave, Goto
<1>5. DOMAIN call' = Cpu /\ DOMAIN lv' = Cpu
    <2>1. DOMAIN call = Cpu /\ DOMAIN lv = Cpu
        BY DEF MemInv
    <2>2. /\ call' = call \/ call' = [call EXCEPT ![c] = NoCall]
          /\ lv' = lv \/ lv' = [lv EXCEPT ![c] = 0]
        BY Zenon DEF Enforce, monitor_call, Leave, Astray
    <2> QED
        BY <2>1, <2>2, Zenon
<1>6. ~wild => Settled(mem')
    BY <1>2, <1>3, SettledInv, Zenon
<1> QED
    BY <1>2, <1>3, <1>4, <1>5, <1>6, SettledInv, Zenon

(* A page given to a caller is free before and the caller's afterwards,    *)
(* whatever it is typed as.                                                *)
LEMMA GiveSettled ==
    ASSUME Settled(mem), mem.free # {}, views \subseteq Page, NEW u, NEW w,
           \/ w = pmm_alloc(mem)
           \/ w = SetType(pmm_alloc(mem), {NextPage(mem)}, "NK_PGTABLE"),
           u = [w EXCEPT !.held = @ \cup {NextPage(mem)}]
    PROVE  Settled(u)
<1> DEFINE n == NextPage(mem)
           v == pmm_alloc(mem)
           X == mem.held \cup Reserved
<1>1. Good(mem, X, tracked) /\ mem \in Mem /\ mem.held \subseteq Page
    BY Zenon DEF Settled, Good, Mem
<1>2. Good(v, X \cup {n}, tracked) /\ Kept(mem, v)
    BY <1>1, AllocGood, Zenon
<1>3. n \in mem.free /\ n \in Page /\ v \in Mem
    BY <1>1, <1>2, AllocMem, Zenon DEF Good, Mem
<1> HIDE DEF n, v
<1>4. Good(w, X \cup {n}, tracked) /\ Kept(mem, w)
    <2>1. CASE w = v
        BY <1>2, <2>1, Zenon
    <2>2. CASE w = SetType(v, {n}, "NK_PGTABLE")
        <3>1. /\ w \in Mem /\ w.free = v.free /\ w.node = v.node /\ Still(v, w) /\ w.loose = v.loose
              /\ \A p \in Page : w.pcd[p] = IF p \in {n} /\ Managed(p) THEN "NK_PGTABLE" ELSE v.pcd[p]
            BY <1>3, <2>2, SetTypeMem DEF PcdType, Still
        <3>2. Kept(mem, w)
            BY <1>2, <1>3, <3>1, Zenon DEF Kept, Still, Nk
        <3>3. \A e \in Entry : v.node[e] \in Page \cup {None}
            BY <1>3, Zenon DEF Mem
        <3>4. Good(w, X \cup {n}, tracked)
            BY <1>2, <3>1, <3>3 DEF Good
        <3> QED
            BY <3>2, <3>4, Zenon
    <2> QED
        BY <2>1, <2>2, Zenon DEF n, v
<1>5. w \in Mem /\ w.held = mem.held /\ w.loose = mem.loose
    BY <1>4, Zenon DEF Good, Kept, Still
<1>6. /\ u \in Mem /\ u.held = mem.held \cup {n} /\ u.free = w.free /\ u.node = w.node
      /\ u.leaf = w.leaf /\ u.rw = w.rw /\ u.low = w.low /\ u.loose = w.loose /\ u.pcd = w.pcd
    BY <1>3, <1>5, Zenon DEF Mem, n
<1>7. /\ (phase = "run" => ViewTables(w, views, tracked))
      /\ Seen(w, i, missed, tracked) /\ Outer(w, tracked)
    BY <1>4, KeptFacts, Zenon DEF Settled
<1>8. /\ (phase = "run" => ViewTables(u, views, tracked))
      /\ Seen(u, i, missed, tracked) /\ Outer(u, tracked)
    BY <1>6, <1>7, Zenon DEF ViewTables, Seen, Outer, Given
<1>9. Good(u, u.held \cup Reserved, tracked)
    BY <1>4, <1>6, Zenon DEF Good
<1>10. u.held \cap Reserved \subseteq u.loose
    <2>1. mem.free \cap X \subseteq mem.loose /\ mem.held \cap Reserved \subseteq mem.loose
        BY <1>1, Zenon DEF Good, Settled
    <2> QED
        BY <1>3, <1>5, <1>6, <2>1, Zenon
<1> QED
    BY <1>8, <1>9, <1>10, Zenon DEF Settled

(* A page can be given back by the caller that holds it, unless it is      *)
(* mapped writable; given back by anybody else it becomes loose.           *)
LEMMA FreeSettled ==
    ASSUME NEW s, Settled(s), NEW p \in Page, NEW u \in Mem, views \subseteq Page,
           u.free = s.free \cup {p}, u.held = s.held \ {p}, u.node = s.node, u.leaf = s.leaf,
           u.rw = s.rw, u.low = s.low, u.pcd = s.pcd, s.loose \subseteq u.loose,
           p \in u.loose \/ (p \in s.held /\ \A a \in s.rw : s.leaf[a] # p)
    PROVE  Settled(u)
<1>1. Good(s, s.held \cup Reserved, tracked) /\ s.held \cap Reserved \subseteq s.loose
    BY Zenon DEF Settled
<1>2. p \in u.loose \/ p \notin Reserved
    BY <1>1, Zenon
<1>3. \A e \in Entry : u.node[e] \notin u.loose \cup {None} =>
        /\ u.node[e] # p /\ u.node[e] \notin s.free \cup s.held \cup Reserved
    <2>1. \A e \in Entry : u.node[e] \notin u.loose \cup {None} =>
            u.node[e] \notin s.free \cup (s.held \cup Reserved)
        BY <1>1, Zenon DEF Good
    <2> QED
        BY <2>1, Zenon
<1>4. u.free \cap (u.held \cup Reserved) \subseteq u.loose
    BY <1>1, <1>2, Zenon DEF Good
<1>5. Good(u, u.held \cup Reserved, tracked)
    <2>1. \A e \in Entry : u.node[e] \notin u.loose \cup {None} =>
            /\ u.node[e] < tracked => u.pcd[u.node[e]] = "NK_PGTABLE"
            /\ \A d \in Entry : d # e => u.node[d] # u.node[e]
        BY <1>1, Zenon DEF Good
    <2>2. \A e \in Entry : u.node[e] \notin u.loose \cup {None} =>
            u.node[e] \notin u.free \cup (u.held \cup Reserved)
        BY <1>3, Zenon
    <2> QED
        BY <1>4, <2>1, <2>2, Zenon DEF Good
<1>6. Outer(u, tracked) /\ Seen(u, i, missed, tracked)
    BY Zenon DEF Settled, Outer, Seen, Given
<1>7. phase = "run" => ViewTables(u, views, tracked)
    BY <1>2, Zenon DEF Settled, ViewTables, Reserved
<1>8. u.held \cap Reserved \subseteq u.loose
    BY <1>1, Zenon
<1> QED
    BY <1>5, <1>6, <1>7, <1>8, Zenon DEF Settled

(* Nor does the type of such a page matter to anything but the caller.     *)
LEMMA TypeSettled ==
    ASSUME NEW s, Settled(s), NEW p \in Page, NEW u \in Mem, views \subseteq Page,
           u.free = s.free, u.held = s.held, u.node = s.node, u.leaf = s.leaf,
           u.rw = s.rw, u.low = s.low, s.loose \subseteq u.loose,
           \A q \in Page : q # p => u.pcd[q] = s.pcd[q],
           p \in u.loose \/ (p \in s.held /\ \A a \in s.rw : s.leaf[a] # p)
    PROVE  Settled(u)
<1>1. Good(s, s.held \cup Reserved, tracked) /\ s.held \cap Reserved \subseteq s.loose
    BY Zenon DEF Settled
<1>2. p \in u.loose \/ p \notin Reserved
    BY <1>1, Zenon
<1>3. \A e \in Entry : u.node[e] \notin u.loose \cup {None} =>
        /\ u.node[e] # p /\ u.node[e] \in Page
    <2>1. \A e \in Entry : u.node[e] \in Page \cup {None}
        BY Zenon DEF Mem
    <2>2. \A e \in Entry : u.node[e] \notin u.loose \cup {None} => u.node[e] \notin s.held \cup Reserved
        BY <1>1, Zenon DEF Good
    <2> QED
        BY <1>2, <2>1, <2>2, Zenon
<1>4. Good(u, u.held \cup Reserved, tracked)
    <2>1. \A e \in Entry : u.node[e] \notin u.loose \cup {None} =>
            /\ u.node[e] \notin u.free \cup (u.held \cup Reserved)
            /\ u.node[e] < tracked => s.pcd[u.node[e]] = "NK_PGTABLE"
            /\ \A d \in Entry : d # e => u.node[d] # u.node[e]
        BY <1>1, Zenon DEF Good
    <2>2. u.free \cap (u.held \cup Reserved) \subseteq u.loose
        BY <1>1, Zenon DEF Good
    <2> QED
        BY <1>3, <2>1, <2>2, Zenon DEF Good
<1>5. Outer(u, tracked) /\ Seen(u, i, missed, tracked)
    BY Zenon DEF Settled, Outer, Seen, Given
<1>6. phase = "run" => ViewTables(u, views, tracked)
    BY <1>2, Zenon DEF Settled, ViewTables, Reserved
<1>7. u.held \cap Reserved \subseteq u.loose
    BY <1>1, Zenon
<1> QED
    BY <1>4, <1>5, <1>6, <1>7, Zenon DEF Settled

(* A page that becomes loose is one page fewer to speak of.                *)
LEMMA LooseSettled ==
    ASSUME NEW s, Settled(s), NEW u \in Mem,
           u.free = s.free, u.held = s.held, u.node = s.node, u.leaf = s.leaf,
           u.rw = s.rw, u.low = s.low, u.pcd = s.pcd, s.loose \subseteq u.loose
    PROVE  Settled(u)
<1>1. Good(u, u.held \cup Reserved, tracked) /\ u.held \cap Reserved \subseteq u.loose
    BY Zenon DEF Settled, Good
<1>2. /\ (phase = "run" => ViewTables(u, views, tracked))
      /\ Outer(u, tracked) /\ Seen(u, i, missed, tracked)
    BY Zenon DEF Settled, ViewTables, Outer, Seen, Given
<1> QED
    BY <1>1, <1>2, Zenon DEF Settled

(* monitor_call_handler.                                                   *)
LEMMA HandlerStep ==
    ASSUME MemInv, Gates, Cpu = {Bsp}, ~wild, NEW c \in Cpu, monitor_call_handler(c)
    PROVE  MemInv'
<1>1. /\ c = Bsp /\ pc \in [Cpu -> {"off", "idle", "handler", "walk", "leave"}]
      /\ pc[Bsp] = "handler" /\ UNCHANGED bootVars
    BY Zenon DEF Gates, monitor_call_handler
<1>2. phase \in {"run", "failed"}
    BY <1>1, Running, Zenon
<1>3. /\ Settled(mem) /\ mem \in Mem /\ views \subseteq Page
      /\ DOMAIN call = Cpu /\ DOMAIN lv = Cpu
    <2>1. Settled(mem)
        BY <1>2, SettledInv, Zenon
    <2> QED
        BY <2>1, Zenon DEF MemInv, Settled, Good
<1>4. CASE UNCHANGED <<mem, wild, call, lv>> /\ Goto(c, "leave")
    <2>1. pc'[Bsp] = "leave"
        BY <1>1, <1>4, Zenon DEF Goto
    <2> QED
        BY <1>1, <1>2, <1>3, <1>4, <2>1, SettledInv, Zenon
<1>5. ASSUME NEW r \in Requests,
             Write([Handle(r) EXCEPT !.loose = Loosened(r)],
                   IF GivenAway(r) THEN BOOLEAN ELSE {FALSE}),
             IF r.op = "MAP_PAGE" /\ ~(Refused(r.page) /\ r.writable)
             THEN /\ Goto(c, "walk")
                  /\ call' = [call EXCEPT ![c] = r] /\ lv' = [lv EXCEPT ![c] = 3]
             ELSE Goto(c, "leave") /\ UNCHANGED <<call, lv>>
      PROVE  MemInv'
    <2> DEFINE h == Handle(r)
               L == Loosened(r)
    <2>1. ASSUME ~wild' PROVE mem' = [h EXCEPT !.loose = L]
        <3>1. (IF GivenAway(r) THEN BOOLEAN ELSE {FALSE}) \subseteq BOOLEAN
            BY Zenon
        <3> QED
            BY <1>5, <2>1, <3>1, Followed, Zenon
    <2>2. /\ r.op \in {"FREE_PHYS", "SET_PAGE_TYPE", "MAP_PAGE"} => r.page \in Page
          /\ r.op = "SET_PAGE_TYPE" => r.type \in PcdType
          /\ r.op = "MAP_PAGE" => /\ r.virt \in MapAddr \cup {LowVirt, BigVirt}
                                  /\ r.writable \in BOOLEAN
        BY <1>5, Arguments, Zenon
    <2>3. /\ mem.loose \subseteq L /\ L \subseteq Page
          /\ r.op \in {"FREE_PHYS", "SET_PAGE_TYPE"} =>
                r.page \in L \/ (r.page \in mem.held /\ \A a \in mem.rw : mem.leaf[a] # r.page)
          /\ r.op = "MAP_PAGE" => r.page \in L \/ r.page \notin mem.free
          /\ r.op \in {"ALLOC_PHYS", "ALLOC_PGTABLE"} => L = mem.loose
        <3>1. mem.loose \subseteq Page
            BY <1>3, Zenon DEF Mem
        <3>2. CASE Proper(r)
            BY <3>1, <3>2, Zenon DEF Loosened, Proper
        <3>3. CASE ~Proper(r)
            <4>1. L = mem.loose \cup {r.page}
                BY <3>3, Zenon DEF Loosened
            <4>2. r.op \in {"FREE_PHYS", "SET_PAGE_TYPE", "MAP_PAGE"}
                BY <3>3, Zenon DEF Proper
            <4> QED
                BY <2>2, <3>1, <4>1, <4>2
        <3> QED
            BY <3>2, <3>3, Zenon
    <2> HIDE DEF L
    <2>4. \/ h = mem
          \/ /\ mem.free # {} /\ r.op \in {"ALLOC_PHYS", "ALLOC_PGTABLE"}
             /\ \/ h = [pmm_alloc(mem) EXCEPT !.held = @ \cup {NextPage(mem)}]
                \/ h = [SetType(pmm_alloc(mem), {NextPage(mem)}, "NK_PGTABLE") EXCEPT
                           !.held = @ \cup {NextPage(mem)}]
          \/ /\ r.op = "FREE_PHYS"
             /\ h = [mem EXCEPT !.free = @ \cup {r.page}, !.held = @ \ {r.page}]
          \/ r.op = "SET_PAGE_TYPE" /\ h = SetType(mem, {r.page}, r.type)
        BY Zenon DEF Handle
    <2>5. r.op = "MAP_PAGE" => h = mem
        BY Zenon DEF Handle
    <2> HIDE DEF h
    <2>6. ASSUME ~wild', h \in Mem
          PROVE  /\ mem' \in Mem /\ mem'.loose = L /\ mem'.free = h.free /\ mem'.held = h.held
                 /\ mem'.node = h.node /\ mem'.leaf = h.leaf /\ mem'.rw = h.rw /\ mem'.low = h.low
                 /\ mem'.pcd = h.pcd
        BY <2>1, <2>3, <2>6, Zenon DEF Mem
    <2>7. ASSUME ~wild' PROVE Settled(mem')
        <3>1. CASE h = mem
            BY <1>3, <2>3, <2>6, <2>7, <3>1, LooseSettled
        <3>2. CASE /\ mem.free # {} /\ r.op \in {"ALLOC_PHYS", "ALLOC_PGTABLE"}
                   /\ \/ h = [pmm_alloc(mem) EXCEPT !.held = @ \cup {NextPage(mem)}]
                      \/ h = [SetType(pmm_alloc(mem), {NextPage(mem)}, "NK_PGTABLE") EXCEPT
                                 !.held = @ \cup {NextPage(mem)}]
            <4>1. Settled(h) /\ h \in Mem
                <5>1. Settled(h)
                    BY <1>3, <3>2, GiveSettled
                <5> QED
                    BY <5>1, Zenon DEF Settled, Good
            <4>2. h.loose = mem.loose
                <5>1. pmm_alloc(mem) \in Mem /\ pmm_alloc(mem).loose = mem.loose
                    BY <1>3, <3>2, AllocMem DEF Still
                <5>2. /\ SetType(pmm_alloc(mem), {NextPage(mem)}, "NK_PGTABLE") \in Mem
                      /\ SetType(pmm_alloc(mem), {NextPage(mem)}, "NK_PGTABLE").loose = mem.loose
                    BY <5>1, SetTypeMem DEF PcdType, Still
                <5> QED
                    BY <3>2, <5>1, <5>2, Zenon DEF Mem
            <4> QED
                BY <2>3, <2>6, <2>7, <3>2, <4>1, <4>2, LooseSettled
        <3>3. CASE /\ r.op = "FREE_PHYS"
                   /\ h = [mem EXCEPT !.free = @ \cup {r.page}, !.held = @ \ {r.page}]
            <4>1. /\ h \in Mem /\ h.free = mem.free \cup {r.page} /\ h.held = mem.held \ {r.page}
                  /\ h.node = mem.node /\ h.leaf = mem.leaf /\ h.rw = mem.rw /\ h.low = mem.low
                  /\ h.pcd = mem.pcd
                BY <1>3, <2>2, <3>3 DEF Mem
            <4> QED
                BY <1>3, <2>2, <2>3, <2>6, <2>7, <3>3, <4>1, FreeSettled
        <3>4. CASE r.op = "SET_PAGE_TYPE" /\ h = SetType(mem, {r.page}, r.type)
            <4>1. /\ h \in Mem /\ h.free = mem.free /\ h.held = mem.held
                  /\ h.node = mem.node /\ h.leaf = mem.leaf /\ h.rw = mem.rw /\ h.low = mem.low
                  /\ \A q \in Page : q # r.page => h.pcd[q] = mem.pcd[q]
                BY <1>3, <2>2, <3>4, SetTypeMem DEF Still
            <4>2. /\ mem' \in Mem /\ mem'.free = mem.free /\ mem'.held = mem.held
                  /\ mem'.node = mem.node /\ mem'.leaf = mem.leaf /\ mem'.rw = mem.rw
                  /\ mem'.low = mem.low /\ mem'.loose = L
                  /\ \A q \in Page : q # r.page => mem'.pcd[q] = mem.pcd[q]
                BY <2>6, <2>7, <4>1, Zenon
            <4>3. /\ r.page \in Page /\ mem.loose \subseteq mem'.loose
                  /\ \/ r.page \in mem'.loose
                     \/ r.page \in mem.held /\ \A a \in mem.rw : mem.leaf[a] # r.page
                BY <2>2, <2>3, <3>4, <4>2, Zenon
            <4> QED
                BY <1>3, <4>2, <4>3, TypeSettled
        <3> QED
            BY <2>4, <3>1, <3>2, <3>3, <3>4, Zenon
    <2>8. CASE r.op = "MAP_PAGE" /\ ~(Refused(r.page) /\ r.writable)
        <3>1. /\ pc'[Bsp] = "walk" /\ call'[Bsp] = r /\ lv'[Bsp] = 3
              /\ DOMAIN call' = Cpu /\ DOMAIN lv' = Cpu
            BY <1>1, <1>3, <1>5, <2>8, Zenon DEF Goto
        <3>2. ASSUME ~wild' PROVE Mapping(mem', r, tracked)
            <4>1. mem'.loose = L /\ mem'.free = mem.free /\ mem'.pcd = mem.pcd
                BY <1>3, <2>5, <2>6, <2>8, <3>2, Zenon
            <4>2. r.writable => r.page < tracked /\ mem.pcd[r.page] \notin Nk
                BY <2>8, Zenon DEF Refused, pcd_get_type, Managed, Nk
            <4> QED
                BY <2>2, <2>3, <2>8, <4>1, <4>2, Zenon DEF Mapping, Given
        <3>3. lv'[Bsp] \in 0..3
            BY <3>1
        <3> QED
            BY <1>1, <1>2, <2>7, <3>1, <3>2, <3>3, SettledInv, Zenon
    <2>9. CASE ~(r.op = "MAP_PAGE" /\ ~(Refused(r.page) /\ r.writable))
        <3>1. pc'[Bsp] = "leave" /\ DOMAIN call' = Cpu /\ DOMAIN lv' = Cpu
            BY <1>1, <1>3, <1>5, <2>9, Zenon DEF Goto
        <3> QED
            BY <1>1, <1>2, <2>7, <3>1, SettledInv, Zenon
    <2> QED
        BY <2>8, <2>9, Zenon
<1> QED
    BY <1>4, <1>5, Zenon DEF monitor_call_handler

(* get_or_create_table.                                                    *)
LEMMA WalkStep ==
    ASSUME MemInv, Gates, Cpu = {Bsp}, ~wild, NEW c \in Cpu, get_or_create_table(c)
    PROVE  MemInv'
<1> DEFINE r == call[Bsp]
           e == At(r.virt, lv[Bsp])
<1>1. /\ c = Bsp /\ pc \in [Cpu -> {"off", "idle", "handler", "walk", "leave"}]
      /\ pc[Bsp] = "walk" /\ UNCHANGED <<bootVars, call>> /\ ~Walked(Bsp)
    BY Zenon DEF Gates, get_or_create_table
<1>2. \/ lv' = [lv EXCEPT ![Bsp] = @ - 1] /\ pc' = pc
      \/ pc' = [pc EXCEPT ![Bsp] = "leave"] /\ lv' = lv
    BY <1>1, Zenon DEF get_or_create_table, Goto
<1>3. phase \in {"run", "failed"}
    BY <1>1, Running, Zenon
<1>4. /\ Settled(mem) /\ Mapping(mem, r, tracked) /\ lv[Bsp] \in 1..3 /\ r.virt \in Addr
      /\ DOMAIN call' = Cpu /\ DOMAIN lv' = Cpu /\ DOMAIN lv = Cpu /\ views \subseteq Page
    <2>1. Settled(mem)
        BY <1>3, SettledInv, Zenon
    <2>2. /\ Mapping(mem, r, tracked) /\ lv[Bsp] \in 0..3
          /\ DOMAIN call = Cpu /\ DOMAIN lv = Cpu /\ views \subseteq Page
        BY <1>1, Zenon DEF MemInv, Known
    <2>3. DOMAIN call' = Cpu /\ DOMAIN lv' = Cpu
        BY <1>1, <1>2, <2>2, Zenon
    <2>4. lv[Bsp] # 0 /\ r.virt \in Addr
        BY <1>1, Zenon DEF Walked
    <2>5. lv[Bsp] \in 1..3
        BY <2>2, <2>4
    <2> QED
        BY <2>1, <2>2, <2>3, <2>4, <2>5, Zenon
<1>5. e \in Entry
    BY <1>4 DEF Entry
<1>6. ASSUME ~wild', mem' # mem
      PROVE  mem.node[e] = None /\ mem.free # {} /\ mem' = NewTable(mem, e)
    <2> DEFINE W == IF NextPage(mem) \in Structures THEN {TRUE} ELSE BOOLEAN
    <2>1. mem.node[e] = None /\ mem.free # {} /\ Write(NewTable(mem, e), W)
        BY <1>1, <1>6, Zenon DEF get_or_create_table
    <2>2. W \subseteq BOOLEAN
        BY Zenon
    <2> HIDE DEF W
    <2> QED
        BY <1>6, <2>1, <2>2, Followed, Zenon
<1> HIDE DEF r, e
<1>7. ASSUME ~wild' PROVE Settled(mem') /\ Mapping(mem', r, tracked)
    <2>1. CASE mem' = mem
        BY <1>4, <2>1, Zenon
    <2>2. CASE mem' # mem
        <3>1. Good(mem, mem.held \cup Reserved, tracked) /\ mem.held \cap Reserved \subseteq mem.loose
            BY <1>4, Zenon DEF Settled
        <3>2. Good(mem', mem.held \cup Reserved, tracked) /\ Kept(mem, mem')
            BY <1>5, <1>6, <1>7, <2>2, <3>1, TableGood, Zenon
        <3>3. mem'.held = mem.held /\ mem'.loose = mem.loose
            BY <3>2, Zenon DEF Kept, Still
        <3>4. /\ (phase = "run" => ViewTables(mem', views, tracked))
              /\ Seen(mem', i, missed, tracked) /\ Outer(mem', tracked)
              /\ Mapping(mem', r, tracked)
            BY <1>4, <3>2, KeptFacts, Zenon DEF Settled
        <3> QED
            BY <3>1, <3>2, <3>3, <3>4, Zenon DEF Settled
    <2> QED
        BY <2>1, <2>2, Zenon
<1>8. call'[Bsp] = r /\ (pc'[Bsp] = "walk" => lv'[Bsp] \in 0..3)
    <2>1. pc'[Bsp] = "walk" => lv'[Bsp] \in 0..3
        BY <1>1, <1>2, <1>4
    <2> QED
        BY <1>1, <2>1, Zenon DEF r
<1> QED
    BY <1>1, <1>3, <1>4, <1>7, <1>8, SettledInv, Zenon

(* The end of monitor_map_page.                                            *)
LEMMA PteStep ==
    ASSUME MemInv, Gates, Cpu = {Bsp}, ~wild, NEW c \in Cpu, SetPte(c)
    PROVE  MemInv'
<1> DEFINE r == call[Bsp]
           W == IF phase # "run" \/ r.virt = BigVirt THEN {TRUE}
                ELSE IF r.writable /\ r.page \in Structures THEN BOOLEAN ELSE {FALSE}
<1>1. /\ c = Bsp /\ pc \in [Cpu -> {"off", "idle", "handler", "walk", "leave"}]
      /\ pc[Bsp] = "walk" /\ UNCHANGED bootVars /\ pc' = [pc EXCEPT ![Bsp] = "leave"]
      /\ call' = [call EXCEPT ![Bsp] = NoCall] /\ lv' = [lv EXCEPT ![Bsp] = 0]
    BY Zenon DEF Gates, SetPte, Goto
<1>0. Write(Mapped(mem, r), W)
    BY <1>1, Zenon DEF SetPte
<1>2. phase \in {"run", "failed"}
    BY <1>1, Running, Zenon
<1>3. /\ Settled(mem) /\ Mapping(mem, r, tracked) /\ mem \in Mem /\ views \subseteq Page
      /\ DOMAIN call' = Cpu /\ DOMAIN lv' = Cpu /\ pc'[Bsp] = "leave"
    <2>1. Settled(mem)
        BY <1>2, SettledInv, Zenon
    <2>2. Mapping(mem, r, tracked) /\ DOMAIN call = Cpu /\ DOMAIN lv = Cpu /\ views \subseteq Page
        BY <1>1, Zenon DEF MemInv, Known
    <2>3. mem \in Mem
        BY <2>1, Zenon DEF Settled, Good
    <2> QED
        BY <1>1, <2>1, <2>2, <2>3, Zenon
<1>4. ASSUME ~wild' PROVE mem' = Mapped(mem, r) /\ phase = "run" /\ r.virt # BigVirt
    <2>1. W \subseteq BOOLEAN /\ (FALSE \in W => phase = "run" /\ r.virt # BigVirt)
        BY Zenon
    <2> HIDE DEF W
    <2> QED
        BY <1>0, <1>4, <2>1, Followed, Zenon
<1> HIDE DEF r, W
<1>5. CASE r.virt = LowVirt
    <2> DEFINE l == IF r.writable THEN mem.low \cup {r.page} ELSE mem.low
    <2>1. l \subseteq Page /\ l \subseteq mem.low \cup {r.page} /\ (r.page \in l => r.page \in mem.low \/ r.writable)
        <3>1. mem.low \subseteq Page /\ r.page \in Page
            BY <1>3, Zenon DEF Mem, Mapping
        <3> QED
            BY <3>1
    <2>2. ASSUME ~wild' PROVE mem' = [mem EXCEPT !.low = l]
        BY <1>4, <1>5, <2>2 DEF Mapped
    <2> HIDE DEF l
    <2>3. ASSUME ~wild'
          PROVE  /\ mem' \in Mem /\ mem'.low = l /\ mem'.free = mem.free /\ mem'.held = mem.held
                 /\ mem'.node = mem.node /\ mem'.leaf = mem.leaf /\ mem'.rw = mem.rw
                 /\ mem'.pcd = mem.pcd /\ mem'.loose = mem.loose
        BY <1>3, <2>1, <2>2, <2>3, Zenon DEF Mem
    <2>4. ASSUME ~wild', phase = "run" PROVE ViewTables(mem', views, tracked)
        <3> SUFFICES ASSUME NEW p \in views \ mem.loose, p < tracked
                     PROVE  mem.pcd[p] = "NK_PGTABLE" /\ p \notin mem.free \cup l
            BY <2>3, <2>4, Zenon DEF ViewTables
        <3>1. mem.pcd[p] = "NK_PGTABLE" /\ p \notin mem.free \cup mem.low
            BY <1>3, <2>4, Zenon DEF Settled, ViewTables
        <3>2. ASSUME p = r.page, r.writable PROVE FALSE
            BY <1>3, <3>1, <3>2, Zenon DEF Mapping, Given, Nk
        <3> QED
            BY <2>1, <3>1, <3>2, Zenon
    <2>5. ASSUME ~wild' PROVE Settled(mem')
        <3>1. Good(mem', mem'.held \cup Reserved, tracked) /\ mem'.held \cap Reserved \subseteq mem'.loose
            BY <1>3, <2>3, <2>5, Zenon DEF Settled, Good
        <3>2. Seen(mem', i, missed, tracked) /\ Outer(mem', tracked)
            BY <1>3, <2>3, <2>5, Zenon DEF Settled, Seen, Outer, Given
        <3> QED
            BY <2>4, <2>5, <3>1, <3>2, Zenon DEF Settled
    <2> QED
        BY <1>1, <1>2, <1>3, <2>5, SettledInv, Zenon
<1>6. CASE r.virt # LowVirt
    <2> DEFINE w == IF r.writable THEN mem.rw \cup {r.virt} ELSE mem.rw \ {r.virt}
    <2>1. ASSUME ~wild'
          PROVE  /\ r.virt \in MapAddr /\ r.virt \in Addr /\ r.page \in Page
                 /\ mem' = [mem EXCEPT !.leaf[r.virt] = r.page, !.rw = w]
        <3>1. r.virt \in MapAddr /\ r.page \in Page
            BY <1>3, <1>4, <1>6, <2>1, Zenon DEF Mapping
        <3> QED
            BY <1>4, <1>6, <2>1, <3>1 DEF Mapped, Addr
    <2>2. /\ (\A a \in w : a # r.virt => a \in mem.rw) /\ (r.virt \in w => r.writable)
          /\ (r.virt \in MapAddr => w \subseteq MapAddr)
        <3>1. mem.rw \subseteq MapAddr
            BY <1>3, Zenon DEF Mem
        <3> QED
            BY <3>1
    <2> HIDE DEF w
    <2>3. ASSUME ~wild'
          PROVE  /\ mem' \in Mem /\ mem'.rw = w /\ mem'.free = mem.free /\ mem'.held = mem.held
                 /\ mem'.node = mem.node /\ mem'.pcd = mem.pcd /\ mem'.loose = mem.loose
                 /\ mem'.low = mem.low /\ mem'.leaf = [mem.leaf EXCEPT ![r.virt] = r.page]
        <3> DEFINE f == [mem.leaf EXCEPT ![r.virt] = r.page]
        <3>1. mem' = [mem EXCEPT !.leaf = f, !.rw = w] /\ mem \in Mem /\ w \subseteq MapAddr
            BY <1>3, <2>1, <2>2, <2>3, Zenon
        <3>2. f \in [Addr -> Page \cup {None}]
            BY <1>3, <2>1, <2>3, Zenon DEF Mem
        <3> HIDE DEF f
        <3>3. /\ mem' \in Mem /\ mem'.rw = w /\ mem'.free = mem.free /\ mem'.held = mem.held
              /\ mem'.node = mem.node /\ mem'.pcd = mem.pcd /\ mem'.loose = mem.loose
              /\ mem'.low = mem.low /\ mem'.leaf = f
            BY <3>1, <3>2, Zenon DEF Mem
        <3> QED
            BY <3>3, Zenon DEF f
    <2>4. ASSUME ~wild'
          PROVE  mem'.leaf[r.virt] = r.page /\ \A a \in Addr : a # r.virt => mem'.leaf[a] = mem.leaf[a]
        <3>1. mem.leaf \in [Addr -> Page \cup {None}] /\ r.virt \in Addr
            BY <1>3, <2>1, <2>4, Zenon DEF Mem
        <3> QED
            BY <2>3, <2>4, <3>1, Zenon
    <2>5. ASSUME ~wild' PROVE Seen(mem', i, missed, tracked)
        BY <1>3, <2>1, <2>4, <2>5, Zenon DEF Settled, Seen, Addr, View
    <2>6. ASSUME ~wild' PROVE Outer(mem', tracked)
        <3> SUFFICES ASSUME NEW a \in w PROVE Given(mem', mem'.leaf[a], tracked)
            BY <2>3, <2>6, Zenon DEF Outer
        <3>1. \A p : Given(mem, p, tracked) => Given(mem', p, tracked)
            BY <2>3, <2>6, Zenon DEF Given
        <3>2. CASE a = r.virt
            BY <1>3, <2>2, <2>4, <2>6, <3>1, <3>2, Zenon DEF Mapping
        <3>3. CASE a # r.virt
            <4>1. a \in mem.rw /\ a \in Addr
                BY <1>3, <2>2, <3>3, Zenon DEF Mem, Addr
            <4> QED
                BY <1>3, <2>4, <2>6, <3>1, <3>3, <4>1, Zenon DEF Settled, Outer
        <3> QED
            BY <3>2, <3>3, Zenon
    <2>7. ASSUME ~wild' PROVE Settled(mem')
        <3>1. Good(mem', mem'.held \cup Reserved, tracked) /\ mem'.held \cap Reserved \subseteq mem'.loose
            BY <1>3, <2>3, <2>7, Zenon DEF Settled, Good
        <3>2. phase = "run" => ViewTables(mem', views, tracked)
            BY <1>3, <2>3, <2>7, Zenon DEF Settled, ViewTables
        <3> QED
            BY <2>5, <2>6, <2>7, <3>1, <3>2, Zenon DEF Settled
    <2> QED
        BY <1>1, <1>2, <1>3, <2>7, SettledInv, Zenon
<1> QED
    BY <1>5, <1>6, Zenon

----------------------------------------------------------------------------
(* What the invariant of memory says.                                      *)

(* Every step of boot and of the CPU keeps the invariant of memory.        *)
LEMMA MemStep == Cpu = {Bsp} /\ MemInv /\ Gates /\ [Next]_vars => MemInv'
<1> SUFFICES ASSUME Cpu = {Bsp}, MemInv, Gates, [Next]_vars PROVE MemInv'
    BY Zenon
<1>1. CASE UNCHANGED vars
    <2>1. UNCHANGED <<mem, tracked, phase, views, kept, i, missed, wild, pc, call, lv>>
        BY <1>1, Zenon DEF vars
    <2>2. InUse' = InUse /\ Reserved' = Reserved /\ (Booting' <=> Booting)
        BY <2>1, Zenon DEF InUse, Reserved, Booting
    <2>3. Known' <=> Known
        BY <2>1, <2>2, Zenon DEF Known
    <2> QED
        BY <2>1, <2>3, Zenon DEF MemInv
<1>2. CASE (~wild /\ Boot) \/ ViewDone
    BY <1>2, PcdStep, AllocStep, BuildStep, ViewStep, DoneStep, Zenon DEF Boot
<1>3. ASSUME NEW c \in Cpu,
             \/ Enforce(c) \/ monitor_call(c) \/ Leave(c)
             \/ (~wild /\ Handler(c)) \/ (wild /\ Astray(c))
      PROVE  MemInv'
    BY <1>3, QuietStep, HandlerStep, WalkStep, PteStep, Zenon DEF Handler
<1> QED
    BY <1>1, <1>2, <1>3, Zenon DEF Next

(* The invariant of memory holds of every behaviour with one CPU.          *)
LEMMA MemAlways == Cpu = {Bsp} => (Spec => []MemInv)
<1> SUFFICES ASSUME Cpu = {Bsp} PROVE Spec => []MemInv
    OBVIOUS
<1>1. MemInv /\ Gates /\ [Next]_vars => MemInv'
    BY MemStep
<1> QED
    BY <1>1, MemInit, GatesInit, GatesStep, PTL DEF Spec

(* The pages that the shared view uses as tables are in use, each behind   *)
(* one entry, and typed as tables (monitor.c:310-339, 675-691, 831-842,    *)
(* 913-927), for any machine with one CPU, any layout of its memory and    *)
(* any sequence of calls with any arguments.  A table that a caller frees  *)
(* or retypes (monitor.c:794-808) loses that, and no other table does; a   *)
(* table that was not cleared and turns out to hold old entries            *)
(* (monitor.c:920) ends what is known of memory.                           *)
THEOREM TablesStayTyped == Cpu = {Bsp} => (Spec => []TablesTyped)
<1> SUFFICES ASSUME Cpu = {Bsp} PROVE Spec => []TablesTyped
    OBVIOUS
<1>1. MemInv => TablesTyped
    <2> SUFFICES ASSUME MemInv, ~wild PROVE TablesTyped
        BY Zenon DEF TablesTyped
    <2>1. Good(mem, InUse, tracked) /\ (phase \in {"view", "run"} => ViewTables(mem, views, tracked))
        BY Zenon DEF MemInv, Known, Booting
    <2> QED
        BY <2>1 DEF TablesTyped, Good, ViewTables, InUse, Reserved, Managed
<1> QED
    BY <1>1, MemAlways, PTL

(* A page that is mapped writable is not the monitor's, and not a table    *)
(* (monitor.c:942): it stays so from the check of its type, through the    *)
(* tables that the walk makes, the allocations and the requests about      *)
(* other pages that follow, until a caller frees or retypes the page       *)
(* itself (monitor.c:794-808), for any machine with one CPU.               *)
THEOREM OnlyOuterWritable == Cpu = {Bsp} => (Spec => []WritableIsOuter)
<1> SUFFICES ASSUME Cpu = {Bsp} PROVE Spec => []WritableIsOuter
    OBVIOUS
<1>1. MemInv => WritableIsOuter
    BY Zenon DEF MemInv, Known, Outer, Given, WritableIsOuter, pcd_get_type, Managed
<1> QED
    BY <1>1, MemAlways, PTL

(* Once the outer kernel runs, every page of the monitor's is visible      *)
(* read-only at its place, except where memory ran out on the way or a     *)
(* caller maps the place itself (monitor.c:483), while memory is known.    *)
THEOREM ViewStaysComplete == Cpu = {Bsp} => (Spec => []ViewComplete)
<1> SUFFICES ASSUME Cpu = {Bsp} PROVE Spec => []ViewComplete
    OBVIOUS
<1>1. MemInv => ViewComplete
    <2> SUFFICES ASSUME MemInv, phase = "run", ~wild,
                        NEW p \in Page \ (missed \cup MapAddr \cup Foreign), Managed(p)
                 PROVE  mem.leaf[p] = p /\ p \notin mem.rw
        BY Zenon DEF ViewComplete
    <2>1. p \notin mem.rw
        BY Zenon DEF MemInv, Known, Good, Mem
    <2>2. p < i /\ p < tracked
        <3>1. i >= tracked /\ i \in Nat /\ tracked \in Nat /\ p \in Nat
            BY MonitorAssumption DEF MemInv, Known, Booting
        <3> QED
            BY <3>1 DEF Managed
    <2> QED
        BY <2>1, <2>2, Zenon DEF MemInv, Known, Seen
<1> QED
    BY <1>1, MemAlways, PTL
============================================================================
