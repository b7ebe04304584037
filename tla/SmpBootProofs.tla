--------------------------- MODULE SmpBootProofs ---------------------------
(* No two processors share an index, a stack or per-CPU data, for any      *)
(* number of APs and any pattern of timeouts.                              *)
EXTENDS SmpBoot, FiniteSetTheorems, TLAPS

\* The APs that have not taken an index.
Early == {"off", "reset", "trampoline", "index"}

Types ==
    /\ bsp \in BspPc /\ i \in 1..actual_cpu_count
    /\ next_cpu_id \in Nat \ {0}
    /\ ap \in [AP -> ApPc]
    /\ my_index \in [AP -> Nat] /\ gs \in [AP -> Nat] /\ stack \in [AP -> Nat]

\* The BSP resets only APs that it has not started before.
Untouched ==
    /\ bsp \in IpiSteps \cup {"wait"} => i < actual_cpu_count
    /\ \A a \in AP : a > i \/ (a = i /\ bsp \in {"next", "INIT"}) => ap[a] = "off"

Numbering ==
    \A a \in AP :
        /\ my_index[a] < next_cpu_id
        /\ ap[a] \in Early => my_index[a] = 0
        /\ ap[a] = "setup" => my_index[a] # 0
        /\ Running(a) => my_index[a] # 0 /\ gs[a] = my_index[a]
                         /\ stack[a] = my_index[a]

Unique ==
    \A a, b \in AP : a # b /\ my_index[a] # 0 => my_index[a] # my_index[b]

IInv == Types /\ Untouched /\ Numbering /\ Unique

(* The BSP's steps change the hardware state of the AP in hand only.       *)
LEMMA BspStepKeeps ==
    ASSUME IInv, BspStep
    PROVE  IInv'
<1> USE SmpAssumption
<1>1. CASE StartNext
    BY <1>1 DEF StartNext, apVars, IInv, Types, Untouched, Numbering, Unique,
        Running, BspPc, IpiSteps
<1>2. CASE IpiAccepted
    <2>1. i \in AP /\ ap' = [ap EXCEPT ![i] = Accepted(bsp, ap[i])] /\ bsp \in IpiSteps
        BY <1>2 DEF IpiAccepted, IInv, Types, Untouched, AP
    <2>2. /\ bsp = "INIT" => ap[i] = "off"
          /\ ap[i] \in Early => Accepted(bsp, ap[i]) \in Early
          /\ ap[i] \notin Early => Accepted(bsp, ap[i]) = ap[i]
          /\ Accepted(bsp, ap[i]) \in ApPc
        BY <2>1 DEF IInv, Untouched, Types, Accepted, Early, ApPc, IpiSteps
    <2>3. /\ bsp' \in {"DEASSERT", "SIPI1", "SIPI2", "wait"} /\ i' = i
          /\ UNCHANGED <<next_cpu_id, my_index, gs, stack>>
        BY <1>2 DEF IpiAccepted, AfterIpi, IpiSteps, apVars
    <2>4. Types'
        BY <2>1, <2>2, <2>3 DEF IInv, Types, BspPc, IpiSteps
    <2>5. Untouched'
        BY <2>1, <2>3 DEF IInv, Types, Untouched, IpiSteps, AP
    <2>6. Numbering' /\ Unique'
        BY <2>1, <2>2, <2>3 DEF IInv, Types, Numbering, Unique, Running, Early
    <2> QED
        BY <2>4, <2>5, <2>6 DEF IInv
<1>3. CASE IpiTimeout
    <2>1. i \in AP /\ bsp \in IpiSteps /\ i < actual_cpu_count
        BY <1>3 DEF IpiTimeout, IInv, Types, Untouched, AP
    <2>2. PICK hw \in {ap[i], Accepted(bsp, ap[i])} : ap' = [ap EXCEPT ![i] = hw]
        BY <1>3 DEF IpiTimeout
    <2>3. /\ bsp = "INIT" => ap[i] = "off"
          /\ ap[i] \in Early => hw \in Early
          /\ ap[i] \notin Early => hw = ap[i]
          /\ hw \in ApPc
        BY <2>1, <2>2 DEF IInv, Untouched, Types, Accepted, Early, ApPc, IpiSteps
    <2>4. /\ bsp' = "next" /\ i' = i + 1
          /\ UNCHANGED <<next_cpu_id, my_index, gs, stack>>
        BY <1>3 DEF IpiTimeout, GiveUp, apVars
    <2>5. Types'
        BY <2>1, <2>2, <2>3, <2>4 DEF IInv, Types, BspPc
    <2>6. Untouched'
        BY <2>1, <2>2, <2>4 DEF IInv, Types, Untouched, IpiSteps, AP
    <2>7. Numbering' /\ Unique'
        BY <2>1, <2>2, <2>3, <2>4 DEF IInv, Types, Numbering, Unique, Running, Early
    <2> QED
        BY <2>5, <2>6, <2>7 DEF IInv
<1>4. CASE ApSeenReady \/ WaitTimeout
  <2>1. /\ bsp = "wait" /\ bsp' = "next" /\ i' = i + 1
        /\ UNCHANGED <<ap, next_cpu_id, my_index, gs, stack>>
      BY <1>4 DEF ApSeenReady, WaitTimeout, apVars
  <2>2. Types'
      BY <2>1 DEF IInv, Types, Untouched, BspPc, IpiSteps
  <2>3. Untouched'
      BY <2>1 DEF IInv, Types, Untouched, IpiSteps, AP
  <2>4. Numbering' /\ Unique'
      BY <2>1 DEF IInv, Numbering, Unique, Running
  <2> QED
      BY <2>2, <2>3, <2>4 DEF IInv
<1>5. CASE Report
    BY <1>5 DEF Report, apVars, IInv, Types, Untouched, Numbering, Unique,
        Running, BspPc, IpiSteps, AP
<1> QED
    BY <1>1, <1>2, <1>3, <1>4, <1>5 DEF BspStep

(* An AP's steps change that AP, which the BSP has started.                *)
LEMMA ApStepKeeps ==
    ASSUME IInv, NEW a \in AP, ApStep(a)
    PROVE  IInv'
<1>1. /\ ap[a] # "off" /\ bsp' = bsp /\ i' = i
      /\ \A b \in AP : b # a => ap'[b] = ap[b]
      /\ DOMAIN ap' = AP
    BY DEF ApStep, Trampoline, ApIndex, ApSetup, ApOnline, ApReady, ApCount,
        Goto, bspVars, IInv, Types
<1>2. Untouched'
    BY <1>1 DEF IInv, Untouched
<1>3. CASE Trampoline(a)
    BY <1>2, <1>3 DEF Trampoline, Goto, bspVars, apVars, IInv, Types, Numbering,
        Unique, Running, Early, ApPc
<1>4. CASE ApIndex(a)
  <2>1. /\ my_index' = [my_index EXCEPT ![a] = next_cpu_id]
        /\ next_cpu_id' = next_cpu_id + 1 /\ UNCHANGED <<bsp, i, gs, stack>>
        /\ next_cpu_id # 0
        /\ ap' = [ap EXCEPT ![a] = "setup"] \/ ap' = [ap EXCEPT ![a] = "halted"]
      BY <1>4 DEF ApIndex, TakeIndex, Goto, bspVars, IInv, Types
  <2>2. Types'
      BY <2>1 DEF IInv, Types, ApPc
  <2>3. Numbering'
      BY <2>1 DEF IInv, Types, Numbering, Running, Early
  <2>4. Unique'
      BY <2>1 DEF IInv, Types, Numbering, Unique
  <2> QED
      BY <1>2, <2>2, <2>3, <2>4 DEF IInv
<1>5. CASE ApSetup(a)
    BY <1>2, <1>5 DEF ApSetup, PerCpu, Goto, bspVars, IInv, Types, Numbering,
        Unique, Running, Early, ApPc
<1>6. CASE ApOnline(a) \/ ApReady(a) \/ ApCount(a)
    BY <1>2, <1>6 DEF ApOnline, ApReady, ApCount, Goto, bspVars, apVars, IInv,
        Types, Numbering, Unique, Running, Early, ApPc
<1> QED
    BY <1>3, <1>4, <1>5, <1>6 DEF ApStep

(* However slow or late the APs are and whichever waits time out, no two   *)
(* running APs share an index, a stack or per-CPU data, and none has the   *)
(* BSP's (ap_start, smp.c:300-324).                                        *)
THEOREM CpusArePrivate == Spec => []PrivateCpus
<1>1. Init => IInv
    BY SmpAssumption DEF Init, IInv, Types, Untouched, Numbering, Unique, Running,
        Early, AP, BspPc, IpiSteps, ApPc, Shared
<1>2. IInv /\ [Next]_vars => IInv'
  <2> SUFFICES ASSUME IInv, [Next]_vars PROVE IInv'
      OBVIOUS
  <2>1. CASE UNCHANGED vars
      BY <2>1 DEF vars, IInv, Types, Untouched, Numbering, Unique, Running
  <2> QED
      BY <2>1, BspStepKeeps, ApStepKeeps DEF Next
<1>3. IInv => PrivateCpus
    BY DEF IInv, Types, Numbering, Unique, PrivateCpus, Running, Numbered, Shared
<1> QED
    BY <1>1, <1>2, <1>3, PTL DEF Spec

----------------------------------------------------------------------------
NumberedAps == {a \in AP : Numbered(a)}
Polling == {a \in AP : ap[a] = "polling"}

\* Every index given out belongs to an AP, so none is missing for the others.
Counting ==
    /\ next_cpu_id = 1 + Cardinality(NumberedAps)
    /\ \A a \in AP : ap[a] # "halted"
    /\ current_cpu_index \in Index /\ gs \in [AP -> Index] /\ stack \in [AP -> Index]
    /\ reported \in -1..(actual_cpu_count - 1)

Announced ==
    /\ cpu_state \in [Index -> CpuState]
    /\ ReadyTruthful

(* There are actual_cpu_count - 1 APs.                                     *)
LEMMA ApCardinality ==
    ASSUME NEW S \in SUBSET AP
    PROVE  /\ IsFiniteSet(S) /\ Cardinality(S) \in 0..(actual_cpu_count - 1)
           /\ \A a \in AP \ S : Cardinality(S) < actual_cpu_count - 1
                                /\ Cardinality(S \cup {a}) = Cardinality(S) + 1
<1>1. IsFiniteSet(AP) /\ Cardinality(AP) = actual_cpu_count - 1
    BY FS_Interval, SmpAssumption DEF AP
<1>2. IsFiniteSet(S) /\ Cardinality(S) \in Nat /\ Cardinality(S) <= Cardinality(AP)
    BY <1>1, FS_Subset, FS_CardinalityType
<1>3. ASSUME NEW a \in AP \ S
      PROVE  Cardinality(S) < Cardinality(AP) /\ Cardinality(S \cup {a}) = Cardinality(S) + 1
  <2>1. Cardinality(S \cup {a}) = Cardinality(S) + 1
      BY <1>2, FS_AddElement
  <2>2. S \cup {a} \in SUBSET AP
      OBVIOUS
  <2>3. Cardinality(S \cup {a}) <= Cardinality(AP)
      BY <1>1, <2>2, FS_Subset
  <2> QED
      BY <1>1, <1>2, <2>1, <2>3, SmpAssumption
<1> QED
    BY <1>1, <1>2, <1>3, SmpAssumption

(* The BSP gives no index and leaves the APs that run alone.               *)
LEMMA BspStepCounts ==
    ASSUME IInv, Counting, Announced, BspStep
    PROVE  Counting' /\ Announced'
<1> USE SmpAssumption
<1>1. /\ UNCHANGED <<next_cpu_id, my_index, gs, stack, ready_cpus, current_cpu_index>>
      /\ ap' \in [AP -> ApPc]
      /\ \A a \in AP : ap[a] \notin Early \/ ap'[a] \notin Early => ap'[a] = ap[a]
  <2>1. CASE bsp \in IpiSteps /\ (IpiAccepted \/ IpiTimeout)
    <3>1. i \in AP
        BY <2>1 DEF IInv, Types, Untouched, AP
    <3>2. PICK hw \in {ap[i], Accepted(bsp, ap[i])} : ap' = [ap EXCEPT ![i] = hw]
        BY <2>1 DEF IpiAccepted, IpiTimeout
    <3>3. /\ ap[i] \in Early => hw \in Early
          /\ ap[i] \notin Early => hw = ap[i]
          /\ hw \in ApPc
        BY <3>1, <3>2, <2>1 DEF IInv, Untouched, Types, Accepted, Early, ApPc, IpiSteps
    <3>4. UNCHANGED <<next_cpu_id, my_index, gs, stack, ready_cpus, current_cpu_index>>
        BY <2>1 DEF IpiAccepted, IpiTimeout, apVars
    <3> QED
        BY <3>1, <3>2, <3>3, <3>4 DEF IInv, Types
  <2>2. CASE StartNext \/ ApSeenReady \/ WaitTimeout \/ Report
      BY <2>2 DEF StartNext, ApSeenReady, WaitTimeout, Report, apVars, IInv, Types
  <2> QED
      BY <2>1, <2>2 DEF BspStep, IpiAccepted, IpiTimeout
<1>2. NumberedAps' = NumberedAps /\ Polling' = Polling
    BY <1>1 DEF NumberedAps, Numbered, Polling, Early
<1>3. reported' \in -1..(actual_cpu_count - 1)
  <2>1. CASE Report
    <3> DEFINE R == {c \in AP : cpu_state[c] = "READY"}
    <3>1. R \in SUBSET AP
        OBVIOUS
    <3>2. Cardinality(R) \in 0..(actual_cpu_count - 1)
        BY <3>1, ApCardinality
    <3> QED
        BY <2>1, <3>2 DEF Report
  <2> QED
      BY <2>1 DEF BspStep, StartNext, IpiAccepted, IpiTimeout, ApSeenReady, WaitTimeout, Counting
<1>4. Counting'
    BY <1>1, <1>2, <1>3 DEF Counting, Early
<1>5. /\ cpu_state' \in [Index -> CpuState]
      /\ \A c \in Index : cpu_state'[c] = "READY" => cpu_state[c] = "READY"
    BY DEF BspStep, StartNext, IpiAccepted, IpiTimeout, ApSeenReady, WaitTimeout, Report,
        Announced, CpuState, apVars
<1>6. ReadyTruthful'
    BY <1>1, <1>2, <1>5 DEF Announced, ReadyTruthful, Polling, Early
<1> QED
    BY <1>4, <1>5, <1>6 DEF Announced

(* An AP that takes an index finds one left, since it has none yet; the    *)
(* slot it announces itself in is its own.                                 *)
LEMMA ApStepCounts ==
    ASSUME IInv, Counting, Announced, NEW a \in AP, ApStep(a)
    PROVE  Counting' /\ Announced'
<1> USE SmpAssumption
<1>1. CASE ApIndex(a)
  <2>1. /\ my_index' = [my_index EXCEPT ![a] = next_cpu_id]
        /\ next_cpu_id' = next_cpu_id + 1
        /\ ap[a] = "index" /\ my_index[a] = 0 /\ my_index'[a] = next_cpu_id
        /\ UNCHANGED <<reported, cpu_state, current_cpu_index, ready_cpus, gs, stack>>
      BY <1>1 DEF ApIndex, TakeIndex, bspVars, IInv, Types, Numbering, Early
  <2>2. NumberedAps \in SUBSET AP /\ a \in AP \ NumberedAps
      BY <2>1 DEF NumberedAps, Numbered
  <2>3. /\ Cardinality(NumberedAps) < actual_cpu_count - 1
        /\ Cardinality(NumberedAps) \in Nat
        /\ Cardinality(NumberedAps \cup {a}) = Cardinality(NumberedAps) + 1
      BY <2>2, ApCardinality
  <2>4. NumberedAps' = NumberedAps \cup {a}
      BY <2>1 DEF NumberedAps, Numbered, IInv, Types
  <2>5. Valid(my_index'[a])
      BY <2>1, <2>3 DEF Valid, Counting
  <2>6. ap' = [ap EXCEPT ![a] = "setup"]
      BY <1>1, <2>5 DEF ApIndex, Goto
  <2>7. Counting'
      BY <2>1, <2>3, <2>4, <2>6 DEF Counting, IInv, Types
  <2>8. Polling' = Polling
      BY <2>1, <2>6 DEF Polling, IInv, Types
  <2>9. ASSUME NEW c \in Index \ {0}, cpu_state'[c] = "READY"
        PROVE  \E b \in AP : my_index'[b] = c /\ gs'[b] = c /\ ap'[b] \in {"count", "polling"}
    <3>1. PICK b \in AP : my_index[b] = c /\ gs[b] = c /\ ap[b] \in {"count", "polling"}
        BY <2>1, <2>9 DEF Announced, ReadyTruthful
    <3> QED
        BY <3>1, <2>1, <2>6 DEF IInv, Types
  <2> QED
      BY <2>1, <2>7, <2>8, <2>9 DEF Announced, ReadyTruthful, Polling
<1>2. CASE ap[a] # "index"
  <2>1. /\ UNCHANGED <<next_cpu_id, my_index, reported>>
        /\ \E p \in {"index", "online", "ready", "count", "polling"} : ap' = [ap EXCEPT ![a] = p]
        /\ \A b \in AP : b # a => gs'[b] = gs[b]
      BY <1>2 DEF ApStep, Trampoline, ApIndex, ApSetup, PerCpu, ApOnline, ApReady, ApCount, Goto,
          bspVars, apVars, IInv, Types
  <2>2. NumberedAps' = NumberedAps
      BY <2>1 DEF NumberedAps, Numbered
  <2>3. NumberedAps \in SUBSET AP
      BY DEF NumberedAps
  <2>4. my_index[a] \in Index
      BY <2>3, ApCardinality DEF IInv, Types, Numbering, Counting, Index
  <2>5. current_cpu_index' \in Index /\ gs' \in [AP -> Index] /\ stack' \in [AP -> Index]
      BY <1>2, <2>4 DEF ApStep, Trampoline, ApIndex, ApSetup, PerCpu, ApOnline, ApReady, ApCount,
          apVars, Counting
  <2>6. Counting'
      BY <2>1, <2>2, <2>5 DEF Counting, IInv, Types
  <2>7. CASE Trampoline(a) \/ ApSetup(a)
    <3>1. /\ ap[a] \in {"trampoline", "setup"} /\ UNCHANGED <<cpu_state, ready_cpus>>
          /\ ap'[a] \in {"index", "online"} /\ \A b \in AP : b # a => ap'[b] = ap[b]
        BY <2>7 DEF Trampoline, ApSetup, Goto, apVars, IInv, Types
    <3>2. Polling' = Polling
        BY <3>1 DEF Polling
    <3>3. \A b \in AP : ap[b] \in {"count", "polling"} =>
             ap'[b] \in {"count", "polling"} /\ gs'[b] = gs[b]
        BY <3>1, <2>1
    <3>4. ASSUME NEW c \in Index \ {0}, cpu_state'[c] = "READY"
          PROVE  \E b \in AP : my_index'[b] = c /\ gs'[b] = c /\ ap'[b] \in {"count", "polling"}
      <4>1. PICK b \in AP : my_index[b] = c /\ gs[b] = c /\ ap[b] \in {"count", "polling"}
          BY <3>1, <3>4 DEF Announced, ReadyTruthful
      <4> QED
          BY <4>1, <3>3, <2>1
    <3> QED
        BY <2>6, <3>1, <3>2, <3>4 DEF Announced, ReadyTruthful, Polling
  <2>8. CASE ApOnline(a) \/ ApReady(a)
    <3>1. PICK q \in {"ONLINE", "READY"} :
             /\ cpu_state' = [cpu_state EXCEPT ![my_index[a]] = q]
             /\ q = "READY" => ApReady(a)
        BY <2>8 DEF ApOnline, ApReady
    <3>2. /\ ap[a] \in {"online", "ready"} /\ UNCHANGED <<ready_cpus, gs>>
          /\ ap'[a] \in {"ready", "count"} /\ \A b \in AP : b # a => ap'[b] = ap[b]
          /\ ApReady(a) => ap'[a] = "count"
        BY <2>8 DEF ApOnline, ApReady, Goto, apVars, IInv, Types
    <3>3. Polling' = Polling
        BY <3>2 DEF Polling
    <3>4. cpu_state' \in [Index -> CpuState]
        BY <3>1 DEF Announced, CpuState
    <3>5. ASSUME NEW c \in Index \ {0}, cpu_state'[c] = "READY"
          PROVE  \E b \in AP : my_index'[b] = c /\ gs'[b] = c /\ ap'[b] \in {"count", "polling"}
      <4>1. CASE c = my_index[a]
        <5>1. ApReady(a)
            BY <3>5, <3>1, <3>2, <2>4, <4>1 DEF Announced
        <5>2. gs[a] = my_index[a]
            BY <3>2 DEF IInv, Numbering, Running
        <5> QED
            BY <5>1, <5>2, <4>1, <3>2, <2>1
      <4>2. CASE c # my_index[a]
        <5>1. cpu_state[c] = "READY"
            BY <3>5, <3>1, <4>2 DEF Announced
        <5>2. PICK b \in AP : my_index[b] = c /\ gs[b] = c /\ ap[b] \in {"count", "polling"}
            BY <5>1, <3>5 DEF Announced, ReadyTruthful
        <5> QED
            BY <5>2, <3>2, <2>1
      <4> QED
          BY <4>1, <4>2
    <3> QED
        BY <2>6, <3>2, <3>3, <3>4, <3>5 DEF Announced, ReadyTruthful, Polling
  <2>9. CASE ApCount(a)
    <3>1. /\ ap[a] = "count" /\ UNCHANGED <<cpu_state, gs>> /\ ready_cpus' = ready_cpus + 1
          /\ ap'[a] = "polling" /\ \A b \in AP : b # a => ap'[b] = ap[b]
        BY <2>9 DEF ApCount, Counted, Goto, IInv, Types
    <3>2. Polling' = Polling \cup {a} /\ Polling \in SUBSET AP /\ a \in AP \ Polling
        BY <3>1 DEF Polling
    <3>3. Cardinality(Polling') = Cardinality(Polling) + 1 /\ Cardinality(Polling) \in Nat
        BY <3>2, ApCardinality
    <3>4. \A b \in AP : ap[b] \in {"count", "polling"} => ap'[b] \in {"count", "polling"}
        BY <3>1
    <3> QED
        BY <2>1, <2>6, <3>1, <3>3, <3>4 DEF Announced, ReadyTruthful, Polling
  <2> QED
      BY <1>2, <2>7, <2>8, <2>9 DEF ApStep, ApIndex
<1> QED
    BY <1>1, <1>2 DEF ApStep, Trampoline, ApSetup, ApOnline, ApReady, ApCount, ApIndex

LEMMA CountsInvariant == Spec => [](IInv /\ Counting /\ Announced)
<1>1. Init => IInv /\ Counting /\ Announced
  <2> SUFFICES ASSUME Init PROVE IInv /\ Counting /\ Announced
      OBVIOUS
  <2>1. IInv
      BY SmpAssumption DEF Init, IInv, Types, Untouched, Numbering, Unique, Running,
          Early, AP, BspPc, IpiSteps, ApPc, Shared
  <2>2. NumberedAps = {} /\ Polling = {}
      BY DEF Init, NumberedAps, Numbered, Polling
  <2>3. Counting
      BY <2>2, FS_EmptySet, SmpAssumption DEF Init, Counting, Index, Shared
  <2>4. Announced
      BY <2>2, FS_EmptySet DEF Init, Announced, ReadyTruthful, Polling, CpuState
  <2> QED
      BY <2>1, <2>3, <2>4
<1>2. IInv /\ Counting /\ Announced /\ [Next]_vars => (IInv /\ Counting /\ Announced)'
  <2> SUFFICES ASSUME IInv, Counting, Announced, [Next]_vars
               PROVE  IInv' /\ Counting' /\ Announced'
      OBVIOUS
  <2>1. CASE UNCHANGED vars
    <3>1. IInv'
        BY <2>1 DEF vars, IInv, Types, Untouched, Numbering, Unique, Running
    <3>2. Counting' /\ Announced'
        BY <2>1 DEF vars, Counting, Announced, ReadyTruthful, NumberedAps, Numbered
    <3> QED
        BY <3>1, <3>2
  <2> QED
      BY <2>1, BspStepKeeps, ApStepKeeps, BspStepCounts, ApStepCounts DEF Next
<1> QED
    BY <1>1, <1>2, PTL DEF Spec

(* A slot reads READY only for an AP that has finished its set-up under    *)
(* that index, and ready_cpus is the number of CPUs that have announced    *)
(* themselves (smp_mark_cpu_ready, smp.c:122-131), for any number of CPUs. *)
THEOREM ReadyIsTruthful == Spec => []ReadyTruthful
<1>1. IInv /\ Counting /\ Announced => ReadyTruthful
    BY DEF Announced
<1> QED
    BY <1>1, CountsInvariant, PTL

(* No AP that the BSP has started is turned away for want of an index: as  *)
(* many indices are given out as APs have asked, and all are in range      *)
(* (ap_start, smp.c:300-309).                                              *)
THEOREM NoneTurnedAway == Spec => []TypeOK
<1>1. IInv /\ Counting /\ Announced => TypeOK
  <2> SUFFICES ASSUME IInv, Counting, Announced PROVE TypeOK
      OBVIOUS
  <2>1. NumberedAps \in SUBSET AP /\ Polling \in SUBSET AP
      BY DEF NumberedAps, Polling
  <2>2. Cardinality(NumberedAps) \in 0..(actual_cpu_count - 1)
        /\ Cardinality(Polling) \in 0..(actual_cpu_count - 1)
      BY <2>1, ApCardinality
  <2>3. next_cpu_id \in 1..actual_cpu_count /\ ready_cpus \in 1..actual_cpu_count
      BY <2>2, SmpAssumption DEF Counting, Announced, ReadyTruthful, Polling
  <2>4. my_index \in [AP -> Index]
      BY <2>3, SmpAssumption DEF IInv, Types, Numbering, Index
  <2> QED
      BY <2>3, <2>4 DEF TypeOK, IInv, Types, Counting, Announced
<1> QED
    BY <1>1, CountsInvariant, PTL
============================================================================
