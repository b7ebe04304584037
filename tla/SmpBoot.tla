------------------------------ MODULE SmpBoot ------------------------------
(***************************************************************************)
(* Start-up of the application processors: smp_start_all_aps and           *)
(* ap_startup on the bootstrap processor (BSP), the trampoline and         *)
(* ap_start on each application processor (AP).  An AP is named by the     *)
(* cpu_info slot whose APIC id the BSP starts it through; the index the AP *)
(* gives itself is my_index.  Any wait of the BSP may time out, an         *)
(* interrupt whose acceptance timed out may still have arrived, and an AP  *)
(* may be arbitrarily slow.                                                *)
(***************************************************************************)
EXTENDS Integers, FiniteSets

CONSTANTS
    SMP_MAX_CPUS,     \* 4 in the kernel
    actual_cpu_count  \* CPUs that acpi_get_apic_count reports

ASSUME SmpAssumption ==
    /\ SMP_MAX_CPUS \in Nat /\ actual_cpu_count \in Nat
    /\ actual_cpu_count \in 1..SMP_MAX_CPUS

Index == 0..(SMP_MAX_CPUS - 1)
AP == 1..(actual_cpu_count - 1)
CpuState == {"OFFLINE", "BOOTING", "ONLINE", "READY"}
IpiSteps == {"INIT", "DEASSERT", "SIPI1", "SIPI2"}
BspPc == IpiSteps \cup {"next", "wait", "report", "done"}
\* "off" and "reset" are the hardware's states, then the program's.
ApPc == {"off", "reset", "trampoline", "index", "setup", "online", "ready",
         "count", "polling", "halted"}

VARIABLES
    bsp, i,                \* the BSP and the loop counter of smp_start_all_aps
    cpu_state,             \* cpu_info[].state
    next_cpu_id,
    current_cpu_index,     \* one variable for all the CPUs
    ready_cpus,
    ap,                    \* where each AP is
    my_index,              \* local of ap_start; 0 before it is assigned
    gs, stack,             \* whose per_cpu_data and stack an AP uses
    reported               \* ap_ready_count, or -1

vars == <<bsp, i, cpu_state, next_cpu_id, current_cpu_index, ready_cpus, ap,
          my_index, gs, stack, reported>>
bspVars == <<bsp, i, reported>>
apVars == <<next_cpu_id, current_cpu_index, ready_cpus, my_index, gs, stack>>

\* The trampoline's stack and the GS base of reset, shared by all APs.
Shared == 0

\* smp_init, after which the BSP has marked itself ready.
Init ==
    /\ bsp = "next" /\ i = 1
    /\ cpu_state = [c \in Index |-> IF c = 0 THEN "READY" ELSE "OFFLINE"]
    /\ next_cpu_id = 1 /\ current_cpu_index = 0 /\ ready_cpus = 1
    /\ ap = [a \in AP |-> "off"]
    /\ my_index = [a \in AP |-> 0]
    /\ gs = [a \in AP |-> Shared] /\ stack = [a \in AP |-> Shared]
    /\ reported = -1

----------------------------------------------------------------------------
(* The bootstrap processor.                                                *)

\* The next round of the loop, which enters ap_startup.
StartNext ==
    /\ bsp = "next" /\ i < actual_cpu_count
    /\ cpu_state' = [cpu_state EXCEPT ![i] = "BOOTING"]
    /\ bsp' = "INIT"
    /\ UNCHANGED <<i, ap, reported, apVars>>

\* What an accepted interrupt does to its target: INIT resets it, the first
\* start-up interrupt starts it, and a running AP ignores the second.
Accepted(step, hw) ==
    CASE step = "INIT" -> "reset"
      [] step \in {"SIPI1", "SIPI2"} /\ hw = "reset" -> "trampoline"
      [] OTHER -> hw

AfterIpi(step) ==
    CASE step = "INIT" -> "DEASSERT"
      [] step = "DEASSERT" -> "SIPI1"
      [] step = "SIPI1" -> "SIPI2"
      [] step = "SIPI2" -> "wait"

GiveUp == /\ bsp' = "next" /\ i' = i + 1

\* Send one interrupt and see it accepted.
IpiAccepted ==
    /\ bsp \in IpiSteps
    /\ ap' = [ap EXCEPT ![i] = Accepted(bsp, @)]
    /\ bsp' = AfterIpi(bsp)
    /\ UNCHANGED <<i, cpu_state, reported, apVars>>

\* lapic_wait_for_ipi times out, whether or not the interrupt arrived:
\* ap_startup returns -1 and the AP is given up.
IpiTimeout ==
    /\ bsp \in IpiSteps
    /\ \E hw \in {ap[i], Accepted(bsp, ap[i])} : ap' = [ap EXCEPT ![i] = hw]
    /\ cpu_state' = [cpu_state EXCEPT ![i] = "OFFLINE"]
    /\ GiveUp
    /\ UNCHANGED <<reported, apVars>>

Arrived(s) == s = "READY"

ApSeenReady ==
    /\ bsp = "wait" /\ Arrived(cpu_state[i])
    /\ bsp' = "next" /\ i' = i + 1
    /\ UNCHANGED <<cpu_state, ap, reported, apVars>>

\* Mutant: the wait goes on for as long as the AP is not ready.
WaitTimeout_never == bsp = "wait" /\ UNCHANGED vars
WaitTimeout ==
    /\ bsp = "wait" /\ ~Arrived(cpu_state[i])
    /\ bsp' = "next" /\ i' = i + 1
    /\ UNCHANGED <<cpu_state, ap, reported, apVars>>

Report ==
    /\ bsp = "next" /\ i = actual_cpu_count
    /\ reported' = Cardinality({c \in AP : cpu_state[c] = "READY"})
    /\ bsp' = "done"
    /\ UNCHANGED <<i, cpu_state, ap, apVars>>

----------------------------------------------------------------------------
(* An application processor.                                               *)

Goto(a, p) == ap' = [ap EXCEPT ![a] = p]

\* Real mode to long mode, on the stack at 0xFFFF that all APs share.
Trampoline(a) ==
    /\ ap[a] = "trampoline" /\ Goto(a, "index")
    /\ UNCHANGED <<bspVars, cpu_state, apVars>>

\* Mutant: the index is read and incremented without atomicity.
TakeIndex_racy(a) ==
    /\ my_index' = [my_index EXCEPT ![a] = next_cpu_id]
    /\ \E n \in {next_cpu_id, next_cpu_id + 1} : next_cpu_id' = n
TakeIndex(a) ==
    /\ my_index' = [my_index EXCEPT ![a] = next_cpu_id]
    /\ next_cpu_id' = next_cpu_id + 1

Valid(x) == x > 0 /\ x < SMP_MAX_CPUS

\* atomic_fetch_add(&next_cpu_id, 1) and the check of the result.
ApIndex(a) ==
    /\ ap[a] = "index"
    /\ TakeIndex(a)
    /\ Goto(a, IF Valid(my_index'[a]) THEN "setup" ELSE "halted")
    /\ UNCHANGED <<bspVars, cpu_state, current_cpu_index, ready_cpus, gs, stack>>

PerCpu(a) == gs' = [gs EXCEPT ![a] = my_index[a]]

\* The global index, this CPU's stack, nesting depth and GS base, CR0 and CR3.
ApSetup(a) ==
    /\ ap[a] = "setup" /\ Goto(a, "online")
    /\ current_cpu_index' = my_index[a]
    /\ stack' = [stack EXCEPT ![a] = my_index[a]]
    /\ PerCpu(a)
    /\ UNCHANGED <<bspVars, cpu_state, next_cpu_id, ready_cpus, my_index>>

ApOnline(a) ==
    /\ ap[a] = "online" /\ Goto(a, "ready")
    /\ cpu_state' = [cpu_state EXCEPT ![my_index[a]] = "ONLINE"]
    /\ UNCHANGED <<bspVars, apVars>>

\* smp_mark_cpu_ready: the state first,
ApReady(a) ==
    /\ ap[a] = "ready" /\ Goto(a, "count")
    /\ cpu_state' = [cpu_state EXCEPT ![my_index[a]] = "READY"]
    /\ UNCHANGED <<bspVars, apVars>>

\* Mutant: the counter is set from a stale copy.
Counted_stale == \E n \in {ready_cpus, ready_cpus + 1} : ready_cpus' = n
Counted == ready_cpus' = ready_cpus + 1

\* and then the counter, under ready_cpus_lock.
ApCount(a) ==
    /\ ap[a] = "count" /\ Goto(a, "polling")
    /\ Counted
    /\ UNCHANGED <<bspVars, cpu_state, next_cpu_id, current_cpu_index, my_index,
                   gs, stack>>

ApStep(a) ==
    \/ Trampoline(a) \/ ApIndex(a) \/ ApSetup(a) \/ ApOnline(a)
    \/ ApReady(a) \/ ApCount(a)

BspStep ==
    \/ StartNext \/ IpiAccepted \/ IpiTimeout \/ ApSeenReady \/ WaitTimeout
    \/ Report

Next == BspStep \/ (\E a \in AP : ApStep(a))

\* Every loop of the BSP counts down, so the BSP always moves.
Fairness == WF_vars(BspStep)
Spec == Init /\ [][Next]_vars /\ Fairness

----------------------------------------------------------------------------
\* Types; in particular no AP is turned away for want of an index.
TypeOK ==
    /\ bsp \in BspPc /\ i \in 1..actual_cpu_count
    /\ cpu_state \in [Index -> CpuState]
    /\ next_cpu_id \in 1..actual_cpu_count
    /\ current_cpu_index \in Index
    /\ ready_cpus \in 1..actual_cpu_count
    /\ ap \in [AP -> ApPc \ {"halted"}]
    /\ my_index \in [AP -> Index] /\ gs \in [AP -> Index]
    /\ stack \in [AP -> Index]
    /\ reported \in -1..(actual_cpu_count - 1)

Numbered(a) == my_index[a] # 0
Running(a) == ap[a] \in {"online", "ready", "count", "polling"}

\* However slow or late the APs are, no two of them ever share an index, a
\* stack or per-CPU data, and none has the BSP's (ap_start, smp.c:301-303).
PrivateCpus ==
    \A a, b \in AP :
        /\ Running(a) => gs[a] # Shared /\ stack[a] # Shared
        /\ a # b /\ Numbered(a) /\ Numbered(b) => my_index[a] # my_index[b]
        /\ a # b /\ Running(a) /\ Running(b) => gs[a] # gs[b]
        /\ a # b /\ Running(a) /\ Running(b) => stack[a] # stack[b]

\* A slot that reads READY belongs to an AP that has finished its set-up, and
\* ready_cpus counts the CPUs that have announced themselves, neither more
\* nor fewer, whatever the BSP has written into the slots meanwhile.
ReadyTruthful ==
    /\ \A c \in Index \ {0} : cpu_state[c] = "READY" =>
          \E a \in AP : my_index[a] = c /\ gs[a] = c /\ ap[a] \in {"count", "polling"}
    /\ ready_cpus = 1 + Cardinality({a \in AP : ap[a] = "polling"})

\* The BSP gets through start-up whatever the APs do.
BootCompletes == <>(bsp = "done")

\* "Sequential startup prevents multiple APs from executing the trampoline
\* simultaneously" (smp.c:233-235).
TrampolineExclusive ==
    \A a, b \in AP : ap[a] = "trampoline" /\ ap[b] = "trampoline" => a = b

\* An AP runs under the slot that holds its APIC id (smp.c:83-88).
ApicIdMatches == \A a \in AP : Numbered(a) => my_index[a] = a

\* "the BSP always returns 0" from smp_get_cpu_index (smp.c:75-77), here when
\* it goes on with kernel_main after the APs are up.
BspIndexZero == (bsp = "done") => current_cpu_index = 0
============================================================================
