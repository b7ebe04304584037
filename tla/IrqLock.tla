------------------------------ MODULE IrqLock ------------------------------
(***************************************************************************)
(* Spin locks and the nested interrupt-disable layer beneath them:         *)
(* arch/x86_64/spinlock_arch.h, arch/x86_64/idt.h (irq_save, irq_disable,  *)
(* irq_restore) and the per-CPU nesting depth of arch/x86_64/smp.c.        *)
(*                                                                         *)
(* Every CPU has a task context and, while an interrupt is being served,   *)
(* an interrupt context on top of it.  A context executes a lock path: the *)
(* locks one kernel function takes, outermost first, each with the         *)
(* primitive it uses.  Loads and stores of the nesting depth are separate  *)
(* steps, because the depth is a plain int.                                *)
(***************************************************************************)
EXTENDS Integers, Sequences, FiniteSets

CONSTANTS
    Cpu,        \* the CPUs of the machine
    Bsp,        \* the bootstrap processor
    Index,      \* the index each CPU is given (0 for the BSP)
    Lock,       \* the spin locks
    Machines,   \* what may boot: CPUs that start, lock paths they execute
    MaxNest,    \* bound: locks on one path
    MaxDepth    \* bound: nesting depth at which no new path is begun

Kind == {"plain", "irq", "irqsave", "try"}
Step == [lock : Lock, kind : Kind]
Ctx == Cpu \X {"task", "irq"}

\* The lock paths of task context and of interrupt handlers.
TaskPaths == UNION {m.task : m \in Machines}
IrqPaths == UNION {m.irq : m \in Machines}

ASSUME CpuAssumption ==
    /\ Bsp \in Cpu
    /\ Index \in [Cpu -> Nat]
    /\ MaxNest \in Nat \ {0}
    /\ MaxDepth \in Nat

ASSUME PathAssumption ==
    \A p \in TaskPaths \cup IrqPaths :
        p \in Seq(Step) /\ Len(p) \in 1..MaxNest

VARIABLES
    locked,             \* lock->locked, per lock: 0 or 1
    iflag,              \* RFLAGS.IF, per CPU
    irq_nest_depth,     \* cpu_info[i].irq_nest_depth, per CPU index
    current_cpu_index,  \* the single variable behind smp_get_cpu_index()
    machine,            \* the machine that was booted
    online,             \* CPUs that have executed ap_start (and the BSP)
    inIrq,              \* CPUs that are serving an interrupt
    pc, path,           \* per context: where it is, and on which lock path
    top,                \* per context: how many locks of its path it holds
    flags,              \* per context: IF as saved for each lock of the path
    reg, depth          \* per context: loaded nesting depth, and from where

lockVars == <<locked, top>>
irqVars == <<irq_nest_depth, current_cpu_index, reg, depth>>
cpuVars == <<machine, online, inIrq>>
vars == <<locked, iflag, irq_nest_depth, current_cpu_index, machine, online, inIrq,
          pc, path, top, flags, reg, depth>>

Indices == {Index[c] : c \in Cpu}

(***************************************************************************)
(* The state after smp_init, with the BSP's interrupts enabled.  APs leave *)
(* the trampoline with interrupts disabled.                                *)
(***************************************************************************)
Init ==
    /\ locked = [l \in Lock |-> 0]
    /\ iflag = [c \in Cpu |-> c = Bsp]
    /\ irq_nest_depth = [i \in Indices |-> 0]
    /\ current_cpu_index = Index[Bsp]
    /\ machine \in Machines
    /\ online = {Bsp}
    /\ inIrq = {}
    /\ pc = [x \in Ctx |-> "idle"]
    /\ path = [x \in Ctx |-> << >>]
    /\ top = [x \in Ctx |-> 0]
    /\ flags = [x \in Ctx |-> [i \in 1..MaxNest |-> FALSE]]
    /\ reg = [x \in Ctx |-> 0]
    /\ depth = [x \in Ctx |-> Index[Bsp]]

\* irq_disable masks interrupts at the outermost level only.
Outermost_second(d) == d = 2
Outermost(d) == d = 1

\* irq_restore: a positive depth is decremented.
Decremented(d) == IF d > 0 THEN d - 1 ELSE d

\* irq_restore: interrupts were enabled when saved, and no nesting remains.
Reenable_nested(f, d) == f /\ d = 1
Reenable(f, d) == f /\ d = 0

\* The compare-and-exchange on a lock word can succeed.
Free(l) == locked[l] = 0

Unwind(n) == IF n = 0 THEN "idle" ELSE "out"

Goto(x, label) == pc' = [pc EXCEPT ![x] = label]

\* The context of x's CPU that is executing: the handler while there is one.
Running(x) ==
    /\ x[1] \in online
    /\ (x[2] = "irq") <=> (x[1] \in inIrq)

\* smp_get_irq_nest_depth_ptr, through smp_get_cpu_index.
smp_get_irq_nest_depth_ptr == current_cpu_index

HeldLocks(x) == {path[x][i].lock : i \in 1..top[x]}
NextStep(x) == path[x][top[x] + 1]
LastStep_first(x) == path[x][1]
LastStep(x) == path[x][top[x]]

----------------------------------------------------------------------------
(* An AP takes its index, late or on time. *)
ap_start(c) ==
    /\ c \in machine.cpus \ online
    /\ online' = online \cup {c}
    /\ current_cpu_index' = Index[c]
    /\ irq_nest_depth' = [irq_nest_depth EXCEPT ![Index[c]] = 0]
    /\ UNCHANGED <<machine, iflag, inIrq, pc, path, flags, reg, depth, lockVars>>

(* A kernel function that takes locks is called in task context. *)
Call(c, p) ==
    LET x == <<c, "task">> IN
    /\ p \in machine.task /\ Running(x) /\ pc[x] = "idle"
    /\ \A i \in Indices : irq_nest_depth[i] <= MaxDepth
    /\ path' = [path EXCEPT ![x] = p]
    /\ Goto(x, "enter")
    /\ UNCHANGED <<iflag, flags, lockVars, irqVars, cpuVars>>

(* The CPU accepts an interrupt through an interrupt gate, which clears IF. *)
Interrupt(c, p) ==
    LET x == <<c, "irq">> IN
    /\ p \in machine.irq /\ c \in online \ inIrq /\ iflag[c]
    /\ \A i \in Indices : irq_nest_depth[i] <= MaxDepth
    /\ inIrq' = inIrq \cup {c}
    /\ iflag' = [iflag EXCEPT ![c] = FALSE]
    /\ path' = [path EXCEPT ![x] = p]
    /\ Goto(x, "enter")
    /\ UNCHANGED <<machine, online, flags, lockVars, irqVars>>

(* iretq: the saved RFLAGS had IF set, or the interrupt had not come. *)
Iret(c) ==
    LET x == <<c, "irq">> IN
    /\ Running(x) /\ pc[x] = "idle"
    /\ inIrq' = inIrq \ {c}
    /\ iflag' = [iflag EXCEPT ![c] = TRUE]
    /\ UNCHANGED <<machine, online, pc, path, flags, lockVars, irqVars>>

----------------------------------------------------------------------------
(* spin_lock: straight to the test-and-set loop. *)
spin_lock(x) ==
    /\ pc[x] = "enter" /\ NextStep(x).kind = "plain"
    /\ Goto(x, "spin")
    /\ UNCHANGED <<iflag, path, flags, lockVars, irqVars, cpuVars>>

(* spin_lock_irq: cli, saving nothing. *)
spin_lock_irq(x) ==
    /\ pc[x] = "enter" /\ NextStep(x).kind = "irq"
    /\ iflag' = [iflag EXCEPT ![x[1]] = FALSE]
    /\ Goto(x, "spin")
    /\ UNCHANGED <<path, flags, lockVars, irqVars, cpuVars>>

(* irq_save: save RFLAGS, find the depth and load it. *)
irq_save(x) ==
    /\ pc[x] = "enter" /\ NextStep(x).kind = "irqsave"
    /\ flags' = [flags EXCEPT ![x][top[x] + 1] = iflag[x[1]]]
    /\ depth' = [depth EXCEPT ![x] = smp_get_irq_nest_depth_ptr]
    /\ reg' = [reg EXCEPT ![x] = irq_nest_depth[smp_get_irq_nest_depth_ptr]]
    /\ Goto(x, "inc")
    /\ UNCHANGED <<iflag, path, irq_nest_depth, current_cpu_index, lockVars, cpuVars>>

(* irq_disable: increment the depth. *)
irq_disable_inc(x) ==
    /\ pc[x] = "inc"
    /\ reg' = [reg EXCEPT ![x] = @ + 1]
    /\ irq_nest_depth' = [irq_nest_depth EXCEPT ![depth[x]] = reg[x] + 1]
    /\ Goto(x, "cli")
    /\ UNCHANGED <<iflag, path, flags, current_cpu_index, depth, lockVars, cpuVars>>

(* irq_disable: cli only for the outermost level. *)
irq_disable_cli(x) ==
    /\ pc[x] = "cli"
    /\ iflag' = [iflag EXCEPT ![x[1]] = @ /\ ~Outermost(reg[x])]
    /\ Goto(x, "spin")
    /\ UNCHANGED <<path, flags, lockVars, irqVars, cpuVars>>

(* The compare-and-exchange of arch_spin_lock that succeeds; failed         *)
(* attempts and the inner read loop leave the state unchanged.             *)
arch_spin_lock(x) ==
    /\ pc[x] = "spin" /\ Free(NextStep(x).lock)
    /\ locked' = [locked EXCEPT ![NextStep(x).lock] = 1]
    /\ top' = [top EXCEPT ![x] = @ + 1]
    /\ Goto(x, "cs")
    /\ UNCHANGED <<iflag, path, flags, irqVars, cpuVars>>

(* spin_trylock: one strong compare-and-exchange.  A caller that fails      *)
(* leaves its critical section out.                                        *)
spin_trylock(x) ==
    /\ pc[x] = "enter" /\ NextStep(x).kind = "try"
    /\ \/ /\ locked[NextStep(x).lock] = 0
          /\ locked' = [locked EXCEPT ![NextStep(x).lock] = 1]
          /\ top' = [top EXCEPT ![x] = @ + 1]
          /\ Goto(x, "cs")
       \/ /\ locked[NextStep(x).lock] = 1
          /\ Goto(x, Unwind(top[x]))
          /\ UNCHANGED lockVars
    /\ UNCHANGED <<iflag, path, flags, irqVars, cpuVars>>

----------------------------------------------------------------------------
(* Inside the innermost critical section: take the next lock of the path. *)
Nest(x) ==
    /\ pc[x] = "cs" /\ top[x] < Len(path[x])
    /\ Goto(x, "enter")
    /\ UNCHANGED <<iflag, path, flags, lockVars, irqVars, cpuVars>>

\* Mutant: the releasing store is lost for locks taken with irqsave.
arch_spin_unlock_lost(x) ==
    /\ \/ pc[x] = "cs" /\ top[x] = Len(path[x])
       \/ pc[x] = "out"
    /\ locked' = [locked EXCEPT ![LastStep(x).lock] =
                     IF LastStep(x).kind = "irqsave" THEN 1 ELSE 0]
    /\ top' = [top EXCEPT ![x] = @ - 1]
    /\ Goto(x, CASE LastStep(x).kind = "irqsave" -> "restore"
                 [] LastStep(x).kind = "irq" -> "sti"
                 [] OTHER -> Unwind(top[x] - 1))
    /\ UNCHANGED <<iflag, path, flags, irqVars, cpuVars>>

(* arch_spin_unlock, the first half of every release primitive. *)
arch_spin_unlock(x) ==
    /\ \/ pc[x] = "cs" /\ top[x] = Len(path[x])
       \/ pc[x] = "out"
    /\ locked' = [locked EXCEPT ![LastStep(x).lock] = 0]
    /\ top' = [top EXCEPT ![x] = @ - 1]
    /\ Goto(x, CASE LastStep(x).kind = "irqsave" -> "restore"
                 [] LastStep(x).kind = "irq" -> "sti"
                 [] OTHER -> Unwind(top[x] - 1))
    /\ UNCHANGED <<iflag, path, flags, irqVars, cpuVars>>

(* spin_unlock_irq: sti, whatever the state before the lock was. *)
spin_unlock_irq(x) ==
    /\ pc[x] = "sti"
    /\ iflag' = [iflag EXCEPT ![x[1]] = TRUE]
    /\ Goto(x, Unwind(top[x]))
    /\ UNCHANGED <<path, flags, lockVars, irqVars, cpuVars>>

(* irq_restore: find the depth, load it and decrement it if positive. *)
irq_restore_load(x) ==
    /\ pc[x] = "restore"
    /\ depth' = [depth EXCEPT ![x] = smp_get_irq_nest_depth_ptr]
    /\ LET d == irq_nest_depth[smp_get_irq_nest_depth_ptr] IN
       /\ reg' = [reg EXCEPT ![x] = Decremented(d)]
       /\ Goto(x, IF d > 0 THEN "dec" ELSE "flags")
    /\ UNCHANGED <<iflag, path, flags, irq_nest_depth, current_cpu_index,
                   lockVars, cpuVars>>

(* irq_restore: store the decremented depth. *)
irq_restore_dec(x) ==
    /\ pc[x] = "dec"
    /\ irq_nest_depth' = [irq_nest_depth EXCEPT ![depth[x]] = reg[x]]
    /\ Goto(x, "flags")
    /\ UNCHANGED <<iflag, path, flags, current_cpu_index, reg, depth,
                   lockVars, cpuVars>>

(* irq_restore: sti if IF was set when it was saved and this was the        *)
(* outermost level.                                                        *)
irq_restore_sti(x) ==
    /\ pc[x] = "flags"
    /\ iflag' = [iflag EXCEPT ![x[1]] = @ \/ Reenable(flags[x][top[x] + 1], reg[x])]
    /\ Goto(x, Unwind(top[x]))
    /\ UNCHANGED <<path, flags, lockVars, irqVars, cpuVars>>

----------------------------------------------------------------------------
Instruction(x) ==
    /\ Running(x)
    /\ \/ spin_lock(x) \/ spin_lock_irq(x) \/ spin_trylock(x)
       \/ irq_save(x) \/ irq_disable_inc(x) \/ irq_disable_cli(x)
       \/ arch_spin_lock(x) \/ Nest(x) \/ arch_spin_unlock(x)
       \/ spin_unlock_irq(x)
       \/ irq_restore_load(x) \/ irq_restore_dec(x) \/ irq_restore_sti(x)

Next ==
    \/ \E c \in Cpu :
          \/ ap_start(c)
          \/ \E p \in TaskPaths : Call(c, p)
          \/ \E p \in IrqPaths : Interrupt(c, p)
          \/ Iret(c)
    \/ \E x \in Ctx : Instruction(x)

Spec == Init /\ [][Next]_vars

(***************************************************************************)
(* A CPU keeps executing the context it is in, and returns from handlers.  *)
(* Nothing is assumed about interrupts arriving, paths being called or APs *)
(* starting.                                                               *)
(***************************************************************************)
Fairness ==
    /\ \A x \in Ctx : WF_vars(Instruction(x))
    /\ \A c \in Cpu : WF_vars(Iret(c))

FairSpec == Spec /\ Fairness

----------------------------------------------------------------------------
TypeOK ==
    /\ locked \in [Lock -> {0, 1}]
    /\ iflag \in [Cpu -> BOOLEAN]
    /\ irq_nest_depth \in [Indices -> Nat]
    /\ current_cpu_index \in Indices
    /\ machine \in Machines
    /\ online \subseteq Cpu /\ inIrq \subseteq online
    /\ pc \in [Ctx -> {"idle", "enter", "inc", "cli", "spin", "cs", "out",
                       "sti", "restore", "dec", "flags"}]
    /\ path \in [Ctx -> Seq(Step)]
    /\ top \in [Ctx -> 0..MaxNest]
    /\ flags \in [Ctx -> [1..MaxNest -> BOOLEAN]]
    /\ reg \in [Ctx -> Nat]
    /\ depth \in [Ctx -> Indices]

(***************************************************************************)
(* spin_lock gives exclusive access: no two contexts, of two CPUs or of one *)
(* CPU and its interrupt handler, hold the same lock, and the lock word is  *)
(* 1 exactly while there is a holder, so no release frees a lock that       *)
(* someone else has taken.                                                 *)
(***************************************************************************)
MutualExclusion ==
    /\ \A x, y \in Ctx : x # y => HeldLocks(x) \cap HeldLocks(y) = {}
    /\ \A l \in Lock : locked[l] = 1 <=> \E x \in Ctx : l \in HeldLocks(x)

NoHandler == \A c \in Cpu \ inIrq : pc[<<c, "irq">>] = "idle"

WellNested(x) ==
    /\ top[x] <= Len(path[x]) /\ Len(path[x]) <= MaxNest
    /\ pc[x] \in {"cs", "out"} => top[x] > 0
    /\ pc[x] \notin {"cs", "out", "idle"} => top[x] < Len(path[x])
    /\ pc[x] = "idle" => top[x] = 0
    /\ \A i, j \in 1..top[x] : path[x][i].lock = path[x][j].lock => i = j

(***************************************************************************)
(* The kernel's lock paths keep the primitives well nested: an unlock runs  *)
(* only with a lock held, a context outside every path holds nothing, and   *)
(* no context waits for a lock again that it has taken.  This is the        *)
(* strengthening under which MutualExclusion is inductive.                  *)
(***************************************************************************)
LockDiscipline == NoHandler /\ \A x \in Ctx : WellNested(x)

(***************************************************************************)
(* The spin locks implement the abstract mutual exclusion locks of Mutex,   *)
(* the owner of a lock being the context that has it on its path.           *)
(***************************************************************************)
Nobody == << >>

owner ==
    [l \in Lock |->
        IF \E x \in Ctx : l \in HeldLocks(x)
        THEN CHOOSE x \in Ctx : l \in HeldLocks(x)
        ELSE Nobody]

M == INSTANCE Mutex WITH Holder <- Ctx

ImplementsMutex == M!Spec

(***************************************************************************)
(* What the kernel's lock paths owe each other on one CPU: a lock that      *)
(* handlers take is taken with interrupts masked, and spin_lock_irq, whose  *)
(* release unmasks unconditionally, is used neither in a handler nor under  *)
(* a lock that masks.                                                       *)
(***************************************************************************)
Masking == {"irq", "irqsave"}

MaskingDiscipline ==
    \A m \in Machines : m.cpus = {Bsp} =>
        /\ \A q \in m.irq : \A j \in 1..Len(q) : q[j].kind # "irq"
        /\ \A p \in m.task : \A i \in 1..Len(p) :
              /\ p[i].kind = "irq" => \A j \in 1..(i - 1) : p[j].kind \notin Masking
              /\ p[i].kind \notin Masking =>
                    \A q \in m.irq : \A j \in 1..Len(q) : q[j].lock # p[i].lock

(***************************************************************************)
(* "Use this when the lock could be accessed from interrupt context to      *)
(* prevent deadlocks" (include/spinlock.h:70): on one CPU an interrupt      *)
(* handler never spins on a lock that the context it interrupted holds.     *)
(***************************************************************************)
Uniprocessor == machine.cpus = {Bsp}

NoSelfDeadlock ==
    Uniprocessor => \A c \in inIrq :
        pc[<<c, "irq">>] = "spin" =>
            NextStep(<<c, "irq">>).lock \notin HeldLocks(<<c, "task">>)

(***************************************************************************)
(* "Releases the lock and restores interrupts to their previous state"      *)
(* (include/spinlock.h:88): a lone BSP, which enters its outermost critical    *)
(* section with interrupts enabled, has them enabled again whenever it is   *)
(* outside every critical section.                                         *)
(***************************************************************************)
InterruptsRestored ==
    (Uniprocessor /\ pc[<<Bsp, "task">>] = "idle" /\ Bsp \notin inIrq) => iflag[Bsp]

(***************************************************************************)
(* spin_unlock_irqrestore ends every window with interrupts masked: after   *)
(* a lone BSP has masked interrupts it unmasks them again.                  *)
(***************************************************************************)
InterruptsEventuallyEnabled == (Uniprocessor /\ ~iflag[Bsp]) ~> iflag[Bsp]

(***************************************************************************)
(* A lock under which no other lock is taken, and whose holder cannot be    *)
(* interrupted, is always released again, whoever holds it and however the  *)
(* other CPUs spin on it.                                                   *)
(***************************************************************************)
Innermost ==
    {l \in Lock : \A p \in machine.task \cup machine.irq : \A i \in 1..Len(p) :
        p[i].lock = l =>
            i = Len(p) /\ (p[i].kind \in {"irq", "irqsave"} \/ machine.irq = {})}

InnermostReleased ==
    \A l \in Lock : (l \in Innermost /\ locked[l] = 1) ~> locked[l] = 0
============================================================================
