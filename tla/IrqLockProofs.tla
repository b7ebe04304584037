--------------------------- MODULE IrqLockProofs ---------------------------
(***************************************************************************)
(* The spin locks for every set of CPUs, locks and lock paths: mutual      *)
(* exclusion, and that they implement the locks of Mutex; and on one CPU   *)
(* that RFLAGS.IF is clear exactly while a lock in force masks interrupts, *)
(* from which handlers never spin on a lock of the context they            *)
(* interrupted and interrupts come back.                                   *)
(***************************************************************************)
EXTENDS IrqLock, FiniteSetTheorems, TLAPS

IInv == TypeOK /\ LockDiscipline /\ MutualExclusion

LEMMA InitIInv == Init => IInv
<1> SUFFICES ASSUME Init PROVE IInv
    OBVIOUS
<1>1. TypeOK
    BY CpuAssumption DEF Init, TypeOK, Indices
<1>2. LockDiscipline
    BY CpuAssumption DEF Init, LockDiscipline, NoHandler, WellNested, Ctx
<1>3. \A x \in Ctx : HeldLocks(x) = {}
    BY DEF Init, HeldLocks
<1>4. MutualExclusion
    BY <1>3 DEF MutualExclusion, Init
<1> QED
    BY <1>1, <1>2, <1>4 DEF IInv

----------------------------------------------------------------------------
(* Every step of a lock path names a lock and a primitive. *)
LEMMA PathStep ==
    ASSUME NEW p \in Seq(Step), NEW i \in 1..Len(p)
    PROVE  p[i].lock \in Lock /\ p[i].kind \in Kind
<1>1. p[i] \in Step
    OBVIOUS
<1> QED
    BY <1>1 DEF Step

(* What a context waits for, and what it releases, are locks. *)
LEMMA StepLocks ==
    ASSUME TypeOK, LockDiscipline, NEW x \in Ctx
    PROVE  /\ pc[x] \notin {"cs", "out", "idle"} => NextStep(x).lock \in Lock
           /\ pc[x] \in {"cs", "out"} => LastStep(x).lock \in Lock
<1>1. path[x] \in Seq(Step) /\ top[x] \in Nat
    BY CpuAssumption DEF TypeOK
<1>2. /\ pc[x] \notin {"cs", "out", "idle"} => top[x] + 1 \in 1..Len(path[x])
      /\ pc[x] \in {"cs", "out"} => top[x] \in 1..Len(path[x])
    BY <1>1 DEF LockDiscipline, WellNested
<1> QED
    BY <1>1, <1>2, PathStep DEF NextStep, LastStep

(* Type correctness of each kind of step. *)
LEMMA TypeStep == TypeOK /\ LockDiscipline /\ [Next]_vars => TypeOK'
<1> SUFFICES ASSUME TypeOK, LockDiscipline, [Next]_vars PROVE TypeOK'
    OBVIOUS
<1> USE CpuAssumption
<1>1. ASSUME NEW c \in Cpu, ap_start(c) PROVE TypeOK'
    BY <1>1, Zenon DEF TypeOK, ap_start, lockVars, Indices
<1>2. ASSUME NEW c \in Cpu, NEW p \in TaskPaths, Call(c, p) PROVE TypeOK'
    BY <1>2, PathAssumption, Zenon
    DEF TypeOK, Call, Goto, lockVars, irqVars, cpuVars, Ctx
<1>3. ASSUME NEW c \in Cpu, NEW p \in IrqPaths, Interrupt(c, p) PROVE TypeOK'
    BY <1>3, PathAssumption, Zenon
    DEF TypeOK, Interrupt, Goto, lockVars, irqVars, Ctx
<1>4. ASSUME NEW c \in Cpu, Iret(c) PROVE TypeOK'
    BY <1>4, Zenon DEF TypeOK, Iret, Running, lockVars, irqVars
<1>5. ASSUME NEW x \in Ctx, Instruction(x) PROVE TypeOK'
    <2> USE DEF TypeOK, Goto, lockVars, irqVars, cpuVars
    <2> /\ top[x] \in Nat /\ top[x] <= Len(path[x]) /\ Len(path[x]) <= MaxNest
        /\ pc[x] \notin {"cs", "out", "idle"} => top[x] + 1 \in 1..Len(path[x])
        /\ pc[x] \in {"cs", "out"} => top[x] \in 1..Len(path[x])
        /\ x[1] \in Cpu
        BY DEF LockDiscipline, WellNested, Ctx
    <2>a. pc[x] \notin {"cs", "out", "idle"} => NextStep(x).lock \in Lock
        BY StepLocks, Zenon
    <2>b. pc[x] \in {"cs", "out"} => LastStep(x).lock \in Lock
        BY StepLocks, Zenon
    <2>1. CASE spin_lock(x)
        BY <2>1, Zenon DEF spin_lock
    <2>2. CASE spin_lock_irq(x)
        BY <2>2, Zenon DEF spin_lock_irq
    <2>3. CASE spin_trylock(x)
        <3>a. /\ pc[x] = "enter"
              /\ UNCHANGED <<iflag, path, flags, irq_nest_depth, reg, depth,
                             current_cpu_index, machine, online, inIrq>>
            BY <2>3 DEF spin_trylock
        <3>1. CASE locked[NextStep(x).lock] = 0
            <4>1. /\ locked' = [locked EXCEPT ![NextStep(x).lock] = 1]
                  /\ top' = [top EXCEPT ![x] = @ + 1]
                  /\ pc' = [pc EXCEPT ![x] = "cs"]
                BY <2>3, <3>1 DEF spin_trylock
            <4> QED
                BY <2>a, <3>a, <4>1
        <3>2. CASE locked[NextStep(x).lock] = 1
            <4>1. /\ UNCHANGED <<locked, top>>
                  /\ pc' = [pc EXCEPT ![x] = Unwind(top[x])]
                BY <2>3, <3>2 DEF spin_trylock
            <4> QED
                BY <3>a, <4>1, Zenon DEF Unwind
        <3> QED
            BY <2>3, <3>1, <3>2, Zenon DEF spin_trylock
    <2>4. CASE irq_save(x)
        BY <2>4, SMTT(60) DEF irq_save, smp_get_irq_nest_depth_ptr
    <2>5. CASE irq_disable_inc(x)
        BY <2>5, SMTT(60) DEF irq_disable_inc
    <2>6. CASE irq_disable_cli(x)
        BY <2>6, SMTT(60) DEF irq_disable_cli, Outermost
    <2>7. CASE arch_spin_lock(x)
        BY <2>7, <2>a, SMTT(60) DEF arch_spin_lock, Free
    <2>8. CASE Nest(x)
        BY <2>8, SMTT(60) DEF Nest
    <2>9. CASE arch_spin_unlock(x)
        BY <2>9, <2>b, SMTT(60) DEF arch_spin_unlock, Unwind
    <2>10. CASE spin_unlock_irq(x)
        BY <2>10, SMTT(60) DEF spin_unlock_irq, Unwind
    <2>11. CASE irq_restore_load(x)
        BY <2>11, SMTT(60) DEF irq_restore_load, Decremented, smp_get_irq_nest_depth_ptr
    <2>12. CASE irq_restore_dec(x)
        BY <2>12, SMTT(60) DEF irq_restore_dec
    <2>13. CASE irq_restore_sti(x)
        BY <2>13, SMTT(60) DEF irq_restore_sti, Reenable, Unwind
    <2> QED
        BY <1>5, <2>1, <2>2, <2>3, <2>4, <2>5, <2>6, <2>7, <2>8, <2>9, <2>10,
           <2>11, <2>12, <2>13, Zenon DEF Instruction
<1>6. CASE UNCHANGED vars
    BY <1>6 DEF TypeOK, vars, Indices
<1> QED
    BY <1>1, <1>2, <1>3, <1>4, <1>5, <1>6, Zenon DEF Next

----------------------------------------------------------------------------
(***************************************************************************)
(* Only three steps touch the lock words and the held locks; Call and      *)
(* Interrupt change the path of a context that holds nothing; every other  *)
(* step leaves <<locked, top, path>> alone.                                *)
(***************************************************************************)
Take(x) ==
    /\ pc[x] \in {"enter", "spin"}
    /\ locked[NextStep(x).lock] = 0
    /\ locked' = [locked EXCEPT ![NextStep(x).lock] = 1]
    /\ top' = [top EXCEPT ![x] = @ + 1]
    /\ path' = path
    /\ pc' = [pc EXCEPT ![x] = "cs"]

Give(x) ==
    /\ pc[x] \in {"cs", "out"}
    /\ locked' = [locked EXCEPT ![LastStep(x).lock] = 0]
    /\ top' = [top EXCEPT ![x] = @ - 1]
    /\ path' = path
    /\ \E s \in {"restore", "sti", Unwind(top[x] - 1)} :
          pc' = [pc EXCEPT ![x] = s]

Begin(x) ==
    /\ pc[x] = "idle"
    /\ \E p \in TaskPaths \cup IrqPaths : path' = [path EXCEPT ![x] = p]
    /\ pc' = [pc EXCEPT ![x] = "enter"]
    /\ UNCHANGED <<locked, top>>

Move(x) ==
    /\ UNCHANGED <<locked, top, path>>
    /\ \E s : /\ pc' = [pc EXCEPT ![x] = s]
              /\ \/ /\ pc[x] \notin {"cs", "out", "idle"}
                    /\ s \in {"inc", "cli", "spin", "dec", "flags"}
                 \/ /\ pc[x] \notin {"cs", "out", "idle"}
                    /\ s = Unwind(top[x])
                 \/ /\ pc[x] = "cs" /\ top[x] < Len(path[x])
                    /\ s = "enter"

(* Every step of the specification is one of these four, or none. *)
LEMMA StepKinds ==
    ASSUME TypeOK, LockDiscipline, [Next]_vars
    PROVE  \/ \E x \in Ctx : Take(x) \/ Give(x) \/ Begin(x) \/ Move(x)
           \/ UNCHANGED <<locked, top, path, pc>>
<1>1. ASSUME NEW c \in Cpu, ap_start(c) PROVE UNCHANGED <<locked, top, path, pc>>
    BY <1>1 DEF ap_start, lockVars
<1>2. ASSUME NEW c \in Cpu, NEW p \in TaskPaths, Call(c, p)
      PROVE  Begin(<<c, "task">>)
    BY <1>2, Zenon DEF Call, Begin, Goto, lockVars
<1>3. ASSUME NEW c \in Cpu, NEW p \in IrqPaths, Interrupt(c, p)
      PROVE  Begin(<<c, "irq">>)
    BY <1>3, Zenon DEF Interrupt, Begin, Goto, lockVars, LockDiscipline, NoHandler
<1>4. ASSUME NEW c \in Cpu, Iret(c) PROVE UNCHANGED <<locked, top, path, pc>>
    BY <1>4, Zenon DEF Iret, lockVars
<1>5. ASSUME NEW x \in Ctx, Instruction(x) PROVE Take(x) \/ Give(x) \/ Move(x)
    <2> USE DEF Goto, lockVars
    <2>1. CASE spin_lock(x)
        BY <2>1, Zenon DEF spin_lock, Move
    <2>2. CASE spin_lock_irq(x)
        BY <2>2, Zenon DEF spin_lock_irq, Move
    <2>3. CASE spin_trylock(x)
        BY <2>3 DEF spin_trylock, Take, Move
    <2>4. CASE irq_save(x)
        BY <2>4, Zenon DEF irq_save, Move
    <2>5. CASE irq_disable_inc(x)
        BY <2>5, Zenon DEF irq_disable_inc, Move
    <2>6. CASE irq_disable_cli(x)
        BY <2>6, Zenon DEF irq_disable_cli, Move
    <2>7. CASE arch_spin_lock(x)
        BY <2>7 DEF arch_spin_lock, Free, Take
    <2>8. CASE Nest(x)
        BY <2>8, Zenon DEF Nest, Move
    <2>9. CASE arch_spin_unlock(x)
        BY <2>9, Zenon DEF arch_spin_unlock, Give
    <2>10. CASE spin_unlock_irq(x)
        BY <2>10, Zenon DEF spin_unlock_irq, Move
    <2>11. CASE irq_restore_load(x)
        BY <2>11, Zenon DEF irq_restore_load, Move
    <2>12. CASE irq_restore_dec(x)
        BY <2>12, Zenon DEF irq_restore_dec, Move
    <2>13. CASE irq_restore_sti(x)
        BY <2>13, Zenon DEF irq_restore_sti, Move
    <2> QED
        BY <1>5, <2>1, <2>2, <2>3, <2>4, <2>5, <2>6, <2>7, <2>8, <2>9, <2>10,
           <2>11, <2>12, <2>13, Zenon DEF Instruction
<1>6. CASE UNCHANGED vars
    BY <1>6 DEF vars
<1> QED
    BY <1>1, <1>2, <1>3, <1>4, <1>5, <1>6, Zenon DEF Next, Ctx

(* A context that is not running does not move. *)
LEMMA NoHandlerStep == TypeOK /\ NoHandler /\ [Next]_vars => NoHandler'
<1> SUFFICES ASSUME TypeOK, NoHandler, [Next]_vars PROVE NoHandler'
    OBVIOUS
<1> USE DEF NoHandler, TypeOK, Goto, Ctx
<1>1. ASSUME NEW c \in Cpu, ap_start(c) PROVE NoHandler'
    BY <1>1, Zenon DEF ap_start
<1>2. ASSUME NEW c \in Cpu, NEW p \in TaskPaths, Call(c, p) PROVE NoHandler'
    BY <1>2, Zenon DEF Call, cpuVars
<1>3. ASSUME NEW c \in Cpu, NEW p \in IrqPaths, Interrupt(c, p) PROVE NoHandler'
    BY <1>3, Zenon DEF Interrupt
<1>4. ASSUME NEW c \in Cpu, Iret(c) PROVE NoHandler'
    BY <1>4, Zenon DEF Iret
<1>5. ASSUME NEW x \in Ctx, Instruction(x) PROVE NoHandler'
    <2>1. UNCHANGED inIrq /\ \E s : pc' = [pc EXCEPT ![x] = s]
        BY <1>5, Zenon DEF Instruction, spin_lock, spin_lock_irq, spin_trylock, irq_save,
            irq_disable_inc, irq_disable_cli, arch_spin_lock, Nest,
            arch_spin_unlock, spin_unlock_irq, irq_restore_load,
            irq_restore_dec, irq_restore_sti, cpuVars
    <2>2. x[2] = "irq" => x[1] \in inIrq
        BY <1>5 DEF Instruction, Running
    <2>3. ASSUME NEW c \in Cpu \ inIrq PROVE pc'[<<c, "irq">>] = pc[<<c, "irq">>]
        <3>1. x # <<c, "irq">>
            BY <2>2
        <3> QED
            BY <2>1, <3>1, Zenon
    <2> QED
        BY <2>1, <2>3, Zenon
<1>6. CASE UNCHANGED vars
    BY <1>6, Zenon DEF vars
<1> QED
    BY <1>1, <1>2, <1>3, <1>4, <1>5, <1>6, Zenon DEF Next

(* A context takes only a lock that nobody holds, itself included. *)
LEMMA DisciplineStep ==
    ASSUME IInv, [Next]_vars
    PROVE  LockDiscipline'
<1> USE DEF IInv
<1>1. NoHandler'
    BY NoHandlerStep DEF LockDiscipline
<1>2. ASSUME NEW x \in Ctx PROVE WellNested(x)'
    <2>a. /\ WellNested(x) /\ top \in [Ctx -> Nat]
          /\ path \in [Ctx -> Seq(Step)]
          /\ DOMAIN pc = Ctx /\ pc = [y \in Ctx |-> pc[y]]
        BY CpuAssumption DEF LockDiscipline, TypeOK
    <2>1. ASSUME NEW y \in Ctx, Take(y) PROVE WellNested(x)'
        <3>1. \A i \in 1..top[y] : path[y][i].lock # NextStep(y).lock
            <4>1. NextStep(y).lock \in Lock
                BY <2>1, StepLocks DEF Take
            <4>2. NextStep(y).lock \notin HeldLocks(y)
                BY <2>1, <4>1 DEF MutualExclusion, Take
            <4> QED
                BY <4>2 DEF HeldLocks
        <3>2. CASE x = y
            <4>1. /\ top'[x] = top[x] + 1 /\ path'[x] = path[x] /\ pc'[x] = "cs"
                  /\ top[x] < Len(path[x])
                BY <2>1, <2>a, <3>2, Zenon DEF Take, WellNested
            <4>2. ASSUME NEW i \in 1..top'[x], NEW j \in 1..top'[x],
                         path[x][i].lock = path[x][j].lock
                  PROVE  i = j
                <5>1. /\ top[x] \in Nat
                      /\ \A k \in 1..top[x] : path[x][k].lock # path[x][top[x] + 1].lock
                      /\ \A k, l \in 1..top[x] : path[x][k].lock = path[x][l].lock => k = l
                    BY <2>a, <3>1, <3>2, Zenon DEF WellNested, NextStep
                <5>2. /\ i \in 1..top[x] \/ i = top[x] + 1
                      /\ j \in 1..top[x] \/ j = top[x] + 1
                    BY <4>1, <5>1
                <5> QED
                    BY <4>2, <5>1, <5>2, Zenon
            <4> QED
                BY <2>a, <4>1, <4>2 DEF WellNested
        <3>3. CASE x # y
            BY <2>1, <2>a, <3>3, Zenon DEF Take, WellNested
        <3> QED
            BY <3>2, <3>3, Zenon
    <2>2. ASSUME NEW y \in Ctx, Give(y) PROVE WellNested(x)'
        BY <2>2, <2>a DEF Give, WellNested, Unwind
    <2>3. ASSUME NEW y \in Ctx, Begin(y) PROVE WellNested(x)'
        BY <2>3, <2>a, PathAssumption DEF Begin, WellNested
    <2>4. ASSUME NEW y \in Ctx, Move(y) PROVE WellNested(x)'
        BY <2>4, <2>a DEF Move, WellNested, Unwind
    <2>5. CASE UNCHANGED <<locked, top, path, pc>>
        BY <2>5, <2>a, Zenon DEF WellNested
    <2> QED
        BY <2>1, <2>2, <2>3, <2>4, <2>5, StepKinds, Zenon
<1> QED
    BY <1>1, <1>2 DEF LockDiscipline

----------------------------------------------------------------------------
(* The locks of a context change only when it takes or gives one. *)
LEMMA HeldTake ==
    ASSUME IInv, NEW y \in Ctx, Take(y)
    PROVE  \A x \in Ctx : HeldLocks(x)' =
               IF x = y THEN HeldLocks(y) \cup {NextStep(y).lock} ELSE HeldLocks(x)
<1>1. top \in [Ctx -> Nat]
    BY CpuAssumption DEF IInv, TypeOK
<1>2. \A x \in Ctx : top'[x] = IF x = y THEN top[y] + 1 ELSE top[x]
    BY <1>1 DEF Take
<1>3. path' = path
    BY DEF Take
<1>4. 1..(top[y] + 1) = 1..top[y] \cup {top[y] + 1}
    BY <1>1
<1> QED
    BY <1>1, <1>2, <1>3, <1>4 DEF HeldLocks, NextStep

LEMMA HeldGive ==
    ASSUME IInv, NEW y \in Ctx, Give(y)
    PROVE  \A x \in Ctx : HeldLocks(x)' =
               IF x = y THEN HeldLocks(y) \ {LastStep(y).lock} ELSE HeldLocks(x)
<1>1. top \in [Ctx -> Nat] /\ WellNested(y) /\ top[y] > 0
    BY CpuAssumption DEF IInv, TypeOK, LockDiscipline, WellNested, Give
<1>2. \A x \in Ctx : top'[x] = IF x = y THEN top[y] - 1 ELSE top[x]
    BY <1>1 DEF Give
<1>3. path' = path
    BY DEF Give
<1>4. \A i \in 1..top[y] : i \in 1..(top[y] - 1) <=> path[y][i].lock # LastStep(y).lock
    BY <1>1 DEF WellNested, LastStep
<1>5. {path[y][i].lock : i \in 1..(top[y] - 1)} = HeldLocks(y) \ {LastStep(y).lock}
    BY <1>1, <1>4 DEF HeldLocks
<1> QED
    BY <1>1, <1>2, <1>3, <1>5 DEF HeldLocks

(* What a context gives back is one of its locks. *)
LEMMA GivesHeld ==
    ASSUME IInv, NEW y \in Ctx, pc[y] \in {"cs", "out"}
    PROVE  LastStep(y).lock \in HeldLocks(y)
<1>1. top[y] \in Nat
    BY CpuAssumption DEF IInv, TypeOK
<1>2. top[y] > 0
    BY DEF IInv, LockDiscipline, WellNested
<1>3. top[y] \in 1..top[y]
    BY <1>1, <1>2
<1> QED
    BY <1>3 DEF LastStep, HeldLocks

LEMMA MutualExclusionStep ==
    ASSUME IInv, [Next]_vars
    PROVE  MutualExclusion'
<1> USE DEF MutualExclusion
<1>a. locked \in [Lock -> {0, 1}] /\ MutualExclusion
    BY Zenon DEF IInv, TypeOK
<1>1. ASSUME NEW y \in Ctx, Take(y) PROVE MutualExclusion'
    <2>1. NextStep(y).lock \in Lock
        BY <1>1, StepLocks, Zenon DEF Take, IInv
    <2>2. \A x \in Ctx : NextStep(y).lock \notin HeldLocks(x)
        BY <1>1, <1>a, <2>1 DEF Take
    <2>3. \A l \in Lock : locked'[l] = IF l = NextStep(y).lock THEN 1 ELSE locked[l]
        BY <1>1, <1>a, Zenon DEF Take
    <2> QED
        BY <1>1, <1>a, <2>1, <2>2, <2>3, HeldTake
<1>2. ASSUME NEW y \in Ctx, Give(y) PROVE MutualExclusion'
    <2>1. LastStep(y).lock \in Lock
        BY <1>2, StepLocks, Zenon DEF Give, IInv
    <2>2. LastStep(y).lock \in HeldLocks(y)
        BY <1>2, GivesHeld, Zenon DEF Give
    <2>3. \A l \in Lock : locked'[l] = IF l = LastStep(y).lock THEN 0 ELSE locked[l]
        BY <1>2, <1>a, Zenon DEF Give
    <2> QED
        BY <1>2, <1>a, <2>1, <2>2, <2>3, HeldGive
<1>3. ASSUME NEW y \in Ctx, Begin(y) PROVE MutualExclusion'
    <2>1. top[y] = 0 /\ path \in [Ctx -> Seq(Step)]
        BY <1>3, Zenon DEF Begin, IInv, LockDiscipline, WellNested, TypeOK
    <2>2. \A x \in Ctx : HeldLocks(x)' = HeldLocks(x)
        BY <1>3, <2>1 DEF Begin, HeldLocks
    <2> QED
        BY <1>3, <1>a, <2>2 DEF Begin
<1>4. ASSUME UNCHANGED <<locked, top, path>> PROVE MutualExclusion'
    <2>1. \A x \in Ctx : HeldLocks(x)' = HeldLocks(x)
        BY <1>4 DEF HeldLocks
    <2> QED
        BY <1>4, <1>a, <2>1
<1> QED
    BY <1>1, <1>2, <1>3, <1>4, StepKinds, Zenon DEF Move, IInv

(***************************************************************************)
(* On any number of CPUs, with any locks and any well-formed lock paths,    *)
(* interrupts included, a spin lock has at most one holder and its word is  *)
(* set exactly while it has one (arch_spin_lock, arch_spin_unlock).         *)
(***************************************************************************)
THEOREM SpinLockSafety == Spec => [](TypeOK /\ LockDiscipline /\ MutualExclusion)
<1>1. Init => IInv
    BY InitIInv
<1>2. IInv /\ [Next]_vars => IInv'
    <2> SUFFICES ASSUME IInv, [Next]_vars PROVE IInv'
        OBVIOUS
    <2>1. TypeOK'
        BY TypeStep DEF IInv
    <2>2. LockDiscipline'
        BY DisciplineStep
    <2>3. MutualExclusion'
        BY MutualExclusionStep
    <2> QED
        BY <2>1, <2>2, <2>3 DEF IInv
<1> QED
    BY <1>1, <1>2, PTL DEF Spec, IInv

----------------------------------------------------------------------------
(* The owner of a lock, as the refinement mapping defines it. *)
LEMMA OwnerIsHolder ==
    ASSUME MutualExclusion, NEW l \in Lock
    PROVE  /\ \A x \in Ctx : owner[l] = x <=> l \in HeldLocks(x)
           /\ owner[l] = Nobody <=> \A x \in Ctx : l \notin HeldLocks(x)
           /\ owner[l] \in Ctx \cup {Nobody}
<1>1. \A x \in Ctx : x # Nobody
    BY DEF Ctx, Nobody
<1>2. \A x, y \in Ctx : l \in HeldLocks(x) /\ l \in HeldLocks(y) => x = y
    BY Zenon DEF MutualExclusion
<1> QED
    BY <1>1, <1>2 DEF owner

(* Each step of the locks is a step of Mutex or leaves the owners alone. *)
LEMMA RefinementStep ==
    ASSUME IInv, IInv', [Next]_vars
    PROVE  [M!Next]_owner
<1>a. MutualExclusion /\ MutualExclusion'
    BY DEF IInv
<1>b. /\ owner = [l \in Lock |-> owner[l]]
      /\ owner' = [l \in Lock |-> owner'[l]]
    BY DEF owner
<1>1. ASSUME NEW y \in Ctx, Take(y) PROVE M!Next
    <2> DEFINE k == NextStep(y).lock
    <2>1. k \in Lock
        BY <1>1, StepLocks, Zenon DEF Take, IInv
    <2>2. \A x \in Ctx : k \notin HeldLocks(x)
        BY <1>1, <1>a, <2>1 DEF Take, MutualExclusion
    <2>3. owner[k] = Nobody
        BY <1>a, <2>1, <2>2, OwnerIsHolder, Zenon
    <2>4. \A l \in Lock : owner'[l] = IF l = k THEN y ELSE owner[l]
        <3> SUFFICES ASSUME NEW l \in Lock
                     PROVE  owner'[l] = IF l = k THEN y ELSE owner[l]
            OBVIOUS
        <3>1. \A x \in Ctx : l \in HeldLocks(x)' <=>
                  (l \in HeldLocks(x) \/ (x = y /\ l = k))
            BY <1>1, HeldTake
        <3> QED
            BY <3>1, <2>2, Zenon DEF owner
    <2> QED
        BY <1>b, <2>1, <2>3, <2>4, Zenon DEF M!Next, M!Acquire
<1>2. ASSUME NEW y \in Ctx, Give(y) PROVE M!Next
    <2> DEFINE k == LastStep(y).lock
    <2>1. k \in Lock
        BY <1>2, StepLocks, Zenon DEF Give, IInv
    <2>2. k \in HeldLocks(y)
        BY <1>2, GivesHeld, Zenon DEF Give
    <2>3. owner[k] = y
        BY <1>a, <2>1, <2>2, OwnerIsHolder
    <2>4. \A l \in Lock : owner'[l] = IF l = k THEN Nobody ELSE owner[l]
        <3> SUFFICES ASSUME NEW l \in Lock
                     PROVE  owner'[l] = IF l = k THEN Nobody ELSE owner[l]
            OBVIOUS
        <3>1. \A x \in Ctx : l \in HeldLocks(x)' <=>
                  (l \in HeldLocks(x) /\ ~(x = y /\ l = k))
            BY <1>2, HeldGive, Zenon
        <3>2. \A x \in Ctx : k \in HeldLocks(x) => x = y
            BY <1>a, <2>1, <2>2 DEF MutualExclusion
        <3> QED
            BY <3>1, <3>2, Zenon DEF owner
    <2> QED
        BY <1>b, <2>1, <2>3, <2>4, Zenon DEF M!Next, M!Release
<1>3. ASSUME NEW y \in Ctx, Begin(y) PROVE UNCHANGED owner
    <2>1. top[y] = 0 /\ path \in [Ctx -> Seq(Step)]
        BY <1>3, Zenon DEF Begin, IInv, LockDiscipline, WellNested, TypeOK
    <2>2. \A x \in Ctx : HeldLocks(x)' = HeldLocks(x)
        BY <1>3, <2>1 DEF Begin, HeldLocks
    <2> QED
        BY <2>2, Zenon DEF owner
<1>4. ASSUME UNCHANGED <<locked, top, path>> PROVE UNCHANGED owner
    BY <1>4 DEF owner, HeldLocks
<1> QED
    BY <1>1, <1>2, <1>3, <1>4, StepKinds, Zenon DEF Move, IInv

(***************************************************************************)
(* The spin locks of arch/x86_64/spinlock_arch.h implement the abstract     *)
(* locks of Mutex on any number of CPUs: a lock passes from one owner to    *)
(* the next only through a release by its owner.                            *)
(***************************************************************************)
THEOREM SpinLockRefinement == Spec => ImplementsMutex
<1>1. Init => M!Init
    BY SMTT(60) DEF Init, M!Init, owner, HeldLocks
<1>2. IInv /\ IInv' /\ [Next]_vars => [M!Next]_owner
    BY RefinementStep
<1>3. Spec => []IInv
    BY SpinLockSafety, PTL DEF IInv
<1> QED
    BY <1>1, <1>2, <1>3, PTL DEF Spec, ImplementsMutex, M!Spec

----------------------------------------------------------------------------
(***************************************************************************)
(* T is the task context of the CPU, H its interrupt context.              *)
(***************************************************************************)
T == <<Bsp, "task">>
H == <<Bsp, "irq">>

\* How many of the first k steps of a path count in irq_nest_depth, and that
\* none of them masks interrupts.
SavesIn(p, k) == {j \in 1..k : p[j].kind = "irqsave"}
Saves(p, k) == Cardinality(SavesIn(p, k))
Unmasked(p, k) == \A j \in 1..k : p[j].kind \notin Masking

\* What a context at label l, with t locks of path p held, has added to the
\* depth, and what it remembers of it when others have added b.
Added(p, t, l) == Saves(p, IF l \in {"cli", "spin", "restore", "dec"} THEN t + 1 ELSE t)
Knows(p, t, l, r, d, b) ==
    /\ l \in {"inc", "cli", "restore", "dec", "flags"} => p[t + 1].kind = "irqsave"
    /\ l = "sti" => p[t + 1].kind = "irq"
    /\ l = "spin" => p[t + 1].kind # "try"
    /\ l \in {"inc", "dec", "flags"} => r = b + Saves(p, t)
    /\ l = "cli" => r = b + Saves(p, t) + 1
    /\ l \in {"inc", "dec"} => d = Index[Bsp]

\* The steps of a path at which interrupts are masked, and those whose flags
\* have been saved.
InForce(t, l) == IF l \in {"spin", "restore", "dec", "flags", "sti"} THEN t + 1 ELSE t
Saved(t, l) == IF l \in {"inc", "cli", "spin", "restore", "dec", "flags"} THEN t + 1 ELSE t

Depth ==
    /\ irq_nest_depth[Index[Bsp]] = Added(path[T], top[T], pc[T]) + Added(path[H], top[H], pc[H])
    /\ Knows(path[T], top[T], pc[T], reg[T], depth[T], 0)
    /\ Knows(path[H], top[H], pc[H], reg[H], depth[H], Added(path[T], top[T], pc[T]))

TaskSaved(p, k, f) ==
    \A j \in 1..k : p[j].kind = "irqsave" => (f[j] <=> Unmasked(p, j - 1))
HandlerSaved(p, k, f) == \A j \in 1..k : p[j].kind = "irqsave" => ~f[j]

Flags ==
    /\ TaskSaved(path[T], Saved(top[T], pc[T]), flags[T])
    /\ HandlerSaved(path[H], Saved(top[H], pc[H]), flags[H])
    /\ IF Bsp \in inIrq
       THEN ~iflag[Bsp] /\ Unmasked(path[T], InForce(top[T], pc[T]))
       ELSE iflag[Bsp] <=> Unmasked(path[T], InForce(top[T], pc[T]))

Alone ==
    /\ online = {Bsp} /\ current_cpu_index = Index[Bsp]
    /\ pc[T] # "idle" => path[T] \in machine.task
    /\ pc[H] # "idle" => path[H] \in machine.irq

UniInv == Uniprocessor => Alone /\ Depth /\ Flags

\* What an instruction of each context needs to keep RFLAGS.IF and the saved
\* flags right, and what it then keeps.
TaskReady ==
    /\ TypeOK /\ WellNested(T) /\ MaskingDiscipline /\ Uniprocessor
    /\ pc[T] # "idle" => path[T] \in machine.task
    /\ Knows(path[T], top[T], pc[T], reg[T], depth[T], 0)
    /\ Saves(path[T], top[T]) \in Nat
    /\ Unmasked(path[T], top[T]) => Saves(path[T], top[T]) = 0
    /\ TaskSaved(path[T], Saved(top[T], pc[T]), flags[T])
    /\ iflag[Bsp] <=> Unmasked(path[T], InForce(top[T], pc[T]))
TaskKept ==
    /\ TaskSaved(path'[T], Saved(top'[T], pc'[T]), flags'[T])
    /\ iflag'[Bsp] <=> Unmasked(path'[T], InForce(top'[T], pc'[T]))
    /\ flags'[H] = flags[H]

HandlerReady(b) ==
    /\ TypeOK /\ WellNested(H) /\ MaskingDiscipline /\ Uniprocessor
    /\ pc[H] # "idle" => path[H] \in machine.irq
    /\ Knows(path[H], top[H], pc[H], reg[H], depth[H], b)
    /\ HandlerSaved(path[H], Saved(top[H], pc[H]), flags[H])
    /\ ~iflag[Bsp]
HandlerKept ==
    /\ HandlerSaved(path'[H], Saved(top'[H], pc'[H]), flags'[H])
    /\ ~iflag'[Bsp]
    /\ flags'[T] = flags[T]

(* How a path with no masking step grows. *)
LEMMA UnmaskedGrow ==
    ASSUME NEW p, NEW k \in Nat
    PROVE  /\ Unmasked(p, 0)
           /\ Unmasked(p, k + 1) <=> Unmasked(p, k) /\ p[k + 1].kind \notin Masking
<1>1. Unmasked(p, 0)
    BY DEF Unmasked
<1>2. Unmasked(p, k + 1) <=> Unmasked(p, k) /\ p[k + 1].kind \notin Masking
    <2>1. 1..(k + 1) = 1..k \cup {k + 1}
        OBVIOUS
    <2> QED
        BY <2>1 DEF Unmasked
<1> QED
    BY <1>1, <1>2, Zenon

(***************************************************************************)
(* One instruction of the task context keeps RFLAGS.IF equal to "no lock   *)
(* in force masks interrupts" and the saved flags truthful.                *)
(***************************************************************************)
LEMMA TaskFlags == TaskReady /\ Instruction(T) => TaskKept
<1>0. SUFFICES ASSUME TaskReady, Instruction(T) PROVE TaskKept
    BY Zenon
<1> DEFINE p == path[T]
           t == top[T]
<1>r. /\ TypeOK /\ WellNested(T) /\ MaskingDiscipline /\ Uniprocessor
      /\ pc[T] # "idle" => path[T] \in machine.task
      /\ Knows(path[T], top[T], pc[T], reg[T], depth[T], 0)
    BY <1>0, Zenon DEF TaskReady
<1>s. /\ TaskSaved(path[T], Saved(top[T], pc[T]), flags[T])
      /\ iflag[Bsp] <=> Unmasked(path[T], InForce(top[T], pc[T]))
    BY <1>0, Zenon DEF TaskReady
<1>a. /\ t \in Nat
      /\ t + 1 \in 1..MaxNest \/ pc[T] \in {"cs", "out", "idle"}
      /\ pc[T] \in {"cs", "out"} => t - 1 \in Nat
      /\ T \in Ctx /\ H \in Ctx /\ T # H /\ T[1] = Bsp /\ Bsp \in Cpu
      /\ DOMAIN pc = Ctx /\ DOMAIN path = Ctx /\ DOMAIN top = Ctx
      /\ DOMAIN flags = Ctx /\ DOMAIN iflag = Cpu /\ DOMAIN flags[T] = 1..MaxNest
      /\ iflag[Bsp] \in BOOLEAN
    <2>1. T \in Ctx /\ H \in Ctx /\ T # H /\ T[1] = Bsp /\ Bsp \in Cpu
        BY CpuAssumption, Zenon DEF T, H, Ctx
    <2>2. t \in 0..MaxNest /\ MaxNest \in Nat /\ Len(p) \in Nat
        BY <1>r, <2>1, CpuAssumption DEF TypeOK
    <2>3. /\ t + 1 \in 1..MaxNest \/ pc[T] \in {"cs", "out", "idle"}
          /\ pc[T] \in {"cs", "out"} => t - 1 \in Nat
        BY <1>r, <2>2 DEF WellNested
    <2> QED
        BY <1>r, <2>1, <2>2, <2>3 DEF TypeOK
<1>b. /\ Unmasked(p, t + 1) <=> Unmasked(p, t) /\ p[t + 1].kind \notin Masking
      /\ Unmasked(p, t) => Saves(p, t) = 0
      /\ Saves(p, t) \in Nat
    BY <1>0, <1>a, UnmaskedGrow, Zenon DEF TaskReady
<1>c. pc[T] \in {"cs", "out"} =>
         (Unmasked(p, t) <=> Unmasked(p, t - 1) /\ p[t].kind \notin Masking)
    <2> SUFFICES ASSUME pc[T] \in {"cs", "out"}
                 PROVE  Unmasked(p, t) <=> Unmasked(p, t - 1) /\ p[t].kind \notin Masking
        BY Zenon
    <2>1. t - 1 \in Nat /\ (t - 1) + 1 = t
        BY <1>a
    <2> QED
        BY <2>1, UnmaskedGrow
<1>d. pc[T] = "sti" => Unmasked(p, t)
    <2> SUFFICES ASSUME pc[T] = "sti" PROVE Unmasked(p, t)
        BY Zenon
    <2>1. machine \in Machines /\ machine.cpus = {Bsp} /\ p \in machine.task
        BY <1>r, Zenon DEF TypeOK, Uniprocessor
    <2>2. p[t + 1].kind = "irq"
        BY <1>r, Zenon DEF Knows
    <2>3. t + 1 \in 1..Len(p) /\ (t + 1) - 1 = t
        <3>1. Len(p) \in Nat
            BY <1>a, <1>r DEF TypeOK
        <3> QED
            BY <1>a, <1>r, <3>1 DEF WellNested
    <2> QED
        BY <1>r, <2>1, <2>2, <2>3, Zenon DEF MaskingDiscipline, Unmasked
<1> USE DEF TaskKept, Goto, lockVars, irqVars, cpuVars, InForce, Saved, TaskSaved, Masking
<1> HIDE DEF Saves, Unmasked
<1>1. CASE spin_lock(T)
    <2>1. /\ pc[T] = "enter" /\ p[t + 1].kind = "plain" /\ pc'[T] = "spin"
          /\ UNCHANGED <<top, path, flags, iflag>>
        BY <1>s, <1>1, <1>a, Zenon DEF spin_lock, NextStep
    <2> QED
        BY <1>s, <1>a, <1>b, <2>1
<1>2. CASE spin_lock_irq(T)
    <2>1. /\ pc[T] = "enter" /\ p[t + 1].kind = "irq" /\ pc'[T] = "spin"
          /\ ~iflag'[Bsp] /\ UNCHANGED <<top, path, flags>>
        BY <1>s, <1>2, <1>a, Zenon DEF spin_lock_irq, NextStep
    <2> QED
        BY <1>s, <1>a, <1>b, <2>1
<1>3. CASE spin_trylock(T)
    <2>1. /\ pc[T] = "enter" /\ NextStep(T).kind = "try"
          /\ UNCHANGED <<path, flags, iflag>>
        BY <1>3, Zenon DEF spin_trylock
    <2>2. \/ top'[T] = t + 1 /\ pc'[T] = "cs"
          \/ top'[T] = t /\ pc'[T] \in {"idle", "out"}
        BY <1>s, <1>3, <1>a, Zenon DEF spin_trylock, Unwind
    <2> QED
        BY <1>s, <1>a, <1>b, <2>1, <2>2 DEF NextStep
<1>4. CASE irq_save(T)
    <2>1. /\ pc[T] = "enter" /\ pc'[T] = "inc" /\ top'[T] = t /\ path'[T] = p
          /\ iflag' = iflag /\ flags'[H] = flags[H]
          /\ flags'[T] = [flags[T] EXCEPT ![t + 1] = iflag[Bsp]]
        BY <1>s, <1>4, <1>a, Zenon DEF irq_save
    <2>2. ASSUME NEW j \in 1..(t + 1), p[j].kind = "irqsave"
          PROVE  flags'[T][j] <=> Unmasked(p, j - 1)
        <3>1. CASE j = t + 1
            BY <1>s, <1>a, <2>1, <3>1
        <3>2. CASE j # t + 1
            BY <1>s, <1>a, <2>1, <2>2, <3>2
        <3> QED
            BY <3>1, <3>2, Zenon
    <2> QED
        BY <1>s, <1>a, <2>1, <2>2, Zenon
<1>5. CASE irq_disable_inc(T)
    BY <1>s, <1>5, <1>a, <1>b, Zenon DEF irq_disable_inc
<1>6. CASE irq_disable_cli(T)
    <2>1. /\ pc[T] = "cli" /\ pc'[T] = "spin" /\ top'[T] = t /\ path'[T] = p
          /\ UNCHANGED flags
          /\ iflag'[Bsp] = (iflag[Bsp] /\ reg[T] # 1)
        BY <1>s, <1>6, <1>a, Zenon DEF irq_disable_cli, Outermost
    <2>2. p[t + 1].kind = "irqsave" /\ reg[T] = 0 + Saves(p, t) + 1
        BY <1>r, <1>r, <2>1, Zenon DEF Knows
    <2>3. ~Unmasked(p, t + 1)
        BY <1>b, <2>2, Zenon
    <2>4. Unmasked(p, t) => reg[T] = 1
        BY <1>b, <2>2
    <2>5. iflag[Bsp] <=> Unmasked(p, t)
        BY <1>s, <2>1
    <2>6. ~iflag'[Bsp]
        BY <2>1, <2>4, <2>5, Zenon
    <2> QED
        BY <1>s, <1>a, <2>1, <2>3, <2>6, Zenon
<1>7. CASE arch_spin_lock(T)
    BY <1>s, <1>7, <1>a, <1>b, Zenon DEF arch_spin_lock
<1>8. CASE Nest(T)
    BY <1>s, <1>8, <1>a, <1>b, Zenon DEF Nest
<1>9. CASE arch_spin_unlock(T)
    <2>1. /\ pc[T] \in {"cs", "out"} /\ top'[T] = t - 1 /\ (t - 1) + 1 = t
          /\ UNCHANGED <<path, flags, iflag>>
          /\ pc'[T] = CASE p[t].kind = "irqsave" -> "restore"
                        [] p[t].kind = "irq" -> "sti"
                        [] OTHER -> Unwind(t - 1)
        BY <1>s, <1>9, <1>a DEF arch_spin_unlock, LastStep
    <2>2. CASE p[t].kind = "irqsave"
        BY <1>s, <1>a, <1>c, <2>1, <2>2, Zenon
    <2>3. CASE p[t].kind = "irq"
        BY <1>s, <1>a, <1>c, <2>1, <2>3
    <2>4. CASE p[t].kind \notin {"irqsave", "irq"}
        BY <1>s, <1>a, <1>c, <2>1, <2>4 DEF Unwind
    <2> QED
        BY <2>2, <2>3, <2>4, Zenon
<1>10. CASE spin_unlock_irq(T)
    BY <1>s, <1>10, <1>a, <1>b, <1>d, Zenon DEF spin_unlock_irq, Unwind
<1>11. CASE irq_restore_load(T)
    BY <1>s, <1>11, <1>a, <1>b, Zenon DEF irq_restore_load
<1>12. CASE irq_restore_dec(T)
    BY <1>s, <1>12, <1>a, <1>b, Zenon DEF irq_restore_dec
<1>13. CASE irq_restore_sti(T)
    <2>1. /\ pc[T] = "flags" /\ pc'[T] \in {"idle", "out"} /\ top'[T] = t
          /\ path'[T] = p /\ UNCHANGED flags
          /\ iflag'[Bsp] = (iflag[Bsp] \/ (flags[T][t + 1] /\ reg[T] = 0))
        BY <1>s, <1>13, <1>a, Zenon DEF irq_restore_sti, Unwind, Reenable
    <2>2. /\ p[t + 1].kind = "irqsave" /\ reg[T] = Saves(p, t)
          /\ flags[T][t + 1] <=> Unmasked(p, t)
          /\ ~iflag[Bsp]
        BY <1>s, <1>a, <1>b, <1>r, <2>1 DEF Knows
    <2>3. Unmasked(p, t) => reg[T] = 0
        BY <1>b, <2>2, Zenon
    <2>4. iflag'[Bsp] <=> Unmasked(p, t)
        BY <2>1, <2>2, <2>3, Zenon
    <2> QED
        BY <1>s, <1>a, <2>1, <2>4
<1> QED
    BY <1>1, <1>2, <1>3, <1>4, <1>5, <1>6, <1>7, <1>8, <1>9, <1>10, <1>11, <1>12,
       <1>13, <1>0, Zenon DEF Instruction

(* One instruction of a handler leaves interrupts masked. *)
LEMMA HandlerFlags ==
    ASSUME NEW b PROVE HandlerReady(b) /\ Instruction(H) => HandlerKept
<1>0. SUFFICES ASSUME HandlerReady(b), Instruction(H) PROVE HandlerKept
    BY Zenon
<1> DEFINE p == path[H]
           t == top[H]
<1>r. /\ TypeOK /\ WellNested(H) /\ MaskingDiscipline /\ Uniprocessor
      /\ pc[H] # "idle" => path[H] \in machine.irq
      /\ Knows(path[H], top[H], pc[H], reg[H], depth[H], b)
    BY <1>0, Zenon DEF HandlerReady
<1>s. HandlerSaved(path[H], Saved(top[H], pc[H]), flags[H]) /\ ~iflag[Bsp]
    BY <1>0, Zenon DEF HandlerReady
<1>a. /\ t \in Nat
      /\ t + 1 \in 1..MaxNest \/ pc[H] \in {"cs", "out", "idle"}
      /\ pc[H] \in {"cs", "out"} => t - 1 \in Nat
      /\ T \in Ctx /\ H \in Ctx /\ T # H /\ H[1] = Bsp /\ Bsp \in Cpu
      /\ DOMAIN pc = Ctx /\ DOMAIN path = Ctx /\ DOMAIN top = Ctx
      /\ DOMAIN flags = Ctx /\ DOMAIN iflag = Cpu /\ DOMAIN flags[H] = 1..MaxNest
      /\ iflag[Bsp] \in BOOLEAN
    <2>1. T \in Ctx /\ H \in Ctx /\ T # H /\ H[1] = Bsp /\ Bsp \in Cpu
        BY CpuAssumption, Zenon DEF T, H, Ctx
    <2>2. t \in 0..MaxNest /\ MaxNest \in Nat /\ Len(p) \in Nat
        BY <1>r, <2>1, CpuAssumption DEF TypeOK
    <2>3. /\ t + 1 \in 1..MaxNest \/ pc[H] \in {"cs", "out", "idle"}
          /\ pc[H] \in {"cs", "out"} => t - 1 \in Nat
        BY <1>r, <2>2 DEF WellNested
    <2> QED
        BY <1>r, <2>1, <2>2, <2>3 DEF TypeOK
<1>d. pc[H] # "sti"
    <2> SUFFICES ASSUME pc[H] = "sti" PROVE FALSE
        BY Zenon
    <2>1. machine \in Machines /\ machine.cpus = {Bsp} /\ p \in machine.irq
        BY <1>r, Zenon DEF TypeOK, Uniprocessor
    <2>2. p[t + 1].kind = "irq"
        BY <1>r, Zenon DEF Knows
    <2>3. t + 1 \in 1..Len(p)
        <3>1. Len(p) \in Nat
            BY <1>a, <1>r DEF TypeOK
        <3> QED
            BY <1>a, <1>r, <3>1 DEF WellNested
    <2> QED
        BY <1>r, <2>1, <2>2, <2>3, Zenon DEF MaskingDiscipline
<1> USE DEF HandlerKept, Goto, lockVars, irqVars, cpuVars, Saved, HandlerSaved
<1>1. CASE spin_lock(H)
    <2>1. /\ pc[H] = "enter" /\ p[t + 1].kind = "plain" /\ pc'[H] = "spin"
          /\ UNCHANGED <<top, path, flags, iflag>>
        BY <1>s, <1>1, <1>a, Zenon DEF spin_lock, NextStep
    <2> QED
        BY <1>s, <1>a, <2>1
<1>2. CASE spin_lock_irq(H)
    <2>1. /\ pc[H] = "enter" /\ p[t + 1].kind = "irq" /\ pc'[H] = "spin"
          /\ ~iflag'[Bsp] /\ UNCHANGED <<top, path, flags>>
        BY <1>s, <1>2, <1>a, Zenon DEF spin_lock_irq, NextStep
    <2> QED
        BY <1>s, <1>a, <2>1
<1>3. CASE spin_trylock(H)
    <2>1. /\ pc[H] = "enter" /\ NextStep(H).kind = "try"
          /\ UNCHANGED <<path, flags, iflag>>
        BY <1>3 DEF spin_trylock
    <2>2. \/ top'[H] = t + 1 /\ pc'[H] = "cs"
          \/ top'[H] = t /\ pc'[H] \in {"idle", "out"}
        BY <1>s, <1>3, <1>a, Zenon DEF spin_trylock, Unwind
    <2> QED
        BY <1>s, <1>a, <2>1, <2>2 DEF NextStep
<1>4. CASE irq_save(H)
    <2>1. /\ pc[H] = "enter" /\ pc'[H] = "inc" /\ top'[H] = t /\ path'[H] = p
          /\ iflag' = iflag /\ flags'[T] = flags[T]
          /\ flags'[H] = [flags[H] EXCEPT ![t + 1] = iflag[Bsp]]
        BY <1>s, <1>4, <1>a, Zenon DEF irq_save
    <2>2. ASSUME NEW j \in 1..(t + 1), p[j].kind = "irqsave"
          PROVE  ~flags'[H][j]
        <3>1. CASE j = t + 1
            BY <1>s, <1>a, <2>1, <3>1, Zenon
        <3>2. CASE j # t + 1
            BY <1>s, <1>a, <2>1, <2>2, <3>2
        <3> QED
            BY <3>1, <3>2, Zenon
    <2> QED
        BY <1>s, <1>a, <2>1, <2>2, Zenon
<1>5. CASE irq_disable_inc(H)
    BY <1>s, <1>5, <1>a, Zenon DEF irq_disable_inc
<1>6. CASE irq_disable_cli(H)
    BY <1>s, <1>6, <1>a, Zenon DEF irq_disable_cli
<1>7. CASE arch_spin_lock(H)
    BY <1>s, <1>7, <1>a, <1>r, Zenon DEF arch_spin_lock, Knows
<1>8. CASE Nest(H)
    BY <1>s, <1>8, <1>a, Zenon DEF Nest
<1>9. CASE arch_spin_unlock(H)
    <2>1. /\ pc[H] \in {"cs", "out"} /\ top'[H] = t - 1 /\ (t - 1) + 1 = t
          /\ UNCHANGED <<path, flags, iflag>>
        BY <1>s, <1>9, <1>a DEF arch_spin_unlock
    <2> QED
        BY <1>s, <1>a, <2>1
<1>10. CASE spin_unlock_irq(H)
    BY <1>10, <1>d, Zenon DEF spin_unlock_irq
<1>11. CASE irq_restore_load(H)
    BY <1>s, <1>11, <1>a, Zenon DEF irq_restore_load
<1>12. CASE irq_restore_dec(H)
    BY <1>s, <1>12, <1>a, Zenon DEF irq_restore_dec
<1>13. CASE irq_restore_sti(H)
    <2>1. /\ pc[H] = "flags" /\ pc'[H] \in {"idle", "out"} /\ top'[H] = t
          /\ path'[H] = p /\ UNCHANGED flags
          /\ iflag'[Bsp] = (iflag[Bsp] \/ (flags[H][t + 1] /\ reg[H] = 0))
        BY <1>s, <1>13, <1>a, Zenon DEF irq_restore_sti, Unwind, Reenable
    <2>2. p[t + 1].kind = "irqsave" /\ t + 1 \in 1..(t + 1)
        BY <1>s, <1>a, <1>r, <2>1 DEF Knows
    <2>3. ~flags[H][t + 1]
        BY <1>s, <2>1, <2>2, Zenon
    <2>4. ~iflag'[Bsp]
        BY <1>s, <2>1, <2>3, Zenon
    <2> QED
        BY <1>s, <1>a, <2>1, <2>4
<1> QED
    BY <1>1, <1>2, <1>3, <1>4, <1>5, <1>6, <1>7, <1>8, <1>9, <1>10, <1>11, <1>12,
       <1>13, <1>0, Zenon DEF Instruction

(* An instruction of one context leaves the others' places alone. *)
LEMMA OthersKeep ==
    ASSUME TypeOK, NEW x \in Ctx, NEW y \in Ctx, y # x, Instruction(x)
    PROVE  /\ pc'[y] = pc[y] /\ top'[y] = top[y]
           /\ reg'[y] = reg[y] /\ depth'[y] = depth[y]
           /\ UNCHANGED <<path, machine, online, inIrq, current_cpu_index>>
<1> USE DEF TypeOK, Goto, lockVars, irqVars, cpuVars
<1>1. CASE spin_lock(x) \/ spin_lock_irq(x) \/ irq_save(x) \/ Nest(x)
    BY <1>1, Zenon DEF spin_lock, spin_lock_irq, irq_save, Nest
<1>2. CASE irq_disable_inc(x) \/ irq_disable_cli(x) \/ arch_spin_lock(x)
    BY <1>2 DEF irq_disable_inc, irq_disable_cli, arch_spin_lock
<1>3. CASE spin_trylock(x) \/ arch_spin_unlock(x)
    BY <1>3, Zenon DEF spin_trylock, arch_spin_unlock
<1>4. CASE spin_unlock_irq(x) \/ irq_restore_load(x) \/ irq_restore_dec(x)
              \/ irq_restore_sti(x)
    BY <1>4, Zenon DEF spin_unlock_irq, irq_restore_load, irq_restore_dec, irq_restore_sti
<1> QED
    BY <1>1, <1>2, <1>3, <1>4, Zenon DEF Instruction

----------------------------------------------------------------------------
(* How the count of a path's saving steps grows with it. *)
LEMMA SavesGrow ==
    ASSUME NEW p, NEW k \in Nat
    PROVE  /\ Saves(p, k) \in Nat
           /\ Saves(p, 0) = 0
           /\ Saves(p, k + 1) =
                 Saves(p, k) + IF p[k + 1].kind = "irqsave" THEN 1 ELSE 0
           /\ Unmasked(p, k) => Saves(p, k) = 0
<1>1. IsFiniteSet(SavesIn(p, k))
    <2>1. IsFiniteSet(1..k)
        BY FS_Interval
    <2> QED
        BY <2>1, FS_Subset, Zenon DEF SavesIn
<1>2. Saves(p, k) \in Nat
    BY <1>1, FS_CardinalityType, Zenon DEF Saves
<1>3. Saves(p, 0) = 0
    <2>1. SavesIn(p, 0) = {}
        BY DEF SavesIn
    <2> QED
        BY <2>1, FS_EmptySet, Zenon DEF Saves
<1>0. Unmasked(p, k) => Saves(p, k) = 0
    <2>1. Unmasked(p, k) => SavesIn(p, k) = {}
        BY DEF Unmasked, SavesIn, Masking
    <2> QED
        BY <2>1, FS_EmptySet, Zenon DEF Saves
<1>4. CASE p[k + 1].kind = "irqsave"
    <2>1. SavesIn(p, k + 1) = SavesIn(p, k) \cup {k + 1} /\ k + 1 \notin SavesIn(p, k)
        BY <1>4 DEF SavesIn
    <2>2. Cardinality(SavesIn(p, k) \cup {k + 1}) = Cardinality(SavesIn(p, k)) + 1
        BY <1>1, <2>1, FS_AddElement, Zenon
    <2> QED
        BY <1>0, <1>2, <1>3, <1>4, <2>1, <2>2, Zenon DEF Saves
<1>5. CASE p[k + 1].kind # "irqsave"
    <2>1. SavesIn(p, k + 1) = SavesIn(p, k)
        BY <1>5 DEF SavesIn
    <2> QED
        BY <1>0, <1>2, <1>3, <1>5, <2>1 DEF Saves
<1> QED
    BY <1>4, <1>5, Zenon

(***************************************************************************)
(* One instruction of a running context keeps its account of the depth,    *)
(* whatever b the other context has added and will take away again.        *)
(***************************************************************************)
LEMMA InstructionDepth ==
    ASSUME TypeOK, NEW x \in Ctx, WellNested(x), NEW b \in Nat, Instruction(x),
           current_cpu_index = Index[Bsp],
           irq_nest_depth[Index[Bsp]] = b + Added(path[x], top[x], pc[x]),
           Knows(path[x], top[x], pc[x], reg[x], depth[x], b)
    PROVE  /\ irq_nest_depth'[Index[Bsp]] = b + Added(path'[x], top'[x], pc'[x])
           /\ Knows(path'[x], top'[x], pc'[x], reg'[x], depth'[x], b)
           /\ \A i \in Indices \ {Index[Bsp]} : irq_nest_depth'[i] = irq_nest_depth[i]
<1> DEFINE p == path[x]
           t == top[x]
           n == Saves(p, t)
           I == Index[Bsp]
<1>a. /\ t \in Nat
      /\ pc[x] \in {"cs", "out"} => t - 1 \in Nat
      /\ DOMAIN pc = Ctx /\ DOMAIN path = Ctx /\ DOMAIN top = Ctx /\ DOMAIN reg = Ctx
      /\ DOMAIN depth = Ctx /\ DOMAIN irq_nest_depth = Indices /\ I \in Indices
      /\ p[t + 1].kind \in Kind \/ pc[x] \in {"cs", "out", "idle"}
    <2>1. pc[x] \notin {"cs", "out", "idle"} => t + 1 \in 1..Len(p)
        BY CpuAssumption DEF TypeOK, WellNested
    <2>2. p \in Seq(Step)
        BY DEF TypeOK
    <2> QED
        BY <2>1, <2>2, CpuAssumption, PathStep DEF TypeOK, WellNested, Indices
<1>b. /\ n \in Nat
      /\ Saves(p, t + 1) = n + IF p[t + 1].kind = "irqsave" THEN 1 ELSE 0
    BY <1>a, SavesGrow, Zenon
<1>c. pc[x] \in {"cs", "out"} =>
         /\ Saves(p, t - 1) \in Nat
         /\ n = Saves(p, t - 1) + IF p[t].kind = "irqsave" THEN 1 ELSE 0
    <2> SUFFICES ASSUME pc[x] \in {"cs", "out"}
                 PROVE /\ Saves(p, t - 1) \in Nat
                       /\ n = Saves(p, t - 1) + IF p[t].kind = "irqsave" THEN 1 ELSE 0
        BY Zenon
    <2>1. t - 1 \in Nat /\ (t - 1) + 1 = t
        BY <1>a, SMTT(20)
    <2> QED
        BY <2>1, SavesGrow
<1> USE DEF Added, Knows, Goto, lockVars, irqVars, cpuVars
<1> HIDE DEF Saves
<1>1. CASE spin_lock(x) \/ spin_lock_irq(x)
    <2>1. /\ pc[x] = "enter" /\ pc'[x] = "spin" /\ NextStep(x).kind \in {"plain", "irq"}
          /\ UNCHANGED <<path, top, irq_nest_depth, reg, depth>>
        BY <1>1, <1>a, Zenon DEF spin_lock, spin_lock_irq
    <2> QED
        BY <1>a, <1>b, <2>1 DEF NextStep
<1>3. CASE spin_trylock(x)
    <2>1. /\ pc[x] = "enter" /\ NextStep(x).kind = "try"
          /\ UNCHANGED <<path, irq_nest_depth, reg, depth>>
        BY <1>3, Zenon DEF spin_trylock
    <2>2. \/ top'[x] = t + 1 /\ pc'[x] = "cs"
          \/ top'[x] = t /\ pc'[x] \in {"idle", "out"}
        BY <1>3, <1>a, Zenon DEF spin_trylock, Unwind
    <2> QED
        BY <1>a, <1>b, <2>1, <2>2 DEF NextStep
<1>4. CASE irq_save(x)
    BY <1>4, <1>a, <1>b, Zenon DEF irq_save, NextStep, smp_get_irq_nest_depth_ptr
<1>5. CASE irq_disable_inc(x)
    BY <1>5, <1>a, <1>b DEF irq_disable_inc
<1>6. CASE irq_disable_cli(x)
    BY <1>6, <1>a, <1>b, Zenon DEF irq_disable_cli
<1>7. CASE arch_spin_lock(x)
    BY <1>7, <1>a, <1>b, Zenon DEF arch_spin_lock
<1>8. CASE Nest(x)
    BY <1>8, <1>a, <1>b, Zenon DEF Nest
<1>9. CASE arch_spin_unlock(x)
    <2>1. /\ pc[x] \in {"cs", "out"} /\ top'[x] = t - 1 /\ (t - 1) + 1 = t
          /\ UNCHANGED <<path, irq_nest_depth, reg, depth>>
          /\ pc'[x] = CASE p[t].kind = "irqsave" -> "restore"
                        [] p[t].kind = "irq" -> "sti"
                        [] OTHER -> Unwind(t - 1)
        BY <1>9, <1>a DEF arch_spin_unlock, LastStep
    <2>2. CASE p[t].kind = "irqsave"
        BY <1>a, <1>c, <2>1, <2>2, Zenon
    <2>3. CASE p[t].kind = "irq"
        BY <1>a, <1>c, <2>1, <2>3
    <2>4. CASE p[t].kind \notin {"irqsave", "irq"}
        BY <1>a, <1>c, <2>1, <2>4 DEF Unwind
    <2> QED
        BY <2>2, <2>3, <2>4, Zenon
<1>10. CASE spin_unlock_irq(x)
    BY <1>10, <1>a, <1>b, Zenon DEF spin_unlock_irq, Unwind
<1>11. CASE irq_restore_load(x)
    <2>1. /\ pc[x] = "restore" /\ depth'[x] = I /\ reg'[x] = Decremented(irq_nest_depth[I])
          /\ pc'[x] = IF irq_nest_depth[I] > 0 THEN "dec" ELSE "flags"
          /\ UNCHANGED <<path, top, irq_nest_depth>>
        BY <1>11, <1>a, Zenon DEF irq_restore_load, smp_get_irq_nest_depth_ptr
    <2>2. irq_nest_depth[I] = b + Saves(p, t + 1) /\ p[t + 1].kind = "irqsave"
        BY <2>1, Zenon
    <2>3. irq_nest_depth[I] > 0 /\ irq_nest_depth[I] - 1 = b + n
        BY <1>b, <2>2
    <2>4. pc'[x] = "dec" /\ reg'[x] = b + n
        BY <2>1, <2>3, Zenon DEF Decremented
    <2> QED
        BY <2>1, <2>2, <2>4, Zenon
<1>12. CASE irq_restore_dec(x)
    BY <1>12, <1>a, <1>b, Zenon DEF irq_restore_dec
<1>13. CASE irq_restore_sti(x)
    BY <1>13, <1>a, <1>b, Zenon DEF irq_restore_sti, Unwind
<1> QED
    BY <1>1, <1>3, <1>4, <1>5, <1>6, <1>7, <1>8, <1>9, <1>10, <1>11, <1>12,
       <1>13, Zenon DEF Instruction

----------------------------------------------------------------------------
LEMMA UniInit == Init => UniInv
<1> SUFFICES ASSUME Init, Uniprocessor PROVE Alone /\ Depth /\ Flags
    BY DEF UniInv
<1>1. T \in Ctx /\ H \in Ctx /\ Bsp \in Cpu /\ Index[Bsp] \in Indices
    BY CpuAssumption DEF T, H, Ctx, Indices
<1>2. /\ pc[T] = "idle" /\ pc[H] = "idle" /\ top[T] = 0 /\ top[H] = 0
      /\ iflag[Bsp] = TRUE /\ irq_nest_depth[Index[Bsp]] = 0
      /\ online = {Bsp} /\ inIrq = {} /\ current_cpu_index = Index[Bsp]
    BY <1>1, Zenon DEF Init
<1>3. /\ Saves(path[T], 0) = 0 /\ Saves(path[H], 0) = 0
      /\ Unmasked(path[T], 0)
    BY SavesGrow, UnmaskedGrow, Zenon
<1>4. Depth
    BY <1>2, <1>3, SMTT(20) DEF Depth, Added, Knows
<1>5. Flags
    BY <1>2, <1>3 DEF Flags, TaskSaved, HandlerSaved, Saved, InForce
<1> QED
    BY <1>2, <1>4, <1>5 DEF Alone

LEMMA UniInstruction ==
    ASSUME IInv, MaskingDiscipline, Uniprocessor, Alone, Depth, Flags,
           NEW x \in Ctx, Instruction(x)
    PROVE  (Alone /\ Depth /\ Flags)'
<1>a. /\ TypeOK /\ WellNested(T) /\ WellNested(H)
      /\ T \in Ctx /\ H \in Ctx /\ T # H /\ Bsp \in Cpu
      /\ pc[H] = "idle" => top[H] = 0
      /\ Bsp \notin inIrq => pc[H] = "idle"
      /\ top[T] \in Nat /\ top[H] \in Nat
    <2>1. T \in Ctx /\ H \in Ctx /\ T # H /\ Bsp \in Cpu
        BY CpuAssumption, Zenon DEF T, H, Ctx
    <2>2. TypeOK /\ WellNested(T) /\ WellNested(H) /\ NoHandler
        BY <2>1, Zenon DEF IInv, LockDiscipline
    <2>3. top \in [Ctx -> Nat]
        BY <2>2, CpuAssumption DEF TypeOK
    <2>4. Bsp \notin inIrq => pc[H] = "idle"
        BY <2>1, <2>2, Zenon DEF NoHandler, H
    <2> QED
        BY <2>1, <2>2, <2>3, <2>4, Zenon DEF WellNested
<1>b. (x = T /\ Bsp \notin inIrq) \/ (x = H /\ Bsp \in inIrq)
    <2>1. PICK c \in Cpu, k \in {"task", "irq"} : x = <<c, k>>
        BY DEF Ctx
    <2>2. c \in online /\ (k = "irq" <=> c \in inIrq)
        BY <2>1, Zenon DEF Instruction, Running
    <2>3. c = Bsp
        BY <2>2 DEF Alone
    <2>4. CASE k = "task"
        BY <2>1, <2>2, <2>3, <2>4, Zenon DEF T
    <2>5. CASE k = "irq"
        BY <2>1, <2>2, <2>3, <2>5, Zenon DEF H
    <2> QED
        BY <2>4, <2>5, Zenon
<1>1. CASE x = T /\ Bsp \notin inIrq
    <2>1. /\ pc'[H] = "idle" /\ pc[H] = "idle" /\ top'[H] = 0 /\ top[H] = 0
          /\ UNCHANGED <<path, machine, online, inIrq, current_cpu_index>>
        BY <1>1, <1>a, OthersKeep, Zenon
    <2>2. Saves(path[H], 0) = 0 /\ Added(path[T], top[T], pc[T]) \in Nat
        BY <1>a, SavesGrow, SMTT(20) DEF Added
    <2>3. /\ irq_nest_depth[Index[Bsp]] = 0 + Added(path[T], top[T], pc[T])
          /\ Knows(path[T], top[T], pc[T], reg[T], depth[T], 0)
        <3>1. Added(path[H], top[H], pc[H]) = 0
            BY <2>1, <2>2, Zenon DEF Added
        <3> QED
            BY <2>2, <3>1 DEF Depth
    <2>4. /\ irq_nest_depth'[Index[Bsp]] = 0 + Added(path'[T], top'[T], pc'[T])
          /\ Knows(path'[T], top'[T], pc'[T], reg'[T], depth'[T], 0)
        BY <1>1, <1>a, <2>3, InstructionDepth, Zenon DEF Alone
    <2>5. Depth'
        <3>1. Added(path'[H], top'[H], pc'[H]) = 0
            BY <2>1, <2>2, Zenon DEF Added
        <3>2. Added(path'[T], top'[T], pc'[T]) \in Nat
            <4>1. top'[T] \in Nat
                <5>1. TypeOK'
                    BY TypeStep, Zenon DEF IInv, Next
                <5> QED
                    BY <1>a, <5>1, CpuAssumption DEF TypeOK
            <4> QED
                BY <4>1, SavesGrow DEF Added
        <3>3. Knows(path'[H], top'[H], pc'[H], reg'[H], depth'[H],
                    Added(path'[T], top'[T], pc'[T]))
            BY <2>1 DEF Knows
        <3> QED
            BY <2>4, <3>1, <3>2, <3>3 DEF Depth
    <2>6. TaskKept
        <3>1. /\ Saves(path[T], top[T]) \in Nat
              /\ Unmasked(path[T], top[T]) => Saves(path[T], top[T]) = 0
            BY <1>a, SavesGrow, Zenon
        <3>2. /\ TaskSaved(path[T], Saved(top[T], pc[T]), flags[T])
              /\ iflag[Bsp] <=> Unmasked(path[T], InForce(top[T], pc[T]))
            BY <1>1, Zenon DEF Flags
        <3>3. TaskReady
            BY <1>a, <2>3, <3>1, <3>2, Zenon DEF TaskReady, Alone
        <3> QED
            BY <1>1, <3>3, TaskFlags, Zenon
    <2>7. Flags'
        BY <1>1, <2>1, <2>6, Zenon DEF Flags, TaskKept
    <2>8. pc'[T] # "idle" => path'[T] \in machine'.task
        <3>1. pc[T] # "idle"
            BY <1>1, Zenon DEF Instruction, spin_lock, spin_lock_irq, spin_trylock,
                irq_save, irq_disable_inc, irq_disable_cli, arch_spin_lock, Nest,
                arch_spin_unlock, spin_unlock_irq, irq_restore_load,
                irq_restore_dec, irq_restore_sti
        <3> QED
            BY <2>1, <3>1, Zenon DEF Alone
    <2> QED
        BY <2>1, <2>5, <2>7, <2>8, Zenon DEF Alone
<1>2. CASE x = H /\ Bsp \in inIrq
    <2>1. /\ pc'[T] = pc[T] /\ top'[T] = top[T]
          /\ reg'[T] = reg[T] /\ depth'[T] = depth[T]
          /\ UNCHANGED <<path, machine, online, inIrq, current_cpu_index>>
        BY <1>2, <1>a, OthersKeep, Zenon
    <2>2. PICK b \in Nat : b = Added(path[T], top[T], pc[T])
        BY <1>a, SavesGrow DEF Added
    <2>3. /\ irq_nest_depth[Index[Bsp]] = b + Added(path[H], top[H], pc[H])
          /\ Knows(path[H], top[H], pc[H], reg[H], depth[H], b)
        BY <2>2, Zenon DEF Depth
    <2>4. /\ irq_nest_depth'[Index[Bsp]] = b + Added(path'[H], top'[H], pc'[H])
          /\ Knows(path'[H], top'[H], pc'[H], reg'[H], depth'[H], b)
        BY <1>2, <1>a, <2>3, InstructionDepth, Zenon DEF Alone
    <2>5. Depth'
        BY <2>1, <2>2, <2>4, Zenon DEF Depth
    <2>6. HandlerKept
        <3>1. HandlerReady(b)
            BY <1>2, <1>a, <2>3, Zenon DEF HandlerReady, Alone, Flags
        <3> QED
            BY <1>2, <3>1, HandlerFlags, Zenon
    <2>7. Flags'
        BY <1>2, <2>1, <2>6, Zenon DEF Flags, HandlerKept
    <2>8. pc'[H] # "idle" => path'[H] \in machine'.irq
        <3>1. pc[H] # "idle"
            BY <1>2, Zenon DEF Instruction, spin_lock, spin_lock_irq, spin_trylock,
                irq_save, irq_disable_inc, irq_disable_cli, arch_spin_lock, Nest,
                arch_spin_unlock, spin_unlock_irq, irq_restore_load,
                irq_restore_dec, irq_restore_sti
        <3> QED
            BY <2>1, <3>1, Zenon DEF Alone
    <2> QED
        BY <2>1, <2>5, <2>7, <2>8, Zenon DEF Alone
<1> QED
    BY <1>b, <1>1, <1>2, Zenon

LEMMA UniStep ==
    ASSUME IInv, MaskingDiscipline, UniInv, [Next]_vars
    PROVE  UniInv'
<1>a. UNCHANGED machine
    BY Zenon DEF Next, vars, ap_start, Call, Interrupt, Iret, cpuVars, Instruction,
        spin_lock, spin_lock_irq, spin_trylock, irq_save, irq_disable_inc,
        irq_disable_cli, arch_spin_lock, Nest, arch_spin_unlock,
        spin_unlock_irq, irq_restore_load, irq_restore_dec, irq_restore_sti
<1> SUFFICES ASSUME Uniprocessor PROVE (Alone /\ Depth /\ Flags)'
    BY <1>a DEF UniInv, Uniprocessor
<1>b. Alone
    BY DEF UniInv
<1>f. Depth
    BY DEF UniInv
<1>g. Flags
    BY DEF UniInv
<1>c. /\ T \in Ctx /\ H \in Ctx /\ T # H /\ Bsp \in Cpu
      /\ DOMAIN pc = Ctx /\ DOMAIN path = Ctx /\ DOMAIN iflag = Cpu
    BY CpuAssumption, Zenon DEF T, H, Ctx, IInv, TypeOK
<1>d. /\ pc[T] = "idle" => top[T] = 0
      /\ pc[H] = "idle" => top[H] = 0
      /\ Bsp \notin inIrq => pc[H] = "idle"
    BY <1>c, Zenon DEF IInv, LockDiscipline, WellNested, NoHandler, H
<1>e. \A p : Saves(p, 0) = 0 /\ Unmasked(p, 0)
    BY SavesGrow, UnmaskedGrow, Zenon
<1>1. ASSUME NEW c \in Cpu, ap_start(c) PROVE FALSE
    BY <1>1, <1>b, Zenon DEF ap_start, Alone, Uniprocessor
<1>2. ASSUME NEW c \in Cpu, NEW p \in TaskPaths, Call(c, p)
      PROVE  (Alone /\ Depth /\ Flags)'
    <2>1. c = Bsp /\ pc[T] = "idle" /\ Bsp \notin inIrq /\ p \in machine.task
        BY <1>2, <1>b, Zenon DEF Call, Running, Alone, T
    <2>2. /\ pc'[T] = "enter" /\ pc'[H] = pc[H] /\ path'[T] = p /\ path'[H] = path[H]
          /\ UNCHANGED <<iflag, flags, top, irq_nest_depth, current_cpu_index, reg,
                         depth, machine, online, inIrq>>
        BY <1>2, <1>c, <2>1, Zenon DEF Call, Goto, T, lockVars, irqVars, cpuVars
    <2>3. top[T] = 0 /\ pc[H] = "idle" /\ top[H] = 0
        BY <1>d, <2>1, Zenon
    <2>d. pc'[T] = "enter" /\ pc'[H] = pc[H] /\ path'[H] = path[H]
        BY <2>2, Zenon
    <2>a. /\ Added(path[T], top[T], pc[T]) = 0 /\ Added(path'[T], top[T], "enter") = 0
          /\ Knows(path'[T], top[T], "enter", reg[T], depth[T], 0)
        BY <1>e, <2>1, <2>3, Zenon DEF Added, Knows
    <2>4. Depth'
        <3>1. UNCHANGED <<top, irq_nest_depth, reg, depth>>
            BY <2>2, Zenon
        <3> QED
            BY <1>f, <2>d, <2>a, <3>1, Zenon DEF Depth
    <2>b. TaskSaved(path'[T], Saved(top[T], "enter"), flags[T])
        BY <2>3 DEF TaskSaved, Saved
    <2>c. /\ InForce(top[T], pc[T]) = 0 /\ InForce(top[T], "enter") = 0
          /\ Unmasked(path[T], 0) /\ Unmasked(path'[T], 0)
        BY <1>e, <2>1, <2>3, Zenon DEF InForce
    <2>5. Flags'
        <3>1. UNCHANGED <<top, flags, iflag, inIrq>>
            BY <2>2, Zenon
        <3> QED
            BY <1>g, <2>1, <2>d, <2>b, <2>c, <3>1, Zenon DEF Flags
    <2>6. Alone'
        BY <1>b, <2>1, <2>2, <2>3, Zenon DEF Alone
    <2> QED
        BY <2>4, <2>5, <2>6, Zenon
<1>3. ASSUME NEW c \in Cpu, NEW p \in IrqPaths, Interrupt(c, p)
      PROVE  (Alone /\ Depth /\ Flags)'
    <2>1. c = Bsp /\ Bsp \notin inIrq /\ p \in machine.irq /\ iflag[Bsp]
        BY <1>3, <1>b, Zenon DEF Interrupt, Alone
    <2>2. pc[H] = "idle" /\ top[H] = 0
        BY <1>d, <2>1, Zenon
    <2>3. /\ pc'[H] = "enter" /\ pc'[T] = pc[T] /\ path'[H] = p /\ path'[T] = path[T]
          /\ inIrq' = inIrq \cup {Bsp} /\ iflag'[Bsp] = FALSE
          /\ UNCHANGED <<flags, top, irq_nest_depth, current_cpu_index, reg,
                         depth, machine, online>>
        BY <1>3, <1>c, <2>1, Zenon DEF Interrupt, Goto, H, lockVars, irqVars
    <2>d. pc'[H] = "enter" /\ pc'[T] = pc[T] /\ path'[T] = path[T]
        BY <2>3, Zenon
    <2>a. /\ Added(path[H], top[H], pc[H]) = 0 /\ Added(path'[H], top[H], "enter") = 0
          /\ \A b : Knows(path'[H], top[H], "enter", reg[H], depth[H], b)
        BY <1>e, <2>2, Zenon DEF Added, Knows
    <2>4. Depth'
        <3>1. UNCHANGED <<top, irq_nest_depth, reg, depth>>
            BY <2>3, Zenon
        <3> QED
            BY <1>f, <2>d, <2>a, <3>1, Zenon DEF Depth
    <2>b. HandlerSaved(path'[H], Saved(top[H], "enter"), flags[H])
        BY <2>2 DEF HandlerSaved, Saved
    <2>5. Flags'
        <3>1. UNCHANGED <<top, flags>> /\ Bsp \in inIrq' /\ ~iflag'[Bsp]
            BY <2>3, Zenon
        <3> QED
            BY <1>g, <2>1, <2>d, <2>b, <3>1, Zenon DEF Flags
    <2>6. Alone'
        BY <1>b, <2>1, <2>3, Zenon DEF Alone
    <2> QED
        BY <2>4, <2>5, <2>6, Zenon
<1>4. ASSUME NEW c \in Cpu, Iret(c) PROVE (Alone /\ Depth /\ Flags)'
    <2>1. c = Bsp /\ Bsp \in inIrq /\ pc[H] = "idle"
        BY <1>4, <1>b, Zenon DEF Iret, Running, Alone, H
    <2>2. /\ inIrq' = inIrq \ {Bsp} /\ iflag'[Bsp] = TRUE
          /\ UNCHANGED <<pc, path, flags, top, irq_nest_depth, current_cpu_index, reg,
                         depth, machine, online>>
        BY <1>4, <1>c, <2>1, Zenon DEF Iret, lockVars, irqVars
    <2>3. Depth'
        BY <1>f, <2>2, Zenon DEF Depth
    <2>4. Flags'
        BY <1>g, <2>1, <2>2, Zenon DEF Flags
    <2>5. Alone'
        BY <1>b, <2>2, Zenon DEF Alone
    <2> QED
        BY <2>3, <2>4, <2>5, Zenon
<1>5. ASSUME NEW x \in Ctx, Instruction(x) PROVE (Alone /\ Depth /\ Flags)'
    BY <1>5, <1>b, <1>f, <1>g, UniInstruction, Zenon
<1>6. CASE UNCHANGED vars
    <2>1. Alone'
        BY <1>6, <1>b, Zenon DEF vars, Alone
    <2>2. Depth'
        BY <1>6, <1>f, Zenon DEF vars, Depth
    <2>3. Flags'
        BY <1>6, <1>g, Zenon DEF vars, Flags
    <2> QED
        BY <2>1, <2>2, <2>3, Zenon
<1> QED
    BY <1>1, <1>2, <1>3, <1>4, <1>5, <1>6, Zenon DEF Next

(* A handler is entered only while no lock in force masks interrupts, and   *)
(* a lock taken without masking is on no path of a handler.                *)
LEMMA UniMeans ==
    ASSUME IInv, MaskingDiscipline, UniInv
    PROVE  NoSelfDeadlock /\ InterruptsRestored
<1> SUFFICES ASSUME Uniprocessor
             PROVE  /\ Bsp \in inIrq /\ pc[H] = "spin" =>
                          NextStep(H).lock \notin HeldLocks(T)
                    /\ pc[T] = "idle" /\ Bsp \notin inIrq => iflag[Bsp]
    <2>1. Uniprocessor => inIrq \subseteq {Bsp}
        BY DEF UniInv, Alone, IInv, TypeOK
    <2> QED
        BY <2>1, Zenon DEF NoSelfDeadlock, InterruptsRestored, T, H
<1>a. Alone /\ Flags
    BY Zenon DEF UniInv
<1>b. /\ T \in Ctx /\ H \in Ctx /\ machine \in Machines /\ machine.cpus = {Bsp}
      /\ top \in [Ctx -> Nat] /\ path \in [Ctx -> Seq(Step)]
      /\ WellNested(T) /\ WellNested(H)
    BY CpuAssumption DEF T, H, Ctx, IInv, TypeOK, LockDiscipline, Uniprocessor
<1>1. ASSUME Bsp \in inIrq, pc[H] = "spin", NextStep(H).lock \in HeldLocks(T)
      PROVE  FALSE
    <2>1. PICK i \in 1..top[T] : path[T][i].lock = NextStep(H).lock
        BY <1>1, Zenon DEF HeldLocks
    <2>2. path[T] \in machine.task /\ path[H] \in machine.irq
        <3>1. pc[T] # "idle"
            BY <1>b, <2>1 DEF WellNested
        <3> QED
            BY <1>a, <1>1, <3>1, Zenon DEF Alone
    <2>3. i \in 1..Len(path[T]) /\ top[H] + 1 \in 1..Len(path[H])
        BY <1>1, <1>b, <2>1 DEF WellNested
    <2>4. i \in 1..InForce(top[T], pc[T])
        BY <1>b, <2>1 DEF InForce
    <2>5. path[T][i].kind \notin Masking
        BY <1>1, <1>a, <2>4, Zenon DEF Flags, Unmasked
    <2> QED
        BY <1>b, <2>1, <2>2, <2>3, <2>5, Zenon DEF MaskingDiscipline, NextStep
<1>2. ASSUME pc[T] = "idle", Bsp \notin inIrq PROVE iflag[Bsp]
    <2>1. InForce(top[T], pc[T]) = 0
        BY <1>b, <1>2 DEF WellNested, InForce
    <2> QED
        BY <1>a, <1>2, <2>1, UnmaskedGrow, Zenon DEF Flags
<1> QED
    BY <1>1, <1>2, Zenon

(***************************************************************************)
(* On one CPU, with any locks and any lock paths that keep to the masking  *)
(* rules, an interrupt handler never spins on a lock of the context it      *)
(* interrupted, although it may interrupt irq_save, irq_disable and         *)
(* irq_restore between any two instructions.                                *)
(***************************************************************************)
THEOREM HandlerNeverSpins == MaskingDiscipline => (Spec => []NoSelfDeadlock)
<1> SUFFICES ASSUME MaskingDiscipline PROVE Spec => []NoSelfDeadlock
    OBVIOUS
<1>1. Init => UniInv
    BY UniInit
<1>2. IInv /\ UniInv /\ [Next]_vars => UniInv'
    BY UniStep
<1>3. IInv /\ UniInv => NoSelfDeadlock
    BY UniMeans
<1>4. Spec => []IInv
    BY SpinLockSafety, PTL DEF IInv
<1> QED
    BY <1>1, <1>2, <1>3, <1>4, PTL DEF Spec

(***************************************************************************)
(* On one CPU, under the same rules, spin_unlock_irqrestore and             *)
(* spin_unlock_irq give interrupts back: outside every critical section     *)
(* RFLAGS.IF is set, however the sections were nested and interrupted.      *)
(***************************************************************************)
THEOREM InterruptsComeBack == MaskingDiscipline => (Spec => []InterruptsRestored)
<1> SUFFICES ASSUME MaskingDiscipline PROVE Spec => []InterruptsRestored
    OBVIOUS
<1>1. Init => UniInv
    BY UniInit
<1>2. IInv /\ UniInv /\ [Next]_vars => UniInv'
    BY UniStep
<1>3. IInv /\ UniInv => InterruptsRestored
    BY UniMeans
<1>4. Spec => []IInv
    BY SpinLockSafety, PTL DEF IInv
<1> QED
    BY <1>1, <1>2, <1>3, <1>4, PTL DEF Spec
============================================================================
