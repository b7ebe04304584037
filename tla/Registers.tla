----------------------------- MODULE Registers -----------------------------
(***************************************************************************)
(* General-purpose registers, and how the assembly entries save and restore*)
(* them: isr.S and syscall_entry.S.  A register file is a function, the    *)
(* words pushed are a sequence with the last one first.                    *)
(***************************************************************************)
EXTENDS Naturals, Sequences

GPR == {"rax", "rbx", "rcx", "rdx", "rsi", "rdi", "rbp", "r8", "r9", "r10", "r11",
        "r12", "r13", "r14", "r15"}

\* Those that compiled code leaves as it found them.
CalleeSaved == {"rbx", "rbp", "r12", "r13", "r14", "r15"}

\* What push and pop instructions do, one for each register of the list.
Pushed(reg, list) == [i \in 1..Len(list) |-> reg[list[Len(list) + 1 - i]]]
Popped(reg, list, stack) ==
    [r \in GPR |-> LET at == {i \in 1..Len(list) : list[i] = r}
                   IN  IF at = {} THEN reg[r] ELSE stack[CHOOSE i \in at : TRUE]]

\* timer_isr (and ipi_isr): the same list for saving and for restoring.
timer_pushes ==
    <<"r15", "r14", "r13", "r12", "r11", "r10", "r9", "r8", "rbp", "rdi", "rsi",
      "rdx", "rcx", "rbx", "rax">>
timer_pops ==
    <<"r15", "r14", "r13", "r12", "r11", "r10", "r9", "r8", "rbp", "rdi", "rsi",
      "rdx", "rcx", "rbx", "rax">>

\* The registers after timer_isr, whose handler has used them all.
timer_isr(reg) == Popped(reg, timer_pops, Pushed(reg, timer_pushes))

\* syscall_entry saves and restores on the user's stack.
syscall_pushes == <<"rbx", "rbp", "r12", "r13", "r14", "r15">>
\* Mutant: the registers are popped in the order in which they were pushed.
syscall_pops_pushed == syscall_pushes
syscall_pops == <<"r15", "r14", "r13", "r12", "rbp", "rbx">>
============================================================================
