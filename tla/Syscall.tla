------------------------------ MODULE Syscall ------------------------------
(***************************************************************************)
(* System calls of a ring 3 program, syscall.c and syscall_entry.S, above  *)
(* the scheduler.  The program is entered from the boot flow.  Whatever    *)
(* enters the kernel from ring 3, a call or the timer, starts at the top   *)
(* of the boot stack, so stk[Boot] holds one frame for the program and at  *)
(* most one above it.  Interrupts are masked during a call (FMASK).  The   *)
(* program's registers are tracked; a value that the kernel leaves behind  *)
(* in one is Unknown.  SYS_fork is not modelled: process_fork copies an    *)
(* address space that does not exist.                                      *)
(***************************************************************************)
EXTENDS Scheduler, Registers, UserAccess

CONSTANTS
    UserMemory,          \* address -> byte, 0 ends a string
    SYS_WRITE_BUF_SIZE,  \* 4096
    Buffers, Counts,     \* arguments of the program's calls
    TestPid

ASSUME SyscallAssumption ==
    /\ SYS_WRITE_BUF_SIZE \in Nat \ {0}
    /\ Buffers \subseteq Word /\ Counts \subseteq Word
    /\ UserMemory \in [Word -> Nat]

VARIABLES
    reg,         \* registers of the program, as far as it executes
    pushed,      \* what syscall_entry has pushed on the user's stack
    call,        \* the call being served
    kernel_buf,  \* sys_write_buf of this CPU
    own,         \* history: registers when the program last executed itself
    touched,     \* history: user addresses read by the call
    printed      \* history: what a write asks for and prints

userVars == <<reg, pushed, call, kernel_buf, own, touched, printed>>
sysVars == <<vars, userVars>>

Unknown == "any"
NoCall == [nr |-> "none", a |-> 0, n |-> 0]
Silent == [want |-> << >>, got |-> << >>]
Index == 0..(SYS_WRITE_BUF_SIZE - 1)

\* Before a call the program loads its registers, each with another value.
Loaded == [r \in GPR |-> r]

SysInit ==
    /\ Init
    /\ reg = Loaded /\ own = Loaded
    /\ pushed = << >> /\ call = NoCall
    /\ kernel_buf = [i \in Index |-> 0]
    /\ touched = {} /\ printed = Silent

User == Activation("user", NULL, NULL, "body")
Entry == Activation("sys", NULL, NULL, "sysret")

----------------------------------------------------------------------------
(* enter_user_mode, of the usermode test: jump_to_user_mode loads the       *)
(* program's stack and sysretq leaves the boot stack for good.             *)
enter_user_mode ==
    /\ flow = Boot /\ At("body") /\ current = NULL
    /\ stk' = [stk EXCEPT ![Boot] = <<User>>]
    /\ UNCHANGED <<h, state, current, ctx, flow, all_threads_lock, inService,
                   home, userVars>>

(* enter_syscall_test_mode: the same with the idle thread as the current    *)
(* one, which now executes on the boot stack and has the test process.     *)
enter_syscall_test_mode ==
    /\ flow = Boot /\ At("body") /\ current = NULL
    /\ current' = idle
    /\ home' = [home EXCEPT ![idle] = Boot]
    /\ stk' = [stk EXCEPT ![Boot] = <<User>>]
    /\ UNCHANGED <<h, state, ctx, flow, all_threads_lock, inService, userVars>>

\* idle->process is set exactly when the idle thread has taken the boot stack.
process_get_current == current = idle /\ home[idle] = Boot

(* syscall_entry: r15 and r14 carry the user's stack and page table. *)
syscall_entry ==
    /\ flow = Boot /\ At("user")
    /\ \E nr \in {"write", "exit", "yield", "getpid", "wait", "unknown"},
          a \in Buffers, n \in Counts :
         call' = [nr |-> nr, a |-> IF nr \in {"write", "wait"} THEN a ELSE 0,
                  n |-> IF nr = "write" THEN n ELSE 0]
    /\ own' = Loaded
    /\ pushed' = Pushed(Loaded, syscall_pushes)
    /\ reg' = [Loaded EXCEPT !["r15"] = Unknown, !["r14"] = Unknown]
    /\ stk' = [stk EXCEPT ![Boot] = <<Entry, User>>]
    /\ UNCHANGED <<h, state, current, ctx, flow, all_threads_lock, inService,
                   home, kernel_buf, touched, printed>>

----------------------------------------------------------------------------
Serving(nr) == At("sys") /\ call.nr = nr

\* The handler is compiled code, and puts its result into rax.
Result(value) ==
    reg' = [r \in GPR |-> IF r = "rax" THEN value
                          ELSE IF r \in CalleeSaved THEN reg[r] ELSE Unknown]

Returns(value) ==
    /\ Result(value) /\ Goto("sysret")
    /\ UNCHANGED <<h, state, current, ctx, flow, all_threads_lock, inService,
                   home, pushed, call, own>>

\* The string that a buffer holds: up to its first zero.
String(buf) ==
    LET before == {i \in Index : \A j \in 0..i : buf[j] # 0}
    IN  [i \in 1..Cardinality(before) |-> buf[i - 1]]

Clamped(count) == IF count > SYS_WRITE_BUF_SIZE - 1 THEN SYS_WRITE_BUF_SIZE - 1 ELSE count

Copied(a, n) == [i \in Index |-> IF i < n THEN UserMemory[(a + i) % WORD] ELSE kernel_buf[i]]
\* Mutant: the buffer is not terminated.
Terminated_not(buf, n) == buf
Terminated(buf, n) == [buf EXCEPT ![n] = 0]

(* sys_write.  The klog_debug after it, in syscall_handler, is called with  *)
(* the result in rax and leaves any value there.                           *)
sys_write ==
    LET n == Clamped(call.n)
        copy == call.a # 0 /\ call.n # 0 /\ copy_from_user(call.a, n) = 0
        asked == [i \in Index |-> IF i < n THEN UserMemory[(call.a + i) % WORD] ELSE 0]
    IN
    /\ Serving("write")
    /\ IF copy
       THEN /\ touched' = Bytes(call.a, n)
            /\ kernel_buf' = Terminated(Copied(call.a, n), n)
            /\ printed' = [want |-> String(asked), got |-> String(kernel_buf')]
       ELSE UNCHANGED <<touched, kernel_buf, printed>>
    /\ Returns(Unknown)

sys_getpid ==
    /\ Serving("getpid")
    /\ Returns(IF process_get_current THEN TestPid ELSE "-1")
    /\ UNCHANGED <<kernel_buf, touched, printed>>

\* process_wait: the test process has no children, and does not block.
sys_wait ==
    /\ Serving("wait")
    /\ Returns(IF call.a # 0 /\ probe_user_read(call.a, 4) # 0 THEN "14" ELSE "-1")
    /\ UNCHANGED <<kernel_buf, touched, printed>>

unknown_syscall ==
    /\ Serving("unknown")
    /\ Returns("-38")
    /\ UNCHANGED <<kernel_buf, touched, printed>>

\* thread_yield returns at once without a current thread.
sys_yield ==
    /\ Serving("yield")
    /\ Result("0")
    /\ IF current = NULL
       THEN Goto("sysret") /\ UNCHANGED <<h, state>>
       ELSE scheduler_add_thread(current) /\ Goto("pick")
    /\ UNCHANGED <<current, ctx, flow, all_threads_lock, inService, home, pushed, call,
                   kernel_buf, own, touched, printed>>

\* The test process has no parent: either way the machine is shut down.
sys_exit ==
    /\ Serving("exit")
    /\ Goto("off")
    /\ UNCHANGED <<h, state, current, ctx, flow, all_threads_lock, inService,
                   home, userVars>>

(* The end of syscall_entry: rcx and r11 hold what sysretq needs. *)
sysretq ==
    /\ At("sysret")
    /\ stk' = [stk EXCEPT ![Boot] = <<User>>]
    /\ reg' = Popped([reg EXCEPT !["rcx"] = Unknown, !["r11"] = Unknown], syscall_pops, pushed)
    /\ own' = reg' /\ pushed' = << >> /\ call' = NoCall
    /\ touched' = {} /\ printed' = Silent
    /\ UNCHANGED <<h, state, current, ctx, flow, all_threads_lock, inService,
                   home, kernel_buf>>

----------------------------------------------------------------------------
\* The timer returns to the program through timer_isr; kernel code that it
\* interrupts is the idle loop, which uses no registers.
IretUser ==
    /\ Eoi
    /\ reg' = IF flow = Boot /\ stk'[Boot] = <<User>> THEN timer_isr(reg) ELSE reg
    /\ UNCHANGED <<pushed, call, kernel_buf, own, touched, printed>>

KernelStep ==
    \/ CreateLock /\ UNCHANGED userVars
    \/ CreateUnlock /\ UNCHANGED userVars
    \/ AddCreated /\ UNCHANGED userVars
    \/ ExitLock /\ UNCHANGED userVars
    \/ ExitUnlock /\ UNCHANGED userVars
    \/ Pick /\ UNCHANGED userVars
    \/ Requeue /\ UNCHANGED userVars
    \/ SetCurrent /\ UNCHANGED userVars
    \/ context_switch /\ UNCHANGED userVars
    \/ IretUser
    \/ sys_write \/ sys_getpid \/ sys_wait \/ unknown_syscall \/ sys_yield \/ sys_exit
    \/ sysretq

ThreadExits == thread_exit /\ UNCHANGED userVars

SysNext ==
    \/ KernelStep
    \/ ThreadExits
    \/ scheduler_start /\ UNCHANGED userVars
    \/ thread_create /\ UNCHANGED userVars
    \/ thread_yield /\ UNCHANGED userVars
    \/ Tick /\ UNCHANGED userVars
    \/ enter_user_mode \/ enter_syscall_test_mode
    \/ syscall_entry

\* The CPU executes what it has begun, and thread functions return after
\* finitely many calls, as those of the tree do.
SysSpec ==
    SysInit /\ [][SysNext]_sysVars /\ WF_sysVars(KernelStep) /\ SF_sysVars(ThreadExits)

----------------------------------------------------------------------------
(***************************************************************************)
(* The kernel reads what a call names only below USER_SPACE_END and not     *)
(* below USER_CODE_BASE, whatever address and count the program passes, a   *)
(* range that wraps around or ends at the limit included (probe_user_read). *)
(***************************************************************************)
OnlyUserMemory == touched \subseteq USER_CODE_BASE..(USER_SPACE_END - 1)

(***************************************************************************)
(* What sys_write prints are the bytes of this call, up to the first zero   *)
(* or the size of the buffer, and nothing that an earlier and longer write  *)
(* has left in the buffer.                                                  *)
(***************************************************************************)
WritePrinted == printed.got = printed.want

(***************************************************************************)
(* A call returns with the callee-saved registers that the program made it  *)
(* with, although syscall_entry uses two of them and, in sys_yield, the     *)
(* scheduler may run other threads before it returns.                       *)
(***************************************************************************)
CallPreserves ==
    [][At("sysret") /\ stk'[Boot] = <<User>> =>
         \A r \in CalleeSaved : reg'[r] = own[r]]_sysVars

(***************************************************************************)
(* The syscall test program is resumed or has shut the machine down: each   *)
(* of its calls returns, and a tick that lets other threads run comes back  *)
(* to it, although adding a thread pushes the others out of the run queue.  *)
(***************************************************************************)
UserResumes ==
    home[idle] = Boot ~> flow = Boot /\ (At("user") \/ At("off"))

(***************************************************************************)
(* "Save all general-purpose registers (...) (reverse restore)"             *)
(* (arch/x86_64/isr.S:94): between two of its own steps the program finds   *)
(* its registers as it left them.                                           *)
(***************************************************************************)
InterruptTransparent == flow = Boot /\ At("user") => reg = own
=============================================================================
