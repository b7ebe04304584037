----------------------------- MODULE Scheduler -----------------------------
(***************************************************************************)
(* Threads and the scheduler on one CPU: thread.c, scheduler.c and the     *)
(* timer interrupt that calls scheduler_tick.  A flow is a stack that      *)
(* executes code: a thread's own, or the one the kernel booted on.  Its    *)
(* activation records are stk[f], the handler's on top of the interrupted  *)
(* one.  ctx[t] names the flow saved in t's context.  context_switch is    *)
(* taken at its word (context.S:38, 80: save the running flow in prev,     *)
(* resume the flow of next); module Context is about its instructions.     *)
(***************************************************************************)
EXTENDS Integers, Sequences, FiniteSets, List

CONSTANTS
    Thread,
    idle       \* the idle thread of this CPU

NULL == "NULL"
Boot == "boot"
Flow == Thread \cup {Boot}
runqueue == "runqueue"
Node == Thread \cup {runqueue}

ASSUME SchedulerAssumption ==
    /\ idle \in Thread
    /\ NULL \notin Node /\ Boot \notin Thread /\ runqueue \notin Thread

ThreadState == {"none", "CREATED", "READY", "RUNNING", "TERMINATED"}
\* "user" to "off" are the steps of module Syscall.
Pc == {"body", "add", "created", "listed", "exit", "unlist", "pick", "requeue", "set",
       "switch", "eoi", "user", "sys", "sysret", "off"}
\* ret: where schedule() returns to, the thread, timer_isr or syscall_entry.
Frame == [pc : Pc, prev : Thread \cup {NULL}, next : Thread \cup {NULL},
          ret : {"body", "eoi", "sysret"}]
Activation(p, prev, next, ret) == [pc |-> p, prev |-> prev, next |-> next, ret |-> ret]
Body == Activation("body", NULL, NULL, "body")

VARIABLES
    h,                   \* run_list links of the run queue
    state,               \* thread_t.state
    current,             \* per-CPU current_thread
    ctx,                 \* the flow saved in each thread's context
    flow,                \* the flow that executes
    stk,                 \* activation records of every flow
    all_threads_lock,    \* the flow that holds it, or NULL
    inService,           \* the local APIC awaits the EOI of a timer interrupt
    home                 \* history: the stack that each thread executes on

vars == <<h, state, current, ctx, flow, stk, all_threads_lock, inService, home>>

\* scheduler_init has run, on the boot stack; no thread is current.
Init ==
    /\ h = [n \in Node |-> Self(n)]
    /\ state = [t \in Thread |-> IF t = idle THEN "CREATED" ELSE "none"]
    /\ current = NULL
    /\ ctx = [t \in Thread |-> t]
    /\ flow = Boot
    /\ stk = [f \in Flow |-> <<Body>>]
    /\ all_threads_lock = NULL
    /\ inService = FALSE
    /\ home = [t \in Thread |-> t]

----------------------------------------------------------------------------
top == Head(stk[flow])
At(p) == top.pc = p
SetTop(frame) == stk' = [stk EXCEPT ![flow] = <<frame>> \o Tail(@)]
Goto(p) == SetTop(Activation(p, top.prev, top.next, top.ret))

\* Interrupts are off in the handler and, on the boot stack, in the kernel:
\* it creates threads before it enables them, and system calls mask them.
InterruptsOn == Len(stk[flow]) = 1 /\ (At("body") \/ At("user") \/ flow # Boot)

Ready(t) == state' = [state EXCEPT ![t] = "READY"]

\* The list operation has its arguments the other way round: the queue's
\* head is inserted before the thread's node.
scheduler_add_thread(t) ==
    /\ Ready(t)
    /\ h' = list_push_back(h, t, runqueue)

----------------------------------------------------------------------------
(* thread_create, and the scheduler_add_thread that follows it.            *)

thread_create ==
    /\ At("body") /\ flow # idle
    /\ \E t \in Thread :
         /\ state[t] = "none"
         /\ state' = [state EXCEPT ![t] = "CREATED"]
         /\ SetTop(Activation("created", NULL, t, "body"))
    /\ UNCHANGED <<h, current, ctx, flow, all_threads_lock, inService, home>>

\* spin_lock(&all_threads_lock): spins while another flow holds it.
CreateLock ==
    /\ At("created") /\ all_threads_lock = NULL
    /\ all_threads_lock' = flow
    /\ Goto("listed")
    /\ UNCHANGED <<h, state, current, ctx, flow, inService, home>>

CreateUnlock ==
    /\ At("listed")
    /\ all_threads_lock' = NULL
    /\ Goto("add")
    /\ UNCHANGED <<h, state, current, ctx, flow, inService, home>>

AddCreated ==
    /\ At("add")
    /\ scheduler_add_thread(top.next)
    /\ SetTop(Body)
    /\ UNCHANGED <<current, ctx, flow, all_threads_lock, inService, home>>

----------------------------------------------------------------------------
(* thread_yield and thread_exit.                                           *)

thread_yield ==
    /\ At("body") /\ current # NULL /\ flow # idle
    /\ scheduler_add_thread(current)
    /\ Goto("pick")
    /\ UNCHANGED <<current, ctx, flow, all_threads_lock, inService, home>>

thread_exit ==
    /\ At("body") /\ current # NULL /\ flow # idle
    /\ state' = [state EXCEPT ![current] = "TERMINATED"]
    /\ Goto("exit")
    /\ UNCHANGED <<h, current, ctx, flow, all_threads_lock, inService, home>>

ExitLock ==
    /\ At("exit") /\ all_threads_lock = NULL
    /\ all_threads_lock' = flow
    /\ Goto("unlist")
    /\ UNCHANGED <<h, state, current, ctx, flow, inService, home>>

\* Mutant: schedule() is called with the lock held.
ExitUnlock_after ==
    /\ At("unlist")
    /\ Goto("pick")
    /\ UNCHANGED <<h, state, current, ctx, flow, all_threads_lock, inService, home>>
ExitUnlock ==
    /\ At("unlist")
    /\ all_threads_lock' = NULL
    /\ Goto("pick")
    /\ UNCHANGED <<h, state, current, ctx, flow, inService, home>>

----------------------------------------------------------------------------
(* schedule(), from its call to the context switch.                        *)

\* Mutant: with an empty queue the current thread is kept.
Fallback_current == IF current = NULL THEN idle ELSE current
Fallback == idle

\* pick_next_thread, or the idle thread; nothing to do for the same thread.
Pick ==
    /\ At("pick")
    /\ LET empty == list_empty(h, runqueue)
           next == IF empty THEN Fallback ELSE front(h, runqueue)
       IN  /\ h' = IF empty THEN h ELSE list_pop_front(h, runqueue)
           /\ IF next = current
                THEN Goto(top.ret)
                ELSE SetTop(Activation("requeue", current, next, top.ret))
    /\ UNCHANGED <<state, current, ctx, flow, all_threads_lock, inService, home>>

Runnable(t) == t # NULL /\ state[t] # "TERMINATED"

\* Put the previous thread back.
Requeue ==
    /\ At("requeue")
    /\ IF Runnable(top.prev)
         THEN scheduler_add_thread(top.prev)
         ELSE UNCHANGED <<h, state>>
    /\ Goto("set")
    /\ UNCHANGED <<current, ctx, flow, all_threads_lock, inService, home>>

SetCurrent ==
    /\ At("set")
    /\ state' = [state EXCEPT ![top.next] = "RUNNING"]
    /\ current' = top.next
    /\ Goto("switch")
    /\ UNCHANGED <<h, ctx, flow, all_threads_lock, inService, home>>

\* Mutant: the running flow is saved in the thread that comes next.
Saved_next == [ctx EXCEPT ![top.next] = flow]
\* A NULL prev has the boot stack's registers saved at a small address,
\* where nothing finds them again.
Saved == IF top.prev = NULL THEN ctx ELSE [ctx EXCEPT ![top.prev] = flow]

context_switch ==
    /\ At("switch")
    /\ ctx' = Saved
    /\ flow' = ctx[top.next]
    /\ SetTop(Activation(top.ret, NULL, NULL, top.ret))
    /\ UNCHANGED <<h, state, current, all_threads_lock, inService, home>>

\* The boot stack is left for the idle thread.
scheduler_start ==
    /\ flow = Boot /\ At("body") /\ current = NULL
    /\ current' = idle
    /\ state' = [state EXCEPT ![idle] = "RUNNING"]
    /\ flow' = ctx[idle]
    /\ UNCHANGED <<h, ctx, stk, all_threads_lock, inService, home>>

----------------------------------------------------------------------------
(* The timer interrupt.  Only one tick in SCHEDULER_TICK_INTERVAL calls    *)
(* schedule(); which one is left open.                                     *)

Tick ==
    /\ InterruptsOn /\ ~inService
    /\ inService' = TRUE
    /\ \E p \in {"pick", "eoi"} :
         stk' = [stk EXCEPT ![flow] = <<Activation(p, NULL, NULL, "eoi")>> \o @]
    /\ UNCHANGED <<h, state, current, ctx, flow, all_threads_lock, home>>

\* timer_isr sends the EOI when its handler has returned, and iretq.
Eoi ==
    /\ At("eoi")
    /\ inService' = FALSE
    /\ stk' = [stk EXCEPT ![flow] = Tail(@)]
    /\ UNCHANGED <<h, state, current, ctx, flow, all_threads_lock, home>>

----------------------------------------------------------------------------
\* Types.
TypeOK ==
    /\ h \in [Node -> [next : Node, prev : Node]]
    /\ state \in [Thread -> ThreadState]
    /\ current \in Thread \cup {NULL}
    /\ ctx \in [Thread -> Flow] /\ flow \in Flow
    /\ stk \in [Flow -> UNION {[1..n -> Frame] : n \in 1..2}]
    /\ all_threads_lock \in Flow \cup {NULL}
    /\ inService \in BOOLEAN
    /\ home \in [Thread -> Flow]

\* The stack a thread executes on; nothing is current on the boot stack.
Home(t) == IF t = NULL THEN Boot ELSE home[t]

\* The thread that executes: between thread_set_current and context_switch
\* still the previous one.
Executing == IF At("switch") THEN top.prev ELSE current

(***************************************************************************)
(* The executing stack is that of the executing thread, and the context of  *)
(* every other thread holds its own stack, though schedule() sets current   *)
(* before it switches, ticks call it too, and the idle thread may have been *)
(* made current on the boot stack: no two threads ever run on one stack.    *)
(***************************************************************************)
OwnStack ==
    /\ flow = Home(Executing)
    /\ \A t \in Thread \ {Executing} : ctx[t] = home[t]
    /\ \A t, u \in Thread : home[t] = home[u] => t = u

\* A thread that has called thread_exit is never queued or picked again.
TerminatedStaysOff ==
    \A t \in Thread : state[t] = "TERMINATED" =>
        /\ front(h, runqueue) # t
        /\ ~(top.pc \in {"requeue", "set"} /\ top.next = t)
        /\ ~(flow = t /\ At("body"))

\* The plain lock is never left behind with a flow that cannot run again.
LockReleased ==
    all_threads_lock \in Thread /\ all_threads_lock # flow =>
        state[all_threads_lock] # "TERMINATED"
============================================================================
