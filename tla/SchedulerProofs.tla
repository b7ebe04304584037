-------------------------- MODULE SchedulerProofs --------------------------
(***************************************************************************)
(* The scheduler for any number of threads, ticks and system calls: no two *)
(* threads run on one stack, the plain lock is not left behind, and a      *)
(* thread that has exited is never queued, picked or run again; and, for   *)
(* any address space, that a range that uaccess.c lets through, and what a *)
(* system call reads, lies in user memory.                                 *)
(***************************************************************************)
EXTENDS Syscall, TLAPS

----------------------------------------------------------------------------
(* The range check of uaccess.c.                                           *)

(* A sum of two words is reduced by at most one WORD.                      *)
LEMMA Reduced ==
    ASSUME NEW x \in Nat, x < 2 * WORD
    PROVE  x % WORD = IF x < WORD THEN x ELSE x - WORD
BY UserAccessAssumption

(* What probe_user_read lets through lies in user space to its last byte,  *)
(* for every address and length, although the sum of the two may wrap      *)
(* (uaccess.c:55-80).                                                      *)
THEOREM ProbeSound ==
    ASSUME NEW a \in Word, NEW n \in Word, probe_user_read(a, n) = 0
    PROVE  Bytes(a, n) \subseteq USER_CODE_BASE..(USER_SPACE_END - 1)
<1>1. /\ End(a, n) >= a /\ End(a, n) < USER_SPACE_END
      /\ a >= USER_CODE_BASE
  BY UserAccessAssumption DEF probe_user_read, Wraps, Exceeds, is_user_pointer, EFAULT, End, Word
<1>2. a + n < WORD /\ a + n < USER_SPACE_END
  BY <1>1, Reduced, UserAccessAssumption DEF End, Word
<1>3. ASSUME NEW i \in 0..(n - 1)
      PROVE  (a + i) % WORD \in USER_CODE_BASE..(USER_SPACE_END - 1)
  BY <1>1, <1>2, Reduced, UserAccessAssumption DEF Word
<1> QED
  BY <1>3 DEF Bytes

----------------------------------------------------------------------------
\* The words of the call being served, and what it has read.
AccessInv ==
    /\ call.a \in Word /\ call.n \in Word
    /\ OnlyUserMemory

LEMMA AccessNext == AccessInv /\ [SysNext]_sysVars => AccessInv'
<1> SUFFICES ASSUME AccessInv, [SysNext]_sysVars PROVE AccessInv'
  OBVIOUS
<1> USE DEF AccessInv
<1>1. CASE syscall_entry
  BY <1>1, SyscallAssumption, UserAccessAssumption
     DEF syscall_entry, Word, OnlyUserMemory
<1>2. CASE sys_write
  <2> DEFINE n == Clamped(call.n)
  <2>1. n \in Word
    BY SyscallAssumption, UserAccessAssumption DEF Clamped, Word
  <2>2. call' = call
    BY <1>2 DEF sys_write, Returns
  <2>3. \/ touched' = touched
        \/ touched' = Bytes(call.a, n) /\ copy_from_user(call.a, n) = 0
    BY <1>2 DEF sys_write
  <2>4. copy_from_user(call.a, n) = 0 => probe_user_read(call.a, n) = 0
    BY DEF copy_from_user, EFAULT
  <2> HIDE DEF n
  <2> QED
    BY Zenon, <2>1, <2>2, <2>3, <2>4, ProbeSound DEF OnlyUserMemory
<1>3. CASE sysretq
  BY <1>3, UserAccessAssumption DEF sysretq, NoCall, Word, OnlyUserMemory
<1>4. CASE UNCHANGED <<call, touched>>
  BY <1>4 DEF OnlyUserMemory
<1> QED
  BY Zenon, <1>1, <1>2, <1>3, <1>4
     DEF SysNext, KernelStep, ThreadExits, IretUser, sysVars, userVars, sys_getpid, sys_wait,
         unknown_syscall, sys_yield, sys_exit, Returns, enter_user_mode, enter_syscall_test_mode

(* Whatever address and count a program passes, a call reads user memory   *)
(* only (syscall.c:106-149, uaccess.c:55-132).                             *)
THEOREM UserMemoryOnly == SysSpec => []OnlyUserMemory
<1>1. SysInit => AccessInv
  BY UserAccessAssumption DEF SysInit, AccessInv, NoCall, Word, OnlyUserMemory
<1>2. AccessInv => OnlyUserMemory
  BY DEF AccessInv
<1> QED
  BY <1>1, <1>2, AccessNext, PTL DEF SysSpec

----------------------------------------------------------------------------
(* The inductive invariant of the stacks.                                  *)

Plain == {x \in Frame :
            /\ x.ret = "body"
            /\ x.pc \in {"body", "created", "listed", "add", "exit", "unlist",
                         "pick", "requeue", "set", "switch"}}
Handler == {x \in Frame :
              x.ret = "eoi" /\ x.pc \in {"pick", "requeue", "set", "switch", "eoi"}}
Calling == {x \in Frame : x.ret = "sysret" /\ x.pc \in {"sys", "pick", "sysret", "off"}}
Booting == {x \in Frame :
              x.ret = "body" /\ x.pc \in {"body", "created", "listed", "add", "user"}}

\* The stack of a flow: threads are never interrupted, the idle thread only
\* in its loop, and the boot stack only in boot code or in the program.
Shape(f, s) ==
    \/ f \notin {idle, Boot} /\ Len(s) = 1 /\ s[1] \in Plain
    \/ f = idle /\ Len(s) = 1 /\ s[1] = Body
    \/ f = idle /\ Len(s) = 2 /\ s[1] \in Handler /\ s[2] = Body
    \/ f = Boot /\ Len(s) = 1 /\ s[1] \in Booting
    \/ f = Boot /\ Len(s) = 2 /\ s[1] \in Handler /\ s[2] \in Frame /\ s[2].pc \in {"body", "user"}
                /\ s[2].ret = "body"
    \/ f = Boot /\ Len(s) = 2 /\ s[1] \in Calling /\ s[2] = User

Types ==
    /\ h \in [Node -> [next : Node, prev : Node]]
    /\ current \in Thread \cup {NULL}
    /\ ctx \in [Thread -> Flow] /\ flow \in Flow
    /\ home \in [Thread -> Flow]
    /\ inService \in BOOLEAN
    /\ stk \in [Flow -> Seq(Frame)]
    /\ \A f \in Flow : Shape(f, stk[f])

\* Where a flow that does not execute will go on; the idle thread has not
\* run before a thread is current.
Suspended ==
    /\ \A f \in Flow \ {flow} : stk[f][1].pc \in {"body", "eoi", "sysret", "user"}
    /\ current = NULL => flow = Boot /\ stk[idle][1] = Body

\* Only the idle thread has ever taken the boot stack, and then the program
\* is at the bottom of it.
Homes ==
    /\ \A t \in Thread \ {idle} : home[t] = t
    /\ home[idle] \in {idle, Boot}
    /\ home[idle] = Boot => stk[Boot][Len(stk[Boot])].pc = "user"

\* What thread_create and schedule() have in their local variables.
Locals ==
    /\ top.pc \in {"created", "listed", "add", "requeue", "set", "switch"} => top.next \in Thread
    /\ top.pc \in {"requeue", "set"} => top.prev = current /\ top.next # current
    /\ At("switch") => current = top.next /\ top.prev # top.next

\* A thread runs between the tick that switched to it and the EOI of that
\* tick; sys_yield finds its own thread in the queue, or none.
Service ==
    /\ flow \notin {idle, Boot} => inService
    /\ top.ret = "eoi" => inService
    /\ top.ret = "sysret" /\ At("pick") =>
         current = idle /\ h[runqueue].next \in {runqueue, idle}

Locked == all_threads_lock # NULL => all_threads_lock = flow /\ top.pc \in {"listed", "unlist"}

StackInv == Types /\ Suspended /\ Homes /\ Locals /\ Service /\ Locked /\ OwnStack

----------------------------------------------------------------------------
(* Lemmas about stacks and the run queue.                                  *)

(* The first and the second record of a stack, and of what pushing and     *)
(* popping make of it.                                                     *)
LEMMA Popping ==
    ASSUME NEW s \in Seq(Frame), Len(s) >= 1
    PROVE  /\ Head(s) = s[1] /\ s[1] \in Frame
           /\ Tail(s) \in Seq(Frame) /\ Len(Tail(s)) = Len(s) - 1
OBVIOUS

LEMMA PoppingSecond ==
    ASSUME NEW s \in Seq(Frame), Len(s) >= 2
    PROVE  Tail(s)[1] = s[2] /\ s[2] \in Frame
OBVIOUS

LEMMA Pushing ==
    ASSUME NEW s \in Seq(Frame), NEW x \in Frame
    PROVE  /\ <<x>> \o s \in Seq(Frame) /\ Len(<<x>> \o s) = Len(s) + 1
           /\ (<<x>> \o s)[1] = x
           /\ Len(s) >= 1 => (<<x>> \o s)[2] = s[1]
OBVIOUS

(* Replacing the top record.                                               *)
LEMMA Replacing ==
    ASSUME NEW s \in Seq(Frame), Len(s) >= 1, NEW x \in Frame
    PROVE  /\ <<x>> \o Tail(s) \in Seq(Frame) /\ Len(<<x>> \o Tail(s)) = Len(s)
           /\ (<<x>> \o Tail(s))[1] = x
           /\ Len(s) >= 2 => (<<x>> \o Tail(s))[2] = s[2]
<1> DEFINE r == Tail(s)
<1>1. r \in Seq(Frame) /\ Len(r) = Len(s) - 1 /\ (Len(s) >= 2 => r[1] = s[2])
  BY Popping, PoppingSecond
<1> HIDE DEF r
<1>2. /\ <<x>> \o r \in Seq(Frame) /\ Len(<<x>> \o r) = Len(s)
      /\ (<<x>> \o r)[1] = x
      /\ Len(s) >= 2 => (<<x>> \o r)[2] = s[2]
  BY <1>1, Pushing
<1> QED
  BY <1>2 DEF r

(* A record that goes on elsewhere with what it had.                       *)
Moved(y, p) == Activation(p, y.prev, y.next, y.ret)

LEMMA MovedFrame ==
    ASSUME NEW y \in Frame, NEW p \in Pc
    PROVE  /\ Moved(y, p) \in Frame
           /\ Moved(y, p).pc = p /\ Moved(y, p).ret = y.ret
           /\ Moved(y, p).prev = y.prev /\ Moved(y, p).next = y.next
BY Zenon DEF Activation, Frame, Moved

(* The top of the executing stack is a record of one of the four kinds.    *)
LEMMA Top ==
    ASSUME Types
    PROVE  /\ stk[flow] \in Seq(Frame) /\ Len(stk[flow]) \in {1, 2}
           /\ top = stk[flow][1] /\ top \in Frame
           /\ flow \notin {idle, Boot} => top \in Plain
           /\ flow = idle => (top = Body /\ Len(stk[flow]) = 1) \/ top \in Handler
           /\ flow = Boot => top \in Booting \cup Handler \cup Calling
<1>1. stk[flow] \in Seq(Frame) /\ Shape(flow, stk[flow])
  BY DEF Types
<1>2. Len(stk[flow]) \in {1, 2}
  BY <1>1 DEF Shape
<1>3. top = stk[flow][1] /\ top \in Frame
  BY <1>1, <1>2, Popping DEF top
<1> QED
  BY <1>1, <1>2, <1>3, SchedulerAssumption DEF Shape

(* scheduler_add_thread keeps the links within the queue's nodes, and      *)
(* leaves the thread at the front or the queue empty (scheduler.c:194-214).*)
LEMMA AddLinks ==
    ASSUME NEW t \in Thread, scheduler_add_thread(t),
           h \in [Node -> [next : Node, prev : Node]]
    PROVE  /\ h' \in [Node -> [next : Node, prev : Node]]
           /\ h'[runqueue].next \in {runqueue, t}
BY SchedulerAssumption DEF scheduler_add_thread, list_push_back, Node

(* So does taking the first thread out.                                    *)
LEMMA PopLinks ==
    ASSUME h \in [Node -> [next : Node, prev : Node]], ~list_empty(h, runqueue)
    PROVE  /\ front(h, runqueue) \in Thread
           /\ list_pop_front(h, runqueue) \in [Node -> [next : Node, prev : Node]]
<1>1. front(h, runqueue) \in Thread
  BY DEF list_empty, front, Node
<1> DEFINE n == front(h, runqueue)
<1>2. n \in Node /\ h[n].prev \in Node /\ h[n].next \in Node
  BY <1>1 DEF Node
<1> QED
  BY <1>1, <1>2 DEF list_pop_front, list_remove, Self

----------------------------------------------------------------------------
(* Steps that replace the top record by one of the same kind.              *)

SameKind(x) ==
    \/ flow \notin {idle, Boot} /\ x \in Plain
    \/ flow # Boot /\ top \in Handler /\ x \in Handler
    \/ flow = Boot /\ top \in Booting /\ x \in Booting
    \/ flow = Boot /\ top \in Handler /\ x \in Handler
    \/ flow = Boot /\ top \in Calling /\ x \in Calling

(* Such a step of the executing flow keeps the shape of its stack and all  *)
(* of the others.                                                          *)
LEMMA TopStep ==
    ASSUME Types, Suspended, Homes, NEW x \in Frame, SameKind(x), SetTop(x),
           UNCHANGED <<ctx, flow, home>>, top.pc # "user", x.pc # "user",
           h' \in [Node -> [next : Node, prev : Node]],
           current' \in Thread \cup {current}, inService' \in BOOLEAN
    PROVE  Types' /\ Suspended' /\ Homes' /\ top' = x
<1> DEFINE s == stk[flow]
           r == <<x>> \o Tail(s)
<1>1. /\ s \in Seq(Frame) /\ Len(s) \in {1, 2} /\ top = s[1] /\ Shape(flow, s)
      /\ stk \in [Flow -> Seq(Frame)] /\ flow \in Flow
  BY Top DEF Types
<1>2. /\ r \in Seq(Frame) /\ Len(r) = Len(s) /\ r[1] = x
      /\ Len(s) = 2 => r[2] = s[2]
  BY <1>1, Replacing
<1>3. stk' = [stk EXCEPT ![flow] = r]
  BY DEF SetTop
<1> HIDE DEF r
<1>4. /\ stk' \in [Flow -> Seq(Frame)] /\ stk'[flow] = r
      /\ \A f \in Flow \ {flow} : stk'[f] = stk[f]
  BY <1>1, <1>2, <1>3, Zenon
<1>5. Shape(flow, r)
  BY <1>1, <1>2, SchedulerAssumption
     DEF SameKind, Shape, Plain, Handler, Booting, Calling, Body, Activation
<1>6. Types'
  <2>1. \A f \in Flow : Shape(f, stk'[f])
    BY Zenon, <1>4, <1>5 DEF Types
  <2> QED
    BY Zenon, <1>1, <1>4, <2>1 DEF Types, Shape
<1>7. top' = x
  BY <1>2, <1>4, Popping, <1>1 DEF top
<1>8. Suspended'
  BY <1>4, SchedulerAssumption, Zenon DEF Suspended, Flow, Node
<1>9. Homes'
  <2>1. CASE flow = Boot
    <3>1. r[Len(r)].pc = "user" <=> s[Len(s)].pc = "user"
      BY Zenon, <1>1, <1>2
    <3> QED
      BY <2>1, <3>1, <1>4 DEF Homes
  <2>2. CASE flow # Boot
    BY <2>2, <1>4 DEF Homes, Flow
  <2> QED
    BY <2>1, <2>2
<1> QED
  BY <1>6, <1>7, <1>8, <1>9, Zenon

(* In boot code on the boot stack no thread is current, for the idle       *)
(* thread only takes it together with the program.                         *)
LEMMA BootCode ==
    ASSUME StackInv, flow = Boot, At("body")
    PROVE  current = NULL /\ home[idle] = idle /\ top \in Booting
<1>1. top \in Booting /\ Len(stk[Boot]) = 1 /\ top = stk[Boot][1]
  BY Top, SchedulerAssumption, Zenon
     DEF StackInv, Types, Shape, At, Handler, Calling, Booting
<1>2. home[idle] = idle
  BY <1>1, Zenon DEF StackInv, Homes, At
<1>3. current = NULL
  BY <1>1, <1>2, SchedulerAssumption
     DEF StackInv, OwnStack, Executing, At, Home, Homes, Types, Flow
<1> QED
  BY <1>1, <1>2, <1>3, Zenon

(* While the executing thread is the same, so is what OwnStack says.       *)
LEMMA KeepOwn ==
    ASSUME OwnStack, UNCHANGED <<ctx, flow, home>>, Executing' = Executing
    PROVE  OwnStack'
BY DEF OwnStack, Home

(* The top record goes on at p.                                            *)
LEMMA GotoStep ==
    ASSUME Types, Suspended, Homes, NEW p \in Pc, Goto(p),
           UNCHANGED <<ctx, flow, home>>, top.pc # "user", p # "user",
           h' \in [Node -> [next : Node, prev : Node]],
           current' \in Thread \cup {current}, inService' \in BOOLEAN,
           SameKind(Moved(top, p))
    PROVE  /\ Types' /\ Suspended' /\ Homes'
           /\ top'.pc = p /\ top'.ret = top.ret
           /\ top'.prev = top.prev /\ top'.next = top.next
<1>1. top \in Frame
  BY Top
<1>2. /\ Moved(top, p) \in Frame
      /\ Moved(top, p).pc = p /\ Moved(top, p).ret = top.ret
      /\ Moved(top, p).prev = top.prev /\ Moved(top, p).next = top.next
  BY <1>1, MovedFrame, Zenon
<1>3. Types' /\ Suspended' /\ Homes' /\ top' = Moved(top, p)
  BY <1>2, TopStep DEF Goto, Moved
<1> QED
  BY <1>2, <1>3, Zenon

(* thread_create and the scheduler_add_thread after it (thread.c:74-166).  *)
LEMMA CreateStep ==
    ASSUME StackInv,
           thread_create \/ CreateLock \/ CreateUnlock \/ AddCreated
    PROVE  StackInv'
<1> USE DEF StackInv
<1>1. /\ top \in Frame
      /\ flow \notin {idle, Boot} => top \in Plain
      /\ flow = idle => top = Body \/ top \in Handler
      /\ flow = Boot => top \in Booting \cup Handler \cup Calling
  BY Top, Zenon
<1>2. CASE thread_create
  <2>1. PICK t \in Thread : SetTop(Activation("created", NULL, t, "body"))
    BY <1>2 DEF thread_create
  <2> DEFINE x == Activation("created", NULL, t, "body")
  <2>2. x \in Frame /\ x.pc = "created" /\ x.ret = "body" /\ x.next \in Thread
    BY DEF Pc, Frame, Activation
  <2>3. SameKind(x) /\ top.pc = "body"
    BY Zenon, <2>2, <1>1, <1>2, BootCode, SchedulerAssumption
       DEF thread_create, At, SameKind, Plain, Booting
  <2> HIDE DEF x
  <2>4. Types' /\ Suspended' /\ Homes' /\ top' = x
    BY Zenon, <2>1, <2>2, <2>3, <1>2, TopStep DEF thread_create, Types, x
  <2>5. Locals' /\ Service' /\ Locked' /\ Executing' = Executing
    BY <2>2, <2>3, <2>4, <1>2
       DEF thread_create, At, Locals, Service, Locked, Executing
  <2> QED
    BY <2>4, <2>5, <1>2, KeepOwn, Zenon DEF thread_create
<1>3. CASE CreateLock \/ CreateUnlock
  <2>1. PICK p \in {"listed", "add"} :
          /\ Goto(p) /\ top.pc \in {"created", "listed"}
          /\ p = "listed" => all_threads_lock' = flow
          /\ p = "add" => all_threads_lock' = NULL
          /\ UNCHANGED <<h, current, ctx, flow, inService, home>>
    BY <1>3 DEF CreateLock, CreateUnlock, At
  <2>2. p \in Pc /\ Moved(top, p).pc = p /\ Moved(top, p).ret = top.ret /\ Moved(top, p) \in Frame
    <3>1. p \in Pc
      BY <2>1, Zenon DEF Pc
    <3> QED
      BY <3>1, <1>1, MovedFrame
  <2>3. SameKind(Moved(top, p)) /\ top.ret = "body"
    BY <2>1, <2>2, <1>1 DEF SameKind, Plain, Booting, Handler, Calling, Body, Activation
  <2>4. Types' /\ Suspended' /\ Homes' /\ top'.pc = p /\ top'.ret = "body" /\ top'.next = top.next
    BY Zenon, <2>1, <2>2, <2>3, GotoStep DEF Types
  <2>5. Locals' /\ Service' /\ Locked' /\ Executing' = Executing
    BY <2>1, <2>3, <2>4, Zenon
       DEF At, Locals, Service, Locked, Executing
  <2> QED
    BY Zenon, <2>1, <2>4, <2>5, KeepOwn
<1>4. CASE AddCreated
  <2>1. SetTop(Body) /\ top.pc = "add" /\ UNCHANGED <<current, ctx, flow, all_threads_lock, inService, home>>
    BY <1>4 DEF AddCreated, At
  <2>2. Body \in Frame /\ Body.pc = "body" /\ Body.ret = "body" /\ SameKind(Body)
    <3>1. Body \in Frame /\ Body.pc = "body" /\ Body.ret = "body"
      BY DEF Body, Activation, Frame, Pc
    <3>2. top.pc = "add" => top \notin Handler \cup Calling /\ top # Body
      BY Zenon, <3>1 DEF Handler, Calling
    <3>3. Body \in Plain /\ Body \in Booting
      BY Zenon, <3>1 DEF Plain, Booting
    <3> QED
      BY Zenon, <3>1, <3>2, <3>3, <2>1, <1>1 DEF SameKind
  <2>3. h' \in [Node -> [next : Node, prev : Node]]
    BY Zenon, <1>4, AddLinks DEF AddCreated, At, Locals, Types
  <2>4. Types' /\ Suspended' /\ Homes' /\ top' = Body
    BY <2>1, <2>2, <2>3, TopStep, Zenon DEF Types
  <2>5. Locals' /\ Service' /\ Locked' /\ Executing' = Executing
    BY <2>1, <2>2, <2>4, Zenon DEF At, Locals, Service, Locked, Executing
  <2> QED
    BY <2>1, <2>4, <2>5, KeepOwn, Zenon
<1> QED
  BY <1>2, <1>3, <1>4, Zenon

(* thread_yield and thread_exit (thread.c:174-225).                        *)
LEMMA ExitStep ==
    ASSUME StackInv, thread_yield \/ thread_exit \/ ExitLock \/ ExitUnlock
    PROVE  StackInv'
<1> USE DEF StackInv
<1>1. PICK p \in {"pick", "exit", "unlist"} :
        /\ Goto(p) /\ top.pc \in {"body", "exit", "unlist"}
        /\ p = "unlist" => all_threads_lock' = flow
        /\ p # "unlist" => all_threads_lock' \in {all_threads_lock, NULL}
        /\ top.pc = "unlist" => all_threads_lock' = NULL
        /\ UNCHANGED <<current, ctx, flow, inService, home>>
  BY Zenon DEF thread_yield, thread_exit, ExitLock, ExitUnlock, At
<1>2. top \in Plain /\ flow \notin {idle, Boot} /\ top \in Frame
  BY <1>1, Top, BootCode
     DEF thread_yield, thread_exit, ExitLock, ExitUnlock, At, Handler, Calling, Booting,
         Body, Activation
<1>3. h' \in [Node -> [next : Node, prev : Node]]
  BY Zenon, AddLinks DEF thread_yield, thread_exit, ExitLock, ExitUnlock, Types
<1>4. p \in Pc /\ Moved(top, p).pc = p /\ Moved(top, p).ret = top.ret /\ Moved(top, p) \in Frame
  <2>1. p \in Pc
    BY <1>1, Zenon DEF Pc
  <2> QED
    BY <2>1, <1>2, MovedFrame, Zenon
<1>5. SameKind(Moved(top, p)) /\ top.ret = "body"
  BY <1>1, <1>2, <1>4 DEF SameKind, Plain
<1>6. Types' /\ Suspended' /\ Homes' /\ top'.pc = p /\ top'.ret = "body"
  BY Zenon, <1>1, <1>3, <1>4, <1>5, GotoStep DEF Types
<1>7. Locals' /\ Service' /\ Locked' /\ Executing' = Executing
  BY <1>1, <1>5, <1>6, Zenon DEF At, Locals, Service, Locked, Executing
<1> QED
  BY <1>1, <1>6, <1>7, KeepOwn, Zenon

(* schedule() up to the switch (scheduler.c:125-164): what it picks and    *)
(* keeps is what current and the stack say.                                *)
LEMMA ScheduleStep ==
    ASSUME StackInv, Pick \/ Requeue \/ SetCurrent
    PROVE  StackInv'
<1> USE DEF StackInv
<1>1. /\ top \in Frame /\ top.ret \in {"body", "eoi", "sysret"}
      /\ flow \notin {idle, Boot} => top \in Plain
      /\ flow = idle => top = Body \/ top \in Handler
      /\ flow = Boot => top \in Booting \cup Handler \cup Calling
  BY Top, Zenon DEF Frame
<1>2. CASE Pick
  <2> DEFINE empty == list_empty(h, runqueue)
             next == IF empty THEN Fallback ELSE front(h, runqueue)
  <2>1. /\ next \in Thread
        /\ h' \in [Node -> [next : Node, prev : Node]]
    BY <1>2, PopLinks, SchedulerAssumption, Zenon DEF Pick, Types, Fallback
  <2>2. top.ret = "sysret" => next = current
    BY <1>2, Zenon DEF Pick, Service, Fallback, list_empty, front
  <2>3. CASE next = current
    <3>1. Goto(top.ret) /\ UNCHANGED <<current, ctx, flow, all_threads_lock, inService, home>>
      BY <2>3, <1>2, Zenon DEF Pick
    <3>2. /\ top.ret \in Pc /\ Moved(top, top.ret).pc = top.ret /\ Moved(top, top.ret).ret = top.ret
          /\ Moved(top, top.ret) \in Frame
      <4>1. top.ret \in Pc
        BY <1>1, Zenon DEF Pc
      <4> QED
        BY <4>1, <1>1, MovedFrame, Zenon
    <3>3. SameKind(Moved(top, top.ret)) /\ top.ret # "user" /\ top.pc = "pick"
      <4>1. top.pc = "pick"
        BY Zenon, <1>2 DEF Pick, At
      <4> HIDE DEF StackInv
      <4>2. top.ret # "user"
        BY <1>1
      <4> QED
        BY <1>1, <3>2, <4>1, <4>2
           DEF SameKind, Plain, Handler, Calling, Booting, Body, Activation
    <3>4. Types' /\ Suspended' /\ Homes' /\ top'.pc = top.ret /\ top'.ret = top.ret
      BY Zenon, <2>1, <3>1, <3>2, <3>3, GotoStep DEF Types
    <3>5. Locals' /\ Service' /\ Locked' /\ Executing' = Executing
      BY Zenon, <1>1, <3>1, <3>3, <3>4 DEF At, Locals, Service, Locked, Executing
    <3> QED
      BY <3>1, <3>4, <3>5, KeepOwn, Zenon
  <2>4. CASE next # current
    <3> DEFINE x == Activation("requeue", current, next, top.ret)
    <3>1. SetTop(x) /\ top.pc = "pick" /\ UNCHANGED <<current, ctx, flow, all_threads_lock, inService, home>>
      BY <2>4, <1>2, Zenon DEF Pick, At
    <3> HIDE DEF next
    <3>2. x \in Frame /\ x.pc = "requeue" /\ x.ret = top.ret /\ x.prev = current /\ x.next = next
      BY <2>1, <1>1, Zenon DEF Frame, Pc, Activation, Types
    <3>3. SameKind(x)
      BY <2>2, <2>4, <1>1, <3>1, <3>2
         DEF SameKind, Plain, Handler, Calling, Booting, Body, Activation
    <3> HIDE DEF x
    <3>4. Types' /\ Suspended' /\ Homes' /\ top' = x
      BY Zenon, <2>1, <3>1, <3>2, <3>3, TopStep DEF Types
    <3>5. Locals' /\ Service' /\ Locked' /\ Executing' = Executing
      BY Zenon, <2>1, <2>4, <1>1, <3>1, <3>2, <3>4 DEF At, Locals, Service, Locked, Executing
    <3> QED
      BY <3>1, <3>4, <3>5, KeepOwn, Zenon
  <2> QED
    BY <2>3, <2>4, Zenon
<1>3. CASE Requeue \/ SetCurrent
  <2>1. PICK p \in {"set", "switch"} :
          /\ Goto(p) /\ top.pc \in {"requeue", "set"}
          /\ p = "set" => current' = current /\ top.pc = "requeue"
          /\ p = "switch" => current' = top.next /\ top.pc = "set"
          /\ UNCHANGED <<ctx, flow, all_threads_lock, inService, home>>
    BY <1>3, Zenon DEF Requeue, SetCurrent, At
  <2>2. p \in Pc /\ Moved(top, p).pc = p /\ Moved(top, p).ret = top.ret /\ Moved(top, p) \in Frame
    <3>1. p \in Pc
      BY <2>1, Zenon DEF Pc
    <3> QED
      BY <3>1, <1>1, MovedFrame
  <2>3. SameKind(Moved(top, p)) /\ top.ret # "sysret"
    BY <1>1, <2>1, <2>2 DEF SameKind, Plain, Handler, Calling, Booting, Body, Activation
  <2>4. h' \in [Node -> [next : Node, prev : Node]]
    BY Zenon, <1>3, <1>1, AddLinks DEF Requeue, SetCurrent, Types, Runnable, Frame
  <2>5. current' \in Thread \cup {current}
    BY Zenon, <2>1, <1>1 DEF Locals
  <2>6. /\ Types' /\ Suspended' /\ Homes'
        /\ top'.pc = p /\ top'.ret = top.ret /\ top'.prev = top.prev /\ top'.next = top.next
    BY Zenon, <2>1, <2>2, <2>3, <2>4, <2>5, GotoStep DEF Types
  <2>7. Locals' /\ Service' /\ Locked' /\ Executing' = Executing
    BY Zenon, <2>1, <2>3, <2>6 DEF At, Locals, Service, Locked, Executing
  <2> QED
    BY Zenon, <2>1, <2>6, <2>7, KeepOwn
<1> QED
  BY <1>2, <1>3, Zenon

(* context_switch (scheduler.c:166-168): the flow that goes on is the one  *)
(* of next, and it was suspended.                                          *)
LEMMA SwitchStep ==
    ASSUME StackInv, context_switch
    PROVE  StackInv' /\ top'.pc \in {"body", "eoi", "sysret", "user"}
<1> USE DEF StackInv
<1> DEFINE s == stk[flow]
           x == Activation(top.ret, NULL, NULL, top.ret)
           r == <<x>> \o Tail(s)
           g == ctx[top.next]
<1>1. /\ s \in Seq(Frame) /\ Len(s) \in {1, 2} /\ top = s[1] /\ top \in Frame
      /\ Shape(flow, s)
  BY Top, Zenon DEF Types
<1>2. /\ top.pc = "switch" /\ top.next \in Thread /\ current = top.next /\ top.prev # top.next
      /\ top.prev \in Thread \cup {NULL} /\ top.ret \in {"body", "eoi"}
      /\ flow \in Flow /\ ctx \in [Thread -> Flow] /\ g \in Flow
      /\ inService
  <2>1. top.pc = "switch"
    BY Zenon DEF context_switch, At
  <2>2. top.next \in Thread /\ current = top.next /\ top.prev # top.next
    BY <2>1, Zenon DEF Locals, At
  <2>3. top \in Plain \cup Handler /\ (flow \in {idle, Boot} => top \in Handler)
    BY <2>1, Top DEF Calling, Booting, Body, Activation
  <2>4. top.ret \in {"body", "eoi"} /\ (flow \in {idle, Boot} => top.ret = "eoi")
    BY <2>3, Zenon DEF Plain, Handler
  <2>5. inService
    BY <2>4, Zenon DEF Service
  <2>6. flow \in Flow /\ ctx \in [Thread -> Flow] /\ g \in Flow
    BY <2>2, Zenon DEF Types
  <2> QED
    BY <2>1, <2>2, <2>4, <2>5, <2>6, <1>1 DEF Frame
<1>3. x \in Frame /\ x.pc = top.ret /\ x.ret = top.ret
  BY <1>2, Zenon DEF Frame, Pc, Activation
<1> HIDE DEF x
<1>4. /\ r \in Seq(Frame) /\ Len(r) = Len(s) /\ r[1] = x
      /\ Len(s) = 2 => r[2] = s[2]
  BY <1>1, <1>3, Replacing
<1>5. stk' = [stk EXCEPT ![flow] = r]
  BY Zenon DEF context_switch, SetTop, x
<1> HIDE DEF r
<1>6. /\ stk' \in [Flow -> Seq(Frame)] /\ stk'[flow] = r
      /\ \A f \in Flow \ {flow} : stk'[f] = stk[f]
  BY <1>2, <1>4, <1>5 DEF Types
<1>7. Shape(flow, r)
  <2> HIDE DEF StackInv
  <2>1. CASE flow \notin {idle, Boot}
    BY Zenon, <2>1, <1>1, <1>2, <1>3, <1>4, SchedulerAssumption DEF Shape, Plain
  <2>2. CASE flow = idle
    <3>1. Len(s) = 2 /\ s[2] = Body /\ s[1] \in Handler
      <4>1. Body.pc = "body"
        BY DEF Body, Activation
      <4> QED
        BY Zenon, <4>1, <2>2, <1>1, <1>2, SchedulerAssumption DEF Shape
    <3>2. r[1] \in Handler
      BY Zenon, <3>1, <1>1, <1>2, <1>3, <1>4 DEF Handler
    <3> QED
      BY Zenon, <2>2, <3>1, <3>2, <1>4 DEF Shape
  <2>3. CASE flow = Boot
    BY Zenon, <2>3, <1>1, <1>2, <1>3, <1>4, SchedulerAssumption DEF Shape, Handler, Booting, Calling
  <2> QED
    BY <2>1, <2>2, <2>3
<1>8. \A f \in Flow : Shape(f, stk'[f])
  BY Zenon, <1>6, <1>7 DEF Types
<1>9. \A f \in Flow : stk'[f][1].pc \in {"body", "eoi", "sysret", "user"}
  BY Zenon, <1>2, <1>3, <1>4, <1>6 DEF Suspended
<1>10. /\ flow' = g /\ ctx' = IF top.prev = NULL THEN ctx ELSE [ctx EXCEPT ![top.prev] = flow]
       /\ UNCHANGED <<h, current, all_threads_lock, inService, home>>
  BY Zenon DEF context_switch, Saved
<1>11. Types'
  BY Zenon, <1>2, <1>6, <1>8, <1>10 DEF Types, Shape
<1>12. top' = stk'[g][1] /\ top'.pc \in {"body", "eoi", "sysret", "user"}
  <2>1. stk'[g] \in Seq(Frame) /\ Len(stk'[g]) >= 1
    <3>1. stk'[g] \in Seq(Frame) /\ Shape(g, stk'[g])
      BY <1>2, <1>6, <1>8, Zenon
    <3> HIDE DEF g
    <3> QED
      BY <3>1 DEF Shape
  <2>2. Head(stk'[g]) = stk'[g][1]
    BY <2>1, Popping
  <2>3. top' = stk'[g][1]
    BY Zenon, <2>2, <1>10 DEF top
  <2> QED
    BY <2>3, <1>9, <1>2, Zenon
<1>13. Suspended'
  BY <1>2, <1>9, <1>10, SchedulerAssumption DEF Suspended, Node
<1>14. Homes'
  <2>1. CASE flow = Boot
    <3>1. Len(s) = 2
      BY <2>1, <1>1, <1>2, SchedulerAssumption, Zenon DEF Shape, Booting
    <3> QED
      BY Zenon, <2>1, <3>1, <1>4, <1>6, <1>10 DEF Homes
  <2>2. CASE flow # Boot
    BY <2>2, <1>6, <1>10 DEF Homes, Flow
  <2> QED
    BY <2>1, <2>2
<1>15. Locals' /\ Service' /\ Locked'
  BY Zenon, <1>2, <1>10, <1>12 DEF At, Locals, Service, Locked
<1>16. OwnStack'
  <2>1. /\ flow = Home(top.prev) /\ \A t \in Thread \ {top.prev} : ctx[t] = home[t]
        /\ \A t, u \in Thread : home[t] = home[u] => t = u
    BY <1>2 DEF OwnStack, Executing, At
  <2>2. Executing' = current /\ current = top.next /\ current # NULL
    BY Zenon, <1>2, <1>10, <1>12, SchedulerAssumption DEF Executing, At, Node
  <2>3. g = home[top.next]
    BY <2>1, <1>2, Zenon
  <2>4. ASSUME NEW t \in Thread \ {top.next} PROVE ctx'[t] = home[t]
    BY <2>1, <1>2, <1>10, SchedulerAssumption DEF Home, Node
  <2> QED
    BY <2>1, <2>2, <2>3, <2>4, <1>10, Zenon DEF OwnStack, Home
<1> QED
  BY Zenon, <1>11, <1>12, <1>13, <1>14, <1>15, <1>16

----------------------------------------------------------------------------
(* Entering the program, ticks and system calls.                          *)

(* A flow that starts to execute with one record, or has it replaced.      *)
LEMMA Single ==
    ASSUME NEW x \in Frame
    PROVE  <<x>> \in Seq(Frame) /\ Len(<<x>>) = 1 /\ <<x>>[1] = x /\ Head(<<x>>) = x
OBVIOUS

LEMMA UserFrame ==
    User \in Booting /\ User \in Frame /\ User.pc = "user" /\ User.ret = "body"
BY Zenon DEF User, Activation, Booting, Frame, Pc

(* Leaving boot code: scheduler_start, and the two entries of the program  *)
(* (scheduler.c:92-116, syscall.c:418-497).                                *)
LEMMA StartStep ==
    ASSUME StackInv, scheduler_start \/ enter_user_mode \/ enter_syscall_test_mode
    PROVE  StackInv' /\ top'.pc \in {"body", "user"}
<1> USE DEF StackInv
<1>1. flow = Boot /\ At("body") /\ current = NULL /\ home[idle] = idle
  BY BootCode, Zenon DEF scheduler_start, enter_user_mode, enter_syscall_test_mode
<1>2. /\ \A t \in Thread : ctx[t] = home[t] /\ home[t] = t
      /\ all_threads_lock = NULL /\ idle \in Thread /\ NULL \notin Thread /\ Boot \notin Thread
  BY <1>1, SchedulerAssumption, Zenon DEF OwnStack, Executing, Locked, Homes, At, Node
<1>3. CASE scheduler_start
  <2>1. /\ flow' = idle /\ current' = idle
        /\ UNCHANGED <<h, ctx, stk, all_threads_lock, inService, home>>
    BY <1>2, <1>3, Zenon DEF scheduler_start
  <2>2. stk[idle] \in Seq(Frame) /\ Len(stk[idle]) >= 1 /\ stk[idle][1] = Body
    BY <1>1, <1>2 DEF Shape, Types, Flow, Suspended
  <2>3. Types' /\ Homes'
    BY <1>2, <2>1 DEF Types, Flow, Homes, Shape
  <2>4. top' = Body /\ Body.pc = "body" /\ Body.ret = "body"
    BY <2>1, <2>2, Popping, Zenon DEF top, Body, Activation
  <2>5. Suspended'
    BY <1>1, <1>2, <2>1 DEF Suspended, At, top, Types
  <2>6. Locals' /\ Service' /\ Locked' /\ OwnStack'
    BY <1>2, <2>1, <2>4, Zenon DEF Locals, At, Service, Locked, OwnStack, Executing, Home
  <2> QED
    BY <2>3, <2>4, <2>5, <2>6, Zenon
<1>4. CASE enter_user_mode \/ enter_syscall_test_mode
  <2>1. /\ stk' = [stk EXCEPT ![Boot] = <<User>>]
        /\ UNCHANGED <<h, ctx, flow, all_threads_lock, inService>>
        /\ \/ UNCHANGED <<current, home>>
           \/ current' = idle /\ home' = [home EXCEPT ![idle] = Boot]
    BY <1>4, Zenon DEF enter_user_mode, enter_syscall_test_mode
  <2>2. /\ stk' \in [Flow -> Seq(Frame)] /\ stk'[Boot] = <<User>>
        /\ \A f \in Flow \ {Boot} : stk'[f] = stk[f]
    BY <2>1, UserFrame, Single, Zenon DEF Types, Flow
  <2>3. /\ Len(stk'[Boot]) = 1 /\ stk'[Boot][1] = User /\ Head(stk'[Boot]) = User
    BY <2>2, UserFrame, Single, Zenon
  <2>4. Shape(Boot, stk'[Boot])
    BY <2>3, UserFrame DEF Shape
  <2>5. Types'
    <3>1. \A f \in Flow : Shape(f, stk'[f])
      BY Zenon, <2>2, <2>4 DEF Types
    <3>2. current' \in Thread \cup {NULL} /\ home' \in [Thread -> Flow]
      BY <1>2, <2>1, Zenon DEF Types, Flow
    <3> QED
      BY Zenon, <2>1, <2>2, <3>1, <3>2 DEF Types, Shape
  <2>6. top' = User
    BY <1>1, <2>1, <2>3, Zenon DEF top
  <2>7. Suspended'
    BY <1>1, <1>2, <2>1, <2>2, Zenon DEF Suspended, Flow
  <2>8. Homes'
    BY <1>2, <2>1, <2>3, UserFrame, Zenon DEF Homes, Types
  <2>9. Locals' /\ Service' /\ Locked'
    BY <1>1, <1>2, <2>1, <2>6, UserFrame, Zenon DEF Locals, At, Service, Locked
  <2>10. OwnStack'
    BY <1>1, <1>2, <2>1, <2>6, UserFrame DEF OwnStack, Executing, At, Home, Types
  <2> QED
    BY <2>5, <2>6, <2>7, <2>8, <2>9, <2>10, UserFrame, Zenon
<1> QED
  BY <1>3, <1>4, Zenon

(* The timer interrupt arrives (timer.c:35-64): only the idle loop, boot   *)
(* code and the program can be interrupted.                                *)
LEMMA TickStep ==
    ASSUME StackInv, Tick
    PROVE  StackInv' /\ top.pc \in {"body", "user"} /\ top'.pc \in {"pick", "eoi"}
<1> USE DEF StackInv
<1> DEFINE s == stk[flow]
<1>1. PICK p \in {"pick", "eoi"} :
        stk' = [stk EXCEPT ![flow] = <<Activation(p, NULL, NULL, "eoi")>> \o @]
  BY Zenon DEF Tick
<1> DEFINE x == Activation(p, NULL, NULL, "eoi")
           r == <<x>> \o s
<1>2. x \in Frame /\ x.pc = p /\ x.ret = "eoi" /\ x \in Handler
  BY <1>1, Zenon DEF Activation, Frame, Pc, Handler
<1>3. /\ inService' /\ UNCHANGED <<h, current, ctx, flow, all_threads_lock, home>>
      /\ flow \in {idle, Boot} /\ Len(s) = 1 /\ top.pc \in {"body", "user"}
      /\ inService' \in BOOLEAN
  <2>1. /\ inService' = TRUE /\ UNCHANGED <<h, current, ctx, flow, all_threads_lock, home>>
        /\ ~inService /\ Len(s) = 1
        /\ flow = Boot => top.pc \in {"body", "user"}
    BY Zenon DEF Tick, InterruptsOn, At
  <2>2. flow \in {idle, Boot}
    BY <2>1, Zenon DEF Service
  <2>3. flow = idle => top.pc = "body"
    <3>1. Body.pc = "body"
      BY Zenon DEF Body, Activation
    <3> QED
      BY <3>1, <2>1, Top, SchedulerAssumption, Zenon DEF Types, Shape
  <2> QED
    BY <2>1, <2>2, <2>3, Zenon
<1>4. s \in Seq(Frame) /\ top = s[1] /\ top \in Frame /\ Shape(flow, s) /\ flow \in Flow
  BY Top DEF Types
<1> HIDE DEF x
<1>5. r \in Seq(Frame) /\ Len(r) = 2 /\ r[1] = x /\ r[2] = s[1] /\ Head(r) = x
  <2>1. Len(s) >= 1
    BY <1>3
  <2>2. r \in Seq(Frame) /\ Len(r) = Len(s) + 1 /\ r[1] = x /\ r[2] = s[1]
    BY <2>1, <1>2, <1>4, Pushing, Zenon
  <2> HIDE DEF r
  <2>3. Len(r) = 2 /\ Len(r) >= 1
    BY <1>3, <2>2
  <2>4. Head(r) = r[1]
    BY <2>2, <2>3, Popping
  <2> QED
    BY Zenon, <2>2, <2>3, <2>4
<1>6. stk' = [stk EXCEPT ![flow] = r]
  BY <1>1, Zenon DEF x
<1> HIDE DEF r
<1>7. /\ stk' \in [Flow -> Seq(Frame)] /\ stk'[flow] = r
      /\ \A f \in Flow \ {flow} : stk'[f] = stk[f]
  BY <1>4, <1>5, <1>6 DEF Types
<1>8. Shape(flow, r)
  BY Zenon, <1>2, <1>3, <1>4, <1>5, SchedulerAssumption DEF Shape, Booting, Body, Activation
<1>9. Types'
  <2>1. \A f \in Flow : Shape(f, stk'[f])
    BY Zenon, <1>7, <1>8 DEF Types
  <2> QED
    BY Zenon, <1>3, <1>7, <2>1 DEF Types, Shape
<1>10. top' = x
  BY <1>3, <1>5, <1>7 DEF top
<1>11. Suspended'
  BY Zenon, <1>3, <1>7, SchedulerAssumption DEF Suspended, Flow
<1>12. Homes'
  <2>1. CASE flow = Boot
    BY Zenon, <2>1, <1>3, <1>5, <1>7 DEF Homes
  <2>2. CASE flow # Boot
    BY <2>2, <1>3, <1>7, Zenon DEF Homes, Flow
  <2> QED
    BY <2>1, <2>2
<1>13. Locals' /\ Service' /\ Locked' /\ Executing' = Executing
  BY <1>1, <1>2, <1>3, <1>10, Zenon DEF Locals, At, Service, Locked, Executing
<1> QED
  BY <1>1, <1>2, <1>3, <1>9, <1>10, <1>11, <1>12, <1>13, KeepOwn, Zenon

(* The EOI and iretq (isr.S:118-142).                                      *)
LEMMA EoiStep ==
    ASSUME StackInv, Eoi
    PROVE  StackInv' /\ top'.pc \in {"body", "user"}
<1> USE DEF StackInv
<1> DEFINE s == stk[flow]
           r == Tail(s)
<1>1. /\ top.pc = "eoi" /\ inService' \in BOOLEAN
      /\ stk' = [stk EXCEPT ![flow] = r]
      /\ UNCHANGED <<h, current, ctx, flow, all_threads_lock, home>>
  BY Zenon DEF Eoi, At
<1>2. s \in Seq(Frame) /\ top = s[1] /\ top \in Frame /\ Shape(flow, s) /\ flow \in Flow
  BY Top, Zenon DEF Types
<1>3. /\ Len(s) = 2 /\ flow \in {idle, Boot}
      /\ flow = idle => s[2] = Body
      /\ flow = Boot => s[2] \in Booting /\ s[2].pc \in {"body", "user"} /\ s[2] \in Frame
  BY <1>1, <1>2, SchedulerAssumption
     DEF Shape, Plain, Booting, Calling, Body, Activation
<1>4. r \in Seq(Frame) /\ Len(r) = 1 /\ r[1] = s[2] /\ Head(r) = r[1]
  <2>1. r \in Seq(Frame) /\ Len(r) = 1
    BY <1>2, <1>3, Popping
  <2>2. r[1] = s[2]
    BY <1>2, <1>3, PoppingSecond
  <2> HIDE DEF r
  <2>3. Head(r) = r[1]
    BY <2>1, Popping
  <2> QED
    BY <2>1, <2>2, <2>3, Zenon
<1> HIDE DEF r
<1>5. /\ stk' \in [Flow -> Seq(Frame)] /\ stk'[flow] = r
      /\ \A f \in Flow \ {flow} : stk'[f] = stk[f]
  BY <1>1, <1>2, <1>4, Zenon DEF Types
<1>6. Shape(flow, r)
  BY <1>3, <1>4, SchedulerAssumption DEF Shape
<1>7. Types'
  <2>1. \A f \in Flow : Shape(f, stk'[f])
    BY Zenon, <1>5, <1>6 DEF Types
  <2> QED
    BY Zenon, <2>1, <1>1, <1>5 DEF Types, Shape
<1>8. top' = s[2] /\ top'.pc \in {"body", "user"} /\ top'.ret = "body"
  BY <1>1, <1>3, <1>4, <1>5 DEF top, Booting, Body, Activation
<1>9. Suspended'
  BY <1>1, <1>5, SchedulerAssumption, Zenon DEF Suspended, Flow
<1>10. Homes'
  <2>1. CASE flow = Boot
    <3>1. s[Len(s)] = s[2] /\ r[Len(r)] = s[2]
      BY <1>3, <1>4, Zenon
    <3> QED
      BY <2>1, <3>1, <1>1, <1>5, Zenon DEF Homes
  <2>2. CASE flow # Boot
    BY <2>2, <1>1, <1>5, Zenon DEF Homes, Flow
  <2> QED
    BY <2>1, <2>2
<1>11. Locals' /\ Service' /\ Locked' /\ Executing' = Executing
  BY <1>1, <1>3, <1>8 DEF Locals, At, Service, Locked, Executing
<1> QED
  BY <1>1, <1>7, <1>8, <1>9, <1>10, <1>11, KeepOwn, Zenon

LEMMA Pair ==
    ASSUME NEW x \in Frame, NEW y \in Frame
    PROVE  /\ <<x, y>> \in Seq(Frame) /\ Len(<<x, y>>) = 2
           /\ <<x, y>>[1] = x /\ <<x, y>>[2] = y /\ Head(<<x, y>>) = x
OBVIOUS

(* Entry and return of a call, on the boot stack (syscall_entry.S:15-90).  *)
LEMMA EntryStep ==
    ASSUME StackInv, syscall_entry \/ sysretq
    PROVE  StackInv' /\ top'.pc \in {"user", "sys"}
<1> USE DEF StackInv
<1>1. /\ flow \notin {idle, Boot} => top \in Plain
      /\ flow = idle => top = Body \/ top \in Handler
  BY Top, Zenon
<1>2. PICK s \in {<<User>>, <<Entry, User>>} :
        /\ flow = Boot /\ top.pc \in {"user", "sysret"}
        /\ stk' = [stk EXCEPT ![Boot] = s]
        /\ UNCHANGED <<h, state, current, ctx, flow, all_threads_lock, inService, home>>
  BY <1>1 DEF syscall_entry, sysretq, At, Plain, Handler, Body, Activation
<1>3. Entry \in Calling /\ Entry \in Frame /\ Entry.pc = "sys" /\ Entry.ret = "sysret"
  BY Zenon DEF Entry, Activation, Calling, Frame, Pc
<1>4. /\ s \in Seq(Frame) /\ Shape(Boot, s) /\ s[Len(s)] = User
      /\ Head(s) = s[1] /\ s[1] \in {User, Entry}
  <2>1. CASE s = <<User>>
    BY <2>1, UserFrame, Single, Zenon DEF Shape
  <2>2. CASE s = <<Entry, User>>
    <3>1. /\ s \in Seq(Frame) /\ Len(s) = 2
          /\ s[1] = Entry /\ s[2] = User /\ Head(s) = Entry
      BY <2>2, <1>3, UserFrame, Pair, Zenon
    <3> QED
      BY <3>1, <1>3, Zenon DEF Shape
  <2> QED
    BY <2>1, <2>2, <1>2, Zenon
<1>5. /\ stk' \in [Flow -> Seq(Frame)] /\ stk'[Boot] = s
      /\ \A f \in Flow \ {Boot} : stk'[f] = stk[f]
  BY <1>2, <1>4 DEF Types
<1>6. Types'
  <2>1. \A f \in Flow : Shape(f, stk'[f])
    BY Zenon, <1>4, <1>5 DEF Types
  <2> QED
    BY Zenon, <1>2, <1>5, <2>1 DEF Types, Shape
<1>7. top' \in {User, Entry}
  BY <1>2, <1>4, <1>5, Zenon DEF top
<1>8. Suspended'
  BY <1>2, <1>5, SchedulerAssumption, Zenon DEF Suspended, Flow
<1>9. Homes'
  BY <1>2, <1>4, <1>5, UserFrame, Zenon DEF Homes
<1>10. Locals' /\ Service' /\ Locked' /\ Executing' = Executing
  BY <1>2, <1>3, <1>7, UserFrame, SchedulerAssumption, Zenon
     DEF Locals, At, Service, Locked, Executing
<1> QED
  BY <1>2, <1>3, <1>6, <1>7, <1>8, <1>9, <1>10, KeepOwn, UserFrame, Zenon

(* The service of a call (syscall.c:106-333): sys_yield finds the idle     *)
(* thread in the queue or nothing.                                         *)
LEMMA CallStep ==
    ASSUME StackInv,
           sys_write \/ sys_getpid \/ sys_wait \/ unknown_syscall \/ sys_yield \/ sys_exit
    PROVE  StackInv'
<1> USE DEF StackInv
<1>1. /\ top \in Frame
      /\ flow \notin {idle, Boot} => top \in Plain
      /\ flow = idle => top = Body \/ top \in Handler
      /\ flow = Boot => top \in Booting \cup Handler \cup Calling
  BY Top
<1>2. PICK p \in {"sysret", "pick", "off"} :
        /\ Goto(p) /\ top.pc = "sys"
        /\ \/ UNCHANGED h /\ p # "pick"
           \/ current # NULL /\ scheduler_add_thread(current)
        /\ UNCHANGED <<current, ctx, flow, all_threads_lock, inService, home>>
  BY Zenon DEF sys_write, sys_getpid, sys_wait, unknown_syscall, sys_yield, sys_exit,
         Returns, Serving, At
<1>3. top \in Calling /\ flow = Boot
  BY <1>1, <1>2 DEF Plain, Handler, Booting, Body, Activation
<1>4. p \in Pc /\ Moved(top, p).pc = p /\ Moved(top, p).ret = top.ret /\ Moved(top, p) \in Frame
  <2>1. p \in Pc
    BY <1>2, Zenon DEF Pc
  <2> QED
    BY <2>1, <1>1, MovedFrame, Zenon
<1>5. SameKind(Moved(top, p)) /\ top.ret = "sysret"
  BY <1>2, <1>3, <1>4, Zenon DEF SameKind, Calling
<1>6. current # NULL => current = idle
  BY <1>2, <1>3, SchedulerAssumption DEF OwnStack, Executing, At, Home, Homes, Types
<1>7. /\ h' \in [Node -> [next : Node, prev : Node]]
      /\ p = "pick" => current = idle /\ h'[runqueue].next \in {runqueue, idle}
  BY Zenon, <1>2, <1>6, AddLinks DEF Types
<1>8. Types' /\ Suspended' /\ Homes' /\ top'.pc = p /\ top'.ret = "sysret"
  BY Zenon, <1>2, <1>4, <1>5, <1>7, GotoStep DEF Types
<1>9. Locals' /\ Service' /\ Locked' /\ Executing' = Executing
  BY Zenon, <1>2, <1>3, <1>7, <1>8 DEF At, Locals, Service, Locked, Executing
<1> QED
  BY <1>2, <1>8, <1>9, KeepOwn, Zenon

----------------------------------------------------------------------------
(* The theorems.                                                           *)

LEMMA StackInit == SysInit => StackInv
<1> SUFFICES ASSUME SysInit PROVE StackInv
  BY Zenon
<1>1. /\ Body \in Frame /\ Body \in Plain /\ Body \in Booting
      /\ Body.pc = "body" /\ Body.ret = "body"
  BY Zenon DEF Body, Activation, Frame, Pc, Plain, Booting
<1>2. /\ <<Body>> \in Seq(Frame) /\ Len(<<Body>>) = 1 /\ <<Body>>[1] = Body
      /\ Head(<<Body>>) = Body
  BY <1>1, Single, Zenon
<1>3. /\ stk = [f \in Flow |-> <<Body>>] /\ flow = Boot /\ current = NULL
      /\ home = [t \in Thread |-> t] /\ ctx = home /\ inService = FALSE
      /\ all_threads_lock = NULL /\ h = [n \in Node |-> [next |-> n, prev |-> n]]
      /\ Boot \in Flow
  BY Zenon DEF SysInit, Init, Self, Flow
<1> HIDE DEF Body
<1>4. \A f \in Flow : Shape(f, stk[f])
  BY <1>1, <1>2, <1>3, SchedulerAssumption DEF Shape
<1>5. Types
  BY Zenon, <1>2, <1>3, <1>4 DEF Types, Flow
<1>6. top = Body
  BY <1>2, <1>3, Zenon DEF top
<1>7. Suspended /\ Homes
  BY <1>1, <1>2, <1>3, SchedulerAssumption, Zenon DEF Suspended, Homes, Flow
<1>8. Locals /\ Service /\ Locked /\ OwnStack
  BY <1>1, <1>3, <1>6, SchedulerAssumption, Zenon
     DEF Locals, Service, Locked, OwnStack, Executing, Home, At, Node
<1> QED
  BY <1>5, <1>7, <1>8 DEF StackInv

LEMMA StackNext == StackInv /\ [SysNext]_sysVars => StackInv'
<1> SUFFICES ASSUME StackInv, [SysNext]_sysVars PROVE StackInv'
  OBVIOUS
<1>1. CASE SysNext
  BY Zenon, <1>1, CreateStep, ExitStep, ScheduleStep, SwitchStep, StartStep, TickStep, EoiStep,
     EntryStep, CallStep
     DEF SysNext, KernelStep, ThreadExits, IretUser
<1>2. CASE UNCHANGED sysVars
  <2>1. UNCHANGED <<h, state, current, ctx, flow, stk, all_threads_lock, inService, home>>
    BY <1>2 DEF sysVars, vars
  <2>2. top' = top /\ Executing' = Executing
    BY Zenon, <2>1 DEF Executing, At, top
  <2>3. Types'
    <3>1. \A f \in Flow : Shape(f, stk'[f])
      BY Zenon, <2>1 DEF StackInv, Types
    <3> QED
      BY Zenon, <2>1, <3>1 DEF StackInv, Types, Shape
  <2>4. Suspended' /\ Homes'
    BY Zenon, <2>1 DEF StackInv, Suspended, Homes
  <2>5. Locals' /\ Service' /\ Locked'
    BY Zenon, <2>1, <2>2 DEF StackInv, Locals, Service, Locked, At
  <2>6. OwnStack'
    BY Zenon, <2>1, <2>2 DEF StackInv, OwnStack, Home
  <2> QED
    BY Zenon, <2>3, <2>4, <2>5, <2>6 DEF StackInv
<1> QED
  BY <1>1, <1>2

THEOREM StackInvariant == SysSpec => []StackInv
  BY StackInit, StackNext, PTL DEF SysSpec

(* No two threads ever run on one stack, and a thread that does not run is *)
(* resumed on its own: thread_yield, thread_exit, ticks and system calls   *)
(* (scheduler.c:125-168, syscall.c:445-497), for any number of threads.    *)
THEOREM StacksOwned == SysSpec => []OwnStack
<1>1. StackInv => OwnStack
  BY Zenon DEF StackInv
<1> QED
  BY <1>1, StackInvariant, PTL

(* all_threads_lock, a plain spinlock that a thread may be preempted with, *)
(* is never left with a thread that has exited (thread.c:152-160, 185-199).*)
THEOREM LockNeverLeft == SysSpec => []LockReleased
<1>1. StackInv => LockReleased
  BY SchedulerAssumption, Zenon DEF StackInv, Locked, LockReleased, Node
<1> QED
  BY <1>1, StackInvariant, PTL

----------------------------------------------------------------------------
(* The inductive invariant of the run queue.                               *)

\* The queue holds at most one thread, since adding one pushes out the
\* others; those keep links to it, and popping one removes them.
Linked ==
    /\ \A t \in Thread : h[t] \in {Self(t), Self(runqueue)}
    /\ \/ h[runqueue] = Self(runqueue)
       \/ \E t \in Thread : h[runqueue] = Self(t) /\ h[t] = Self(runqueue)

\* The thread in the queue may be run and is not the current one, except
\* while that is about to leave; what schedule() has picked is not in it.
Queued ==
    \A t \in Thread : front(h, runqueue) = t =>
        /\ state[t] = "READY"
        /\ t = current => At("pick") \/ At("set")
        /\ ~At("requeue")
        /\ At("set") => t = top.prev

\* A thread is terminated only from its thread_exit on, which ends with a
\* switch to a thread that is not.
Alive ==
    /\ state \in [Thread -> ThreadState]
    /\ state[idle] \notin {"none", "TERMINATED"}
    /\ IF current = NULL THEN state[idle] = "CREATED" ELSE state[current] # "none"
    /\ top.pc \in {"requeue", "set", "switch"} => state[top.next] \notin {"TERMINATED", "none"}
    /\ top.pc \in {"created", "listed", "add"} => 
         state[top.next] = "CREATED" /\ top.next \notin {current, idle}
    /\ Executing # NULL /\ state[Executing] = "TERMINATED" =>
         top.pc \in {"exit", "unlist", "pick", "requeue", "set", "switch"}

QueueInv == Linked /\ Queued /\ Alive

(* scheduler_add_thread leaves the thread alone in the queue or, if it had *)
(* been pushed out before, the queue empty (scheduler.c:194-214).          *)
LEMMA AddLinked ==
    ASSUME Types, Linked, NEW t \in Thread, scheduler_add_thread(t)
    PROVE  /\ Linked' /\ h'[runqueue].next \in {runqueue, t}
           /\ state' = [state EXCEPT ![t] = "READY"]
<1>1. t # runqueue /\ t \in Node /\ runqueue \in Node /\ h \in [Node -> [next : Node, prev : Node]]
  BY SchedulerAssumption, Zenon DEF Types, Node
<1>2. h' = list_push_back(h, t, runqueue) /\ state' = [state EXCEPT ![t] = "READY"]
  BY Zenon DEF scheduler_add_thread, Ready
<1>3. \A u \in Thread \ {t} : u # runqueue /\ u \in Node
  BY SchedulerAssumption, Zenon DEF Node
<1>4. CASE h[t] = Self(t)
  <2>1. h[t].prev = t
    BY <1>4 DEF Self
  <2>2. /\ h'[runqueue] = Self(t) /\ h'[t] = Self(runqueue)
        /\ \A u \in Thread \ {t} : h'[u] = h[u]
    BY <1>1, <1>2, <1>3, <2>1 DEF list_push_back, Self
  <2>3. \A u \in Thread : h'[u] \in {Self(u), Self(runqueue)}
    BY <2>2, Zenon DEF Linked
  <2>4. Linked'
    BY <2>2, <2>3, Zenon DEF Linked
  <2>5. h'[runqueue].next = t
    BY <2>2 DEF Self
  <2> QED
    BY <1>2, <2>4, <2>5, Zenon
<1>5. CASE h[t] = Self(runqueue)
  <2>1. h[t].prev = runqueue /\ h[t].next = runqueue
    BY <1>5 DEF Self
  <2>2. /\ h'[runqueue] = Self(runqueue) /\ h'[t] = Self(runqueue)
        /\ \A u \in Thread \ {t} : h'[u] = h[u]
    BY <1>1, <1>2, <1>3, <2>1 DEF list_push_back, Self
  <2>3. \A u \in Thread : h'[u] \in {Self(u), Self(runqueue)}
    BY Zenon, <2>2 DEF Linked
  <2>4. Linked'
    BY Zenon, <2>2, <2>3 DEF Linked
  <2>5. h'[runqueue].next = runqueue
    BY <2>2 DEF Self
  <2> QED
    BY Zenon, <1>2, <2>4, <2>5
<1> QED
  BY <1>4, <1>5, Zenon DEF Linked

(* Taking the thread out leaves the queue empty.                           *)
LEMMA PopLinked ==
    ASSUME Types, Linked, ~list_empty(h, runqueue), h' = list_pop_front(h, runqueue)
    PROVE  Linked' /\ h'[runqueue].next = runqueue
<1>1. PICK t \in Thread : h[runqueue] = Self(t) /\ h[t] = Self(runqueue)
  BY DEF Linked, list_empty, Self
<1>2. /\ t # runqueue /\ t \in Node /\ runqueue \in Node /\ h \in [Node -> [next : Node, prev : Node]]
      /\ \A u \in Thread : u # runqueue /\ u \in Node
  BY SchedulerAssumption, Zenon DEF Types, Node
<1>3. /\ h[runqueue].next = t /\ h[runqueue].prev = t
      /\ h[t].next = runqueue /\ h[t].prev = runqueue
  BY <1>1 DEF Self
<1>4. h' = list_remove(h, t)
  BY <1>3 DEF list_pop_front, front
<1>5. /\ h'[runqueue] = Self(runqueue) /\ h'[t] = Self(t)
      /\ \A u \in Thread \ {t} : h'[u] = h[u]
  BY <1>2, <1>3, <1>4 DEF list_remove, Self
<1>6. \A u \in Thread : h'[u] \in {Self(u), Self(runqueue)}
  BY Zenon, <1>5 DEF Linked
<1>7. Linked'
  BY Zenon, <1>5, <1>6 DEF Linked
<1>8. h'[runqueue].next = runqueue
  BY <1>5 DEF Self
<1> QED
  BY <1>7, <1>8, Zenon

(* The top after a step that replaces it.                                  *)
LEMMA NewTop ==
    ASSUME Types, NEW x \in Frame, SetTop(x), flow' = flow
    PROVE  top' = x
<1> DEFINE s == stk[flow]
           r == <<x>> \o Tail(s)
<1>1. s \in Seq(Frame) /\ Len(s) >= 1 /\ flow \in Flow /\ stk \in [Flow -> Seq(Frame)]
  BY Top DEF Types
<1>2. r \in Seq(Frame) /\ Len(r) >= 1 /\ r[1] = x
  BY <1>1, Replacing, Zenon
<1>3. stk' = [stk EXCEPT ![flow] = r]
  BY Zenon DEF SetTop
<1> HIDE DEF r
<1>4. Head(r) = x
  BY <1>2, Popping, Zenon
<1> QED
  BY <1>1, <1>3, <1>4, Zenon DEF top

LEMMA NewPc ==
    ASSUME Types, NEW p \in Pc, Goto(p), flow' = flow
    PROVE  top'.pc = p /\ top'.next = top.next /\ top'.prev = top.prev
<1>1. top \in Frame
  BY Top, Zenon
<1> QED
  BY <1>1, MovedFrame, NewTop DEF Goto, Moved

(* A step that leaves the queue, the states and current alone.             *)
LEMMA QuietStep ==
    ASSUME QueueInv, UNCHANGED <<h, state, current>>,
           top.pc \notin {"pick", "set"},
           top'.pc \notin {"requeue", "set", "switch"},
           top'.pc \in {"created", "listed", "add"} =>
             top.pc \in {"created", "listed", "add"} /\ top'.next = top.next,
           Executing' # NULL /\ state[Executing'] = "TERMINATED" =>
             top'.pc \in {"exit", "unlist", "pick"}
    PROVE  QueueInv'
BY DEF QueueInv, Linked, Queued, Alive, front, At

(* thread_create, thread_exit and the steps that only go on.               *)
LEMMA QueueThread ==
    ASSUME StackInv, QueueInv,
           thread_create \/ CreateLock \/ CreateUnlock \/ thread_exit \/ ExitLock \/ ExitUnlock
    PROVE  QueueInv'
<1> USE DEF StackInv
<1>1. CASE thread_create
  <2>1. PICK t \in Thread :
          /\ state[t] = "none" /\ state' = [state EXCEPT ![t] = "CREATED"]
          /\ SetTop(Activation("created", NULL, t, "body"))
    BY Zenon, <1>1 DEF thread_create
  <2>2. At("body") /\ UNCHANGED <<h, current, flow>>
    BY <1>1, Zenon DEF thread_create
  <2> DEFINE x == Activation("created", NULL, t, "body")
  <2>3. x \in Frame /\ x.pc = "created" /\ x.next = t
    BY Zenon DEF Pc, Frame, Activation
  <2>4. top' = x
    BY <2>1, <2>2, <2>3, NewTop, Zenon
  <2> HIDE DEF x
  <2>5. Executing' = Executing /\ Executing = current
    BY <2>2, <2>3, <2>4, Zenon DEF Executing, At
  <2>6. Linked' /\ Queued'
    BY <2>1, <2>2, <2>3, <2>4, Zenon DEF QueueInv, Linked, Queued, Alive, front, At
  <2>7. Alive'
    <3>1. t # current /\ t # idle /\ current \in Thread \cup {NULL} /\ idle \in Thread /\ NULL \notin Thread
      BY <2>1, SchedulerAssumption, Zenon DEF QueueInv, Alive, Types, Node
    <3>2. /\ state' \in [Thread -> ThreadState] /\ state'[t] = "CREATED"
          /\ \A u \in Thread \ {t} : state'[u] = state[u]
      BY <2>1, Zenon DEF QueueInv, Alive, ThreadState
    <3>3. state'[idle] \notin {"none", "TERMINATED"} /\ (current = NULL => state'[idle] = "CREATED")
      BY <3>1, <3>2, Zenon DEF QueueInv, Alive
    <3>4. current # NULL => state'[current] \notin {"none", "TERMINATED"}
      BY <3>1, <3>2, <2>2, <2>5, Zenon DEF QueueInv, Alive, At
    <3> QED
      BY <3>1, <3>2, <3>3, <3>4, <2>2, <2>3, <2>4, <2>5, Zenon DEF Alive
  <2> QED
    BY <2>6, <2>7 DEF QueueInv
<1>2. CASE CreateLock \/ CreateUnlock \/ ExitLock \/ ExitUnlock
  <2>1. PICK p \in {"listed", "add", "unlist", "pick"} :
          /\ Goto(p) /\ top.pc \in {"created", "listed", "exit", "unlist"}
          /\ p \in {"listed", "add"} <=> top.pc \in {"created", "listed"}
          /\ UNCHANGED <<h, state, current, flow>>
    BY <1>2, Zenon DEF CreateLock, CreateUnlock, ExitLock, ExitUnlock, At
  <2>2. p \in Pc
    BY <2>1, Zenon DEF Pc
  <2>3. top'.pc = p /\ top'.next = top.next
    BY <2>1, <2>2, NewPc, Zenon
  <2>4. Executing' = Executing
    BY <2>1, <2>3, Zenon DEF Executing, At
  <2>5. Executing # NULL /\ state[Executing] = "TERMINATED" => top.pc \in {"exit", "unlist"}
    BY <2>1 DEF QueueInv, Alive
  <2> QED
    BY <2>1, <2>3, <2>4, <2>5, QuietStep, Zenon
<1>3. CASE thread_exit
  <2>1. /\ At("body") /\ current # NULL /\ Goto("exit") /\ UNCHANGED <<h, current, flow>>
        /\ state' = [state EXCEPT ![current] = "TERMINATED"] /\ current \in Thread
    BY <1>3, Zenon DEF thread_exit, Types
  <2>2. top'.pc = "exit"
    BY <2>1, NewPc, Zenon DEF Pc
  <2>3. current # idle
    <3>1. flow # Boot /\ flow # idle
      BY <1>3, <2>1, BootCode, Zenon DEF thread_exit
    <3> QED
      BY <3>1, <2>1, Zenon DEF OwnStack, Executing, At, Home, Homes
  <2>4. Executing' = current /\ Executing = current
    BY <2>1, <2>2, Zenon DEF Executing, At
  <2>5. Linked' /\ Queued'
    BY <2>1, <2>2, Zenon DEF QueueInv, Linked, Queued, Alive, front, At
  <2>6. Alive'
    BY <2>1, <2>2, <2>3, <2>4 DEF QueueInv, Alive, ThreadState, At
  <2> QED
    BY <2>5, <2>6, Zenon DEF QueueInv
<1> QED
  BY <1>1, <1>2, <1>3, Zenon

(* A step that puts a thread into the queue.                               *)
LEMMA AddStep ==
    ASSUME Types, QueueInv, NEW t \in Thread, scheduler_add_thread(t), UNCHANGED current,
           top'.pc \in {"body", "pick", "set"},
           t = current => top'.pc \in {"pick", "set"},
           top'.pc = "set" => /\ t = top'.prev /\ top'.next \in Thread
                              /\ state[top'.next] \notin {"TERMINATED", "none"},
           current = NULL => t # idle,
           current # NULL /\ state[current] = "TERMINATED" => top'.pc \in {"pick", "set"}
    PROVE  QueueInv'
<1>1. Linked' /\ h'[runqueue].next \in {runqueue, t} /\ state' = [state EXCEPT ![t] = "READY"]
  BY AddLinked DEF QueueInv
<1>2. /\ state' \in [Thread -> ThreadState] /\ state'[t] = "READY"
      /\ \A u \in Thread \ {t} : state'[u] = state[u]
      /\ current \in Thread \cup {NULL} /\ idle \in Thread /\ runqueue \notin Thread
  BY Zenon, <1>1, SchedulerAssumption DEF QueueInv, Alive, ThreadState, Types
<1>3. Queued'
  BY <1>1, <1>2, Zenon DEF Queued, front, At
<1>4. Executing' = current
  BY Zenon DEF Executing, At
<1>5. Alive'
  <2>1. state'[idle] \notin {"none", "TERMINATED"}
    BY <1>2, Zenon DEF QueueInv, Alive
  <2>2. IF current = NULL THEN state'[idle] = "CREATED" ELSE state'[current] # "none"
    BY <1>2, Zenon DEF QueueInv, Alive
  <2>3. top'.pc = "set" => state'[top'.next] \notin {"TERMINATED", "none"}
    BY <1>2, Zenon
  <2>4. current # NULL /\ state'[current] = "TERMINATED" => top'.pc \in {"pick", "set"}
    BY <1>2
  <2> QED
    BY <1>2, <1>4, <2>1, <2>2, <2>3, <2>4, Zenon DEF Alive
<1> QED
  BY <1>1, <1>3, <1>5, Zenon DEF QueueInv

(* scheduler_add_thread after thread_create, in the two yields and in      *)
(* schedule().                                                             *)
LEMMA QueueAdd ==
    ASSUME StackInv, QueueInv, AddCreated \/ thread_yield \/ sys_yield \/ Requeue
    PROVE  QueueInv'
<1> USE DEF StackInv
<1>1. NULL \notin Thread /\ current \in Thread \cup {NULL} /\ top \in Frame
  BY Top, SchedulerAssumption, Zenon DEF Types, Node
<1>2. CASE AddCreated
  <2>1. /\ top.pc = "add" /\ scheduler_add_thread(top.next) /\ SetTop(Body)
        /\ UNCHANGED <<current, flow>>
    BY <1>2, Zenon DEF AddCreated, At
  <2>2. Body \in Frame /\ Body.pc = "body"
    BY DEF Body, Activation, Frame, Pc
  <2>3. top' = Body
    BY <2>1, <2>2, NewTop, Zenon
  <2>4. top.next \in Thread /\ top.next \notin {current, idle}
    BY <2>1, Zenon DEF Locals, QueueInv, Alive
  <2>5. ~(current # NULL /\ state[current] = "TERMINATED")
    BY <2>1, Zenon DEF QueueInv, Alive, Executing, At
  <2> QED
    BY <2>1, <2>2, <2>3, <2>4, <2>5, AddStep, Zenon
<1>3. CASE thread_yield
  <2>1. /\ current \in Thread /\ scheduler_add_thread(current) /\ Goto("pick")
        /\ UNCHANGED <<current, flow>>
    BY <1>1, <1>3, Zenon DEF thread_yield
  <2>2. top'.pc = "pick"
    BY <2>1, NewPc, Zenon DEF Pc
  <2> QED
    BY <1>1, <2>1, <2>2, AddStep, Zenon
<1>4. CASE sys_yield
  <2>1. CASE current = NULL
    <3>1. top.pc = "sys" /\ Goto("sysret") /\ UNCHANGED <<h, state, current, flow>>
      BY <1>4, <2>1, Zenon DEF sys_yield, Serving, At
    <3>2. top'.pc = "sysret"
      BY <3>1, NewPc, Zenon DEF Pc
    <3>3. Executing' = NULL
      BY <2>1, <3>1, <3>2, Zenon DEF Executing, At
    <3> QED
      BY <3>1, <3>2, <3>3, QuietStep, Zenon
  <2>2. CASE current # NULL
    <3>1. /\ current \in Thread /\ scheduler_add_thread(current) /\ Goto("pick")
          /\ UNCHANGED <<current, flow>>
      BY <1>1, <1>4, <2>2, Zenon DEF sys_yield
    <3>2. top'.pc = "pick"
      BY <3>1, NewPc DEF Pc
    <3> QED
      BY <1>1, <3>1, <3>2, AddStep
  <2> QED
    BY <2>1, <2>2, Zenon
<1>5. CASE Requeue
  <2>1. top.pc = "requeue" /\ Goto("set") /\ UNCHANGED <<current, flow>>
    BY <1>5, Zenon DEF Requeue, At
  <2>2. top'.pc = "set" /\ top'.next = top.next /\ top'.prev = top.prev
    BY <2>1, NewPc, Zenon DEF Pc
  <2>3. /\ top.prev = current /\ top.next \in Thread
        /\ state[top.next] \notin {"TERMINATED", "none"}
    BY <2>1, Zenon DEF Locals, QueueInv, Alive
  <2>4. CASE Runnable(top.prev)
    <3>1. top.prev \in Thread /\ scheduler_add_thread(top.prev)
      BY <1>1, <1>5, <2>3, <2>4, Zenon DEF Requeue, Runnable
    <3> QED
      BY <1>1, <2>1, <2>2, <2>3, <3>1, AddStep, Zenon
  <2>5. CASE ~Runnable(top.prev)
    <3>1. UNCHANGED <<h, state>>
      BY <1>5, <2>5, Zenon DEF Requeue
    <3>2. Executing' = Executing
      BY <2>1, <2>2, Zenon DEF Executing, At
    <3> QED
      BY <2>1, <2>2, <2>3, <3>1, <3>2, Zenon DEF QueueInv, Linked, Queued, Alive, front, At
  <2> QED
    BY <2>4, <2>5, Zenon
<1> QED
  BY <1>2, <1>3, <1>4, <1>5, Zenon

(* pick_next_thread and thread_set_current in schedule().                  *)
LEMMA QueuePick ==
    ASSUME StackInv, QueueInv, Pick \/ SetCurrent
    PROVE  QueueInv'
<1> USE DEF StackInv
<1>1. /\ NULL \notin Thread /\ current \in Thread \cup {NULL} /\ idle \in Thread
      /\ top \in Frame /\ top.ret \in {"body", "eoi", "sysret"} /\ runqueue \notin Thread
  BY Zenon, Top, SchedulerAssumption DEF Types, Node, Frame
<1>2. CASE Pick
  <2> DEFINE empty == list_empty(h, runqueue)
             next == IF empty THEN Fallback ELSE front(h, runqueue)
  <2>1. /\ top.pc = "pick" /\ UNCHANGED <<state, current, flow>>
        /\ h' = IF empty THEN h ELSE list_pop_front(h, runqueue)
        /\ next = current => Goto(top.ret)
        /\ next # current => SetTop(Activation("requeue", current, next, top.ret))
    BY <1>2, Zenon DEF Pick, At
  <2>2. Linked' /\ h'[runqueue].next = runqueue
    <3>1. CASE empty
      BY Zenon, <3>1, <2>1 DEF QueueInv, Linked, list_empty
    <3>2. CASE ~empty
      BY Zenon, <3>2, <2>1, PopLinked DEF QueueInv
    <3> QED
      BY <3>1, <3>2
  <2>3. next \in Thread /\ state[next] \notin {"TERMINATED", "none"}
    <3>1. CASE empty
      BY <3>1, <1>1, Zenon DEF Fallback, QueueInv, Alive
    <3>2. CASE ~empty
      BY <3>2, PopLinks, Zenon DEF QueueInv, Queued, Types
    <3> QED
      BY <3>1, <3>2, Zenon
  <2> HIDE DEF next
  <2>4. Queued'
    BY <2>2, <1>1, Zenon DEF Queued, front
  <2>5. \/ next = current /\ top'.pc = top.ret
        \/ next # current /\ top'.pc = "requeue" /\ top'.next = next
    <3>1. CASE next = current
      <4>1. top.ret \in Pc
        BY <1>1, Zenon DEF Pc
      <4> QED
        BY <3>1, <4>1, <2>1, NewPc, Zenon
    <3>2. CASE next # current
      <4> DEFINE x == Activation("requeue", current, next, top.ret)
      <4>1. x \in Frame /\ x.pc = "requeue" /\ x.next = next
        BY <1>1, <2>3, Zenon DEF Frame, Pc, Activation
      <4>2. top' = x
        BY <3>2, <4>1, <2>1, NewTop, Zenon
      <4> QED
        BY <3>2, <4>1, <4>2, Zenon
    <3> QED
      BY <3>1, <3>2, Zenon
  <2>6. Executing' = current
    BY <1>1, <2>1, <2>5, Zenon DEF Executing, At
  <2>7. Alive'
    BY <1>1, <2>1, <2>3, <2>5, <2>6, Zenon DEF QueueInv, Alive
  <2> QED
    BY <2>2, <2>4, <2>7, Zenon DEF QueueInv
<1>3. CASE SetCurrent
  <2>1. /\ top.pc = "set" /\ Goto("switch") /\ UNCHANGED <<h, flow>>
        /\ state' = [state EXCEPT ![top.next] = "RUNNING"] /\ current' = top.next
    BY <1>3, Zenon DEF SetCurrent, At
  <2>2. top'.pc = "switch" /\ top'.next = top.next /\ top'.prev = top.prev
    BY <2>1, NewPc, Zenon DEF Pc
  <2>3. top.prev = current /\ top.next # current /\ top.next \in Thread
    BY <2>1, Zenon DEF Locals
  <2>4. /\ state' \in [Thread -> ThreadState] /\ state'[top.next] = "RUNNING"
        /\ \A u \in Thread \ {top.next} : state'[u] = state[u]
    BY <2>1, <2>3, Zenon DEF QueueInv, Alive, ThreadState
  <2>5. Linked'
    BY <2>1, Zenon DEF QueueInv, Linked
  <2>6. Queued'
    BY <2>1, <2>2, <2>3, <2>4, Zenon DEF QueueInv, Queued, front, At
  <2>7. Alive'
    BY <1>1, <2>1, <2>2, <2>3, <2>4, Zenon DEF QueueInv, Alive
  <2> QED
    BY <2>5, <2>6, <2>7, Zenon DEF QueueInv
<1> QED
  BY <1>2, <1>3

(* Everything else: switches, interrupts, entries and calls.               *)
LEMMA QueueOther ==
    ASSUME StackInv, QueueInv,
           \/ context_switch \/ Tick \/ Eoi
           \/ scheduler_start \/ enter_user_mode \/ enter_syscall_test_mode
           \/ syscall_entry \/ sysretq
           \/ sys_write \/ sys_getpid \/ sys_wait \/ unknown_syscall \/ sys_exit
    PROVE  QueueInv'
<1>1. CASE context_switch
  <2>1. top.pc = "switch" /\ UNCHANGED <<h, state, current>>
    BY <1>1, Zenon DEF context_switch, At
  <2>2. top'.pc \in {"body", "eoi", "sysret", "user"}
    BY <1>1, SwitchStep, Zenon
  <2>3. Executing' = current /\ current = top.next /\ state[top.next] # "TERMINATED"
    BY <2>1, <2>2, Zenon DEF StackInv, Locals, QueueInv, Alive, Executing, At
  <2> QED
    BY <2>1, <2>2, <2>3, QuietStep, Zenon
<1>2. CASE Tick \/ Eoi \/ syscall_entry \/ sysretq
  <2>1. UNCHANGED <<h, state, current>>
    BY Zenon, <1>2 DEF Tick, Eoi, syscall_entry, sysretq
  <2>2. /\ top.pc \in {"body", "user", "eoi", "sysret"}
        /\ top'.pc \in {"pick", "eoi", "body", "user", "sys"}
    BY Zenon, <1>2, TickStep, EoiStep, EntryStep DEF Eoi, syscall_entry, sysretq, At
  <2>3. /\ Executing' = current
        /\ ~(current # NULL /\ state[current] = "TERMINATED")
    BY <2>1, <2>2, Zenon DEF QueueInv, Alive, Executing, At
  <2> QED
    BY <2>1, <2>2, <2>3, QuietStep, Zenon
<1>3. CASE scheduler_start \/ enter_user_mode \/ enter_syscall_test_mode
  <2>1. At("body") /\ current = NULL /\ UNCHANGED h
    BY Zenon, <1>3 DEF scheduler_start, enter_user_mode, enter_syscall_test_mode
  <2>2. top'.pc \in {"body", "user"}
    BY <1>3, StartStep
  <2>3. /\ \/ state' = state
           \/ state' = [state EXCEPT ![idle] = "RUNNING"] /\ current' = idle
        /\ current' \in {current, idle}
    BY Zenon, <1>3 DEF scheduler_start, enter_user_mode, enter_syscall_test_mode
  <2>4. state[idle] = "CREATED" /\ idle \in Thread /\ NULL \notin Thread
    BY <2>1, SchedulerAssumption, Zenon DEF QueueInv, Alive, Node
  <2>5. Linked'
    BY <2>1, Zenon DEF QueueInv, Linked
  <2>6. Queued'
    BY <2>1, <2>2, <2>3, <2>4, Zenon DEF QueueInv, Queued, Alive, front, At
  <2>7. Executing' = current'
    BY <2>2, Zenon DEF Executing, At
  <2>8. Alive'
    BY <2>1, <2>2, <2>3, <2>4, <2>7, Zenon DEF QueueInv, Alive, ThreadState
  <2> QED
    BY <2>5, <2>6, <2>8 DEF QueueInv
<1>4. CASE sys_write \/ sys_getpid \/ sys_wait \/ unknown_syscall \/ sys_exit
  <2>1. PICK p \in {"sysret", "off"} :
          top.pc = "sys" /\ Goto(p) /\ UNCHANGED <<h, state, current, flow>>
    BY Zenon, <1>4 DEF sys_write, sys_getpid, sys_wait, unknown_syscall, sys_exit, Returns, Serving, At
  <2>2. p \in Pc
    BY <2>1 DEF Pc
  <2>3. top'.pc = p
    BY Zenon, <2>1, <2>2, NewPc DEF StackInv
  <2>4. /\ Executing' = current
        /\ ~(current # NULL /\ state[current] = "TERMINATED")
    BY <2>1, <2>3, Zenon DEF QueueInv, Alive, Executing, At
  <2> QED
    BY <2>1, <2>3, <2>4, QuietStep, Zenon
<1> QED
  BY <1>1, <1>2, <1>3, <1>4, Zenon

LEMMA QueueNext == StackInv /\ QueueInv /\ [SysNext]_sysVars => QueueInv'
<1> SUFFICES ASSUME StackInv, QueueInv, [SysNext]_sysVars PROVE QueueInv'
  OBVIOUS
<1>1. CASE SysNext
  BY Zenon, <1>1, QueueThread, QueueAdd, QueuePick, QueueOther
     DEF SysNext, KernelStep, ThreadExits, IretUser
<1>2. CASE UNCHANGED sysVars
  <2>1. UNCHANGED <<h, state, current, flow, stk>>
    BY <1>2 DEF sysVars, vars
  <2> QED
    BY Zenon, <2>1 DEF QueueInv, Linked, Queued, Alive, Executing, front, At, top
<1> QED
  BY <1>1, <1>2, Zenon

LEMMA QueueInit == SysInit => QueueInv
<1> SUFFICES ASSUME SysInit PROVE QueueInv
  OBVIOUS
<1>1. /\ top.pc = "body" /\ current = NULL /\ h = [n \in Node |-> Self(n)]
      /\ state = [t \in Thread |-> IF t = idle THEN "CREATED" ELSE "none"]
  BY DEF SysInit, Init, top, Flow, Body, Activation
<1>2. idle \in Thread /\ runqueue \in Node /\ Thread \subseteq Node /\ runqueue \notin Thread
  BY SchedulerAssumption, Zenon DEF Node
<1>3. Linked /\ Queued
  BY <1>1, <1>2, Zenon DEF Linked, Queued, front, Self
<1>4. Alive
  BY <1>1, <1>2 DEF Alive, ThreadState, Executing, At
<1> QED
  BY <1>3, <1>4, Zenon DEF QueueInv

THEOREM QueueInvariant == SysSpec => [](StackInv /\ QueueInv)
  BY StackInit, StackNext, QueueInit, QueueNext, PTL DEF SysSpec

(* A thread that has called thread_exit is never queued, picked or run     *)
(* again, although schedule() puts back the thread it leaves and ticks     *)
(* arrive at any point (scheduler.c:152-158, thread.c:174-202).            *)
THEOREM TerminatedForGood == SysSpec => []TerminatedStaysOff
<1>1. StackInv /\ QueueInv => TerminatedStaysOff
  <2> SUFFICES ASSUME StackInv, QueueInv, NEW t \in Thread, state[t] = "TERMINATED"
               PROVE  /\ front(h, runqueue) # t
                      /\ ~(top.pc \in {"requeue", "set"} /\ top.next = t)
                      /\ ~(flow = t /\ At("body"))
    BY Zenon DEF TerminatedStaysOff
  <2>1. front(h, runqueue) # t
    BY Zenon DEF QueueInv, Queued
  <2>2. ~(top.pc \in {"requeue", "set"} /\ top.next = t)
    BY Zenon DEF QueueInv, Alive
  <2>3. ASSUME flow = t, At("body") PROVE FALSE
    <3>1. Executing = current /\ flow = Home(current) /\ flow # Boot
      BY <2>3, SchedulerAssumption, Zenon DEF StackInv, OwnStack, Executing, At
    <3>2. current # NULL /\ current \in Thread /\ flow = home[current]
      BY <3>1, Zenon DEF Home, StackInv, Types
    <3>3. current = t
      BY <2>3, <3>1, <3>2 DEF StackInv, Homes
    <3> QED
      BY <2>3, <3>1, <3>2, <3>3, Zenon DEF QueueInv, Alive, At
  <2> QED
    BY <2>1, <2>2, <2>3, Zenon
<1> QED
  BY <1>1, QueueInvariant, PTL
============================================================================
