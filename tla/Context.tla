------------------------------ MODULE Context ------------------------------
(***************************************************************************)
(* The instructions of context_switch (context.S), on the contexts that    *)
(* arch_context_init makes and the switch itself saves.  A word is a tuple *)
(* that says what it is.  Of a stack only the address that schedule() has  *)
(* in rsp when it calls is told from others.                               *)
(***************************************************************************)
EXTENDS Registers

CONSTANTS Thread, first    \* the thread that executes at the start

Zero == <<"zero">>
Entry == <<"thread_entry_wrapper">>
Flags == <<"rflags">>
Garbage == <<"garbage">>                      \* bytes that are no such word
Address(t) == <<"context", t>>                \* &t->context
Name(t) == <<"name", t>>                      \* t->name
StackTop(t) == <<"stack_top", t>>
Caller(t) == <<"caller", t>>                  \* return address in schedule()
Stack(t) == <<"stack", t>>                    \* rsp in schedule()
Value(t, r) == <<"value", t, r>>              \* what t holds in a register

Field == GPR \cup {"rip", "rsp", "rflags"}

VARIABLES context, reg, current

contextVars == <<context, reg, current>>

arch_context_init(t) ==
    [f \in Field |-> CASE f \in {"rbp", "rsp"} -> StackTop(t)
                       [] f = "rip" -> Entry
                       [] f = "rflags" -> Flags
                       [] OTHER -> Zero]

ContextInit ==
    /\ context = [t \in Thread |-> arch_context_init(t)]
    /\ current = first
    /\ reg = [f \in Field |-> CASE f = "rip" -> Caller(first)
                                [] f = "rsp" -> Stack(first)
                                [] OTHER -> Value(first, f)]

\* The word in front of an address: thread_t has the name before the context.
Before(address) ==
    IF \E t \in Thread : address = Address(t)
    THEN Name(CHOOSE t \in Thread : address = Address(t))
    ELSE Garbage

\* The call has its arguments in rdi and rsi; rsp is saved as it is when
\* the return address has been popped.
Save(prev, next) ==
    [f \in Field |-> CASE f = "rdi" -> Address(prev)
                       [] f = "rsi" -> Address(next)
                       [] f = "rip" -> Caller(prev)
                       [] f = "rsp" -> Stack(prev)
                       [] OTHER -> reg[f]]

\* rsi is restored before the stack pointer is loaded through it.  Whatever
\* ret then pops, from the characters of a name or from elsewhere, is not a
\* return address; the saved rip is not used.
Restore(c) ==
    [f \in Field |-> CASE f = "rsp" -> Before(c["rsi"])
                       [] f = "rip" -> Garbage
                       [] OTHER -> c[f]]

context_switch(next) ==
    /\ next # current /\ reg["rip"] # Garbage
    /\ context' = [context EXCEPT ![current] = Save(current, next)]
    /\ reg' = Restore(context[next])
    /\ current' = next

ContextNext == \E next \in Thread : context_switch(next)
ContextSpec == ContextInit /\ [][ContextNext]_contextVars

----------------------------------------------------------------------------
(***************************************************************************)
(* "We save it so when we switch back to this context, we'll return to the  *)
(* caller of context_switch()." (arch/x86_64/context.S:64): a switch goes   *)
(* on at the address and on the stack that the context of next holds.       *)
(***************************************************************************)
SwitchResumes ==
    [][reg'["rip"] = context[current']["rip"] /\ reg'["rsp"] = context[current']["rsp"]]_contextVars
============================================================================
