------------------------------- MODULE RwLock -------------------------------
(***************************************************************************)
(* The read-write lock of arch/x86_64/spinlock_arch.h: one atomic counter, *)
(* whose lock operations return after a single attempt.                    *)
(***************************************************************************)
EXTENDS Integers

CONSTANTS
    Cpu,
    MaxCount    \* bound: magnitude of the counter at which no CPU locks

VARIABLES counter, mode     \* mode[c]: "none", "read" or "write"

vars == <<counter, mode>>

Init == counter = 0 /\ mode = [c \in Cpu |-> "none"]

Bounded == counter \in -MaxCount..MaxCount

(* The result of the fetch-and-add does not matter: the retry loop's body   *)
(* returns, so the caller goes on whether or not a writer holds the lock.  *)
spin_read_lock(c) ==
    /\ Bounded /\ mode[c] = "none"
    /\ counter' = counter + 1
    /\ mode' = [mode EXCEPT ![c] = "read"]

spin_read_unlock(c) ==
    /\ mode[c] = "read"
    /\ counter' = counter - 1
    /\ mode' = [mode EXCEPT ![c] = "none"]

(* Likewise: the writer goes on whatever the counter was. *)
spin_write_lock(c) ==
    /\ Bounded /\ mode[c] = "none"
    /\ counter' = counter - 1
    /\ mode' = [mode EXCEPT ![c] = "write"]

spin_write_unlock(c) ==
    /\ mode[c] = "write"
    /\ counter' = 0
    /\ mode' = [mode EXCEPT ![c] = "none"]

Next == \E c \in Cpu :
    \/ spin_read_lock(c) \/ spin_read_unlock(c)
    \/ spin_write_lock(c) \/ spin_write_unlock(c)

Spec == Init /\ [][Next]_vars

(***************************************************************************)
(* "Exclusive access - no readers or other writers allowed"                *)
(* (include/spinlock.h:150): while a CPU is between spin_write_lock and     *)
(* spin_write_unlock, no other CPU is inside the lock.                      *)
(***************************************************************************)
WriterExclusive ==
    \A c, d \in Cpu : mode[c] = "write" /\ mode[d] # "none" => c = d
============================================================================
