------------------------------ MODULE Console ------------------------------
(***************************************************************************)
(* The serial console: serial_driver.c, the three serial_puts of a line in *)
(* klog.c, and system_shutdown in power.c.  The boot CPU prints alone,     *)
(* releases the lock, starts the other CPUs, prints with them and powers   *)
(* the machine off.  A string is its length and whether serial_put_hex     *)
(* prints it, which locks for every character; a message below the current *)
(* log level prints nothing.  The UART is a holding and a shift register:  *)
(* device_register clears the private data of COM1, so its FIFO is never   *)
(* switched on, and serial_putc falls back to the port that the data named.*)
(***************************************************************************)
EXTENDS Integers, Sequences

CONSTANTS
    Cpu, Bsp,
    Messages,    \* what is printed: sequences of [len, hex]
    MaxMessages  \* bound: messages of a CPU before the shutdown

ASSUME ConsoleAssumption ==
    /\ Bsp \in Cpu /\ MaxMessages \in Nat
    /\ Messages \subseteq Seq([len : Nat, hex : BOOLEAN]) \ {<< >>}

VARIABLES
    serial_lock,
    thr, tsr,    \* UART: holding and shift register, at most one character
    wire,        \* history: the characters that have left the machine
    pc,          \* per CPU: step of serial_puts, serial_flush, system_shutdown
    msg, pos,    \* per CPU: strings left of the message, next character
    printed,     \* per CPU: messages begun
    stage        \* of kernel_main: "boot", "smp", "shutdown", "off"

uart == <<thr, tsr, wire>>
vars == <<serial_lock, uart, pc, msg, pos, printed, stage>>

ConsoleInit ==
    /\ serial_lock = 0 /\ thr = << >> /\ tsr = << >> /\ wire = << >>
    /\ pc = [c \in Cpu |-> "idle"] /\ msg = [c \in Cpu |-> << >>]
    /\ pos = [c \in Cpu |-> 1] /\ printed = [c \in Cpu |-> 0]
    /\ stage = "boot"

----------------------------------------------------------------------------
\* The characters of a message are told apart by CPU, message, string left
\* and position.
Char(c) == [cpu |-> c, n |-> printed[c], left |-> Len(msg[c]), pos |-> pos[c],
            hex |-> Head(msg[c]).hex]

(* A CPU that runs starts to print a message. *)
klog(c) ==
    /\ pc[c] = "idle" /\ (c = Bsp \/ stage = "smp")
    /\ printed[c] < MaxMessages /\ stage \in {"boot", "smp"}
    /\ \E m \in Messages : msg' = [msg EXCEPT ![c] = m]
    /\ pc' = [pc EXCEPT ![c] = "acquire"]
    /\ pos' = [pos EXCEPT ![c] = 1]
    /\ printed' = [printed EXCEPT ![c] = @ + 1]
    /\ UNCHANGED <<serial_lock, uart, stage>>

(* serial_lock_acquire: test and set. *)
serial_lock_acquire(c) ==
    /\ pc[c] \in {"acquire", "flush"} /\ serial_lock = 0
    /\ serial_lock' = 1
    /\ pc' = [pc EXCEPT ![c] = IF @ = "acquire" THEN "put" ELSE "drain"]
    /\ UNCHANGED <<uart, msg, pos, printed, stage>>

\* After a character: serial_puts goes on, serial_putc releases the lock.
\* Mutant: serial_puts calls serial_putc for every character.
AfterChar_unlock(s) == "release"
AfterChar(s) == IF s.hex THEN "release" ELSE "put"

THRE == thr = << >>
TEMT == thr = << >> /\ tsr = << >>

(* serial_putc_unlocked, once the holding register is empty. *)
serial_putc_unlocked(c) ==
    /\ pc[c] = "put" /\ pos[c] <= Head(msg[c]).len /\ THRE
    /\ thr' = <<Char(c)>>
    /\ pos' = [pos EXCEPT ![c] = @ + 1]
    /\ pc' = [pc EXCEPT ![c] = AfterChar(Head(msg[c]))]
    /\ UNCHANGED <<serial_lock, tsr, wire, msg, printed, stage>>

\* The end of serial_puts is the end of the string.
AtEnd(c) == pos[c] > Head(msg[c]).len

\* Where a CPU goes on when the message is printed.
AfterMessage(c) == IF c = Bsp /\ stage = "shutdown" THEN "flush" ELSE "idle"

\* Mutant: the lock stays taken.
Unlocked_kept == 1
Unlocked == 0

(* serial_lock_release, and on to the next character, string or message. *)
serial_lock_release(c) ==
    /\ pc[c] = "release" \/ (pc[c] = "put" /\ AtEnd(c))
    /\ serial_lock' = Unlocked
    /\ IF AtEnd(c)
       THEN /\ msg' = [msg EXCEPT ![c] = Tail(@)]
            /\ pos' = [pos EXCEPT ![c] = 1]
            /\ pc' = [pc EXCEPT ![c] = IF Len(msg[c]) > 1 THEN "acquire"
                                                          ELSE AfterMessage(c)]
       ELSE pc' = [pc EXCEPT ![c] = "acquire"] /\ UNCHANGED <<msg, pos>>
    /\ UNCHANGED <<uart, printed, stage>>

\* Mutant: the flush waits for the holding register only.
Drained_held == THRE
Drained == TEMT

(* serial_flush: bit 6 of the line status; then the lock is released. *)
serial_flush(c) ==
    /\ pc[c] = "drain" /\ Drained
    /\ serial_lock' = 0
    /\ pc' = [pc EXCEPT ![c] = "flushed"]
    /\ UNCHANGED <<uart, msg, pos, printed, stage>>

(* The write to the shutdown port: every CPU and the UART stop. *)
PowerOff ==
    /\ pc[Bsp] = "flushed"
    /\ stage' = "off"
    /\ UNCHANGED <<serial_lock, uart, pc, msg, pos, printed>>

----------------------------------------------------------------------------
(* kernel_main: serial_unlock, and the start of the other CPUs. *)
serial_unlock ==
    /\ stage = "boot" /\ pc[Bsp] = "idle"
    /\ serial_lock' = 0
    /\ stage' = "smp"
    /\ UNCHANGED <<uart, pc, msg, pos, printed>>

(* system_shutdown: its message, then serial_flush and the port. *)
system_shutdown ==
    /\ stage = "smp" /\ pc[Bsp] = "idle"
    /\ stage' = "shutdown"
    /\ \E m \in Messages : msg' = [msg EXCEPT ![Bsp] = m]
    /\ pc' = [pc EXCEPT ![Bsp] = "acquire"]
    /\ pos' = [pos EXCEPT ![Bsp] = 1]
    /\ printed' = [printed EXCEPT ![Bsp] = @ + 1]
    /\ UNCHANGED <<serial_lock, uart>>

(* The UART moves a character to the shift register, and out. *)
Shift ==
    /\ tsr = << >> /\ thr # << >>
    /\ tsr' = thr /\ thr' = << >>
    /\ UNCHANGED <<serial_lock, wire, pc, msg, pos, printed, stage>>

Transmit ==
    /\ tsr # << >>
    /\ wire' = wire \o tsr /\ tsr' = << >>
    /\ UNCHANGED <<serial_lock, thr, pc, msg, pos, printed, stage>>

----------------------------------------------------------------------------
Running(c) ==
    \/ serial_lock_acquire(c) \/ serial_putc_unlocked(c)
    \/ serial_lock_release(c) \/ serial_flush(c)

----------------------------------------------------------------------------
Sent == wire \o tsr \o thr

(***************************************************************************)
(* A string that serial_puts prints is never torn apart: on the line, each  *)
(* of its characters follows the one before it, whatever other CPUs print,  *)
(* and serial_unlock does not open the lock under a string.                 *)
(***************************************************************************)
PutsWhole ==
    \A i \in 1..Len(Sent) : ~Sent[i].hex /\ Sent[i].pos > 1 =>
        i > 1 /\ Sent[i - 1] = [Sent[i] EXCEPT !.pos = @ - 1]

(***************************************************************************)
(* "Flush serial output to ensure all characters are transmitted"           *)
(* (arch/x86_64/power.c:23): when the machine goes off, nothing that the    *)
(* boot CPU printed is left in the UART, even if other CPUs print between   *)
(* the flush and the end.                                                   *)
(***************************************************************************)
ShutdownComplete ==
    stage = "off" => \A i \in 1..Len(thr \o tsr) : (thr \o tsr)[i].cpu # Bsp
============================================================================
