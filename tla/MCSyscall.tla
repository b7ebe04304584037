----------------------------- MODULE MCSyscall -----------------------------
(* Instance of Syscall.  Of 32 addresses the program may use 4 to 15; its  *)
(* memory holds strings of several lengths.                                *)
EXTENDS Syscall

Memory == [a \in 0..31 |-> IF a \in {8} THEN 0 ELSE 1]
Everywhere == {0, 3, 4, 7, 13, 15, 31}
Sizes == {0, 1, 2, 3, 31}
=============================================================================
