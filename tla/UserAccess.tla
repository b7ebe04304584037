----------------------------- MODULE UserAccess -----------------------------
(***************************************************************************)
(* The checks of uaccess.c.  Addresses and lengths are words below WORD,   *)
(* and sums wrap.  EFAULT is defined as -14, so that -EFAULT is 14.        *)
(***************************************************************************)
EXTENDS Integers

CONSTANTS
    WORD,             \* 2^64
    USER_CODE_BASE,
    USER_SPACE_END    \* 2^47

ASSUME UserAccessAssumption ==
    /\ WORD \in Nat /\ USER_CODE_BASE \in Nat /\ USER_SPACE_END \in Nat
    /\ 0 < USER_CODE_BASE /\ USER_CODE_BASE < USER_SPACE_END /\ USER_SPACE_END < WORD

Word == 0..(WORD - 1)
EFAULT == -14

\* The bits from the sign bit of an address on are all clear or all set.
Canonical(addr) == addr \div USER_SPACE_END \in {0, WORD \div USER_SPACE_END - 1}

is_user_pointer(addr) ==
    /\ addr >= USER_CODE_BASE /\ addr < USER_SPACE_END
    /\ Canonical(addr)

End(addr, n) == (addr + n) % WORD

Wraps(addr, n) == End(addr, n) < addr

\* Mutant: the limit is applied to the first address again.
Exceeds_start(addr, n) == addr >= USER_SPACE_END
Exceeds(addr, n) == End(addr, n) >= USER_SPACE_END

\* probe_user_write is the same.
probe_user_read(addr, n) ==
    IF Wraps(addr, n) \/ ~is_user_pointer(addr) \/ Exceeds(addr, n)
    THEN -EFAULT ELSE 0

\* What copy_from_user answers for a kernel buffer; it copies when that is 0.
copy_from_user(src, n) ==
    IF src = 0 \/ probe_user_read(src, n) # 0 THEN -EFAULT ELSE 0

\* The addresses that a copy of n bytes reads, as the processor counts them.
Bytes(addr, n) == {(addr + i) % WORD : i \in 0..(n - 1)}
============================================================================
