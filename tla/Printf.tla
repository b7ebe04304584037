------------------------------- MODULE Printf -------------------------------
(***************************************************************************)
(* Formatted output, lib/minilibc/printf.c: vsnprintf as a walk over the   *)
(* format that turns it into characters, and the rule by which each        *)
(* character goes to the buffer.  An argument is [word |-> w] for a machine *)
(* word of LONG_BITS bits, [char |-> c], [text |-> s] or NullString.        *)
(***************************************************************************)
EXTENDS Cmdline, SequencesExt

CONSTANTS INT_BITS, LONG_BITS   \* 32 and 64 in the kernel

ASSUME PrintfAssumption ==
    INT_BITS \in Nat \ {0} /\ LONG_BITS \in Nat \ {0} /\ INT_BITS <= LONG_BITS

NullString == [null |-> TRUE]
LONG == 2 ^ LONG_BITS
INT == 2 ^ INT_BITS

\* The low bits of a word read as a signed number.
Signed(w, range) == IF w % range >= range \div 2 THEN (w % range) - range ELSE w % range

digits_lower == <<"0", "1", "2", "3", "4", "5", "6", "7", "8", "9",
                  "a", "b", "c", "d", "e", "f">>
digits_upper == SubSeq(digits_lower, 1, 10) \o <<"A", "B", "C", "D", "E", "F">>

\* emit_uint: the digits from the last one up, in reverse; zero by itself.
emit_uint(val, base, digits) ==
    LET tmp[v \in 0..val] ==
            IF v = 0 THEN << >> ELSE Append(tmp[v \div base], digits[(v % base) + 1])
    IN IF val = 0 THEN <<"0">> ELSE tmp[val]

\* emit_int: a sign, and the magnitude negated as an unsigned word.
emit_int(val) ==
    IF val < 0 THEN <<"-">> \o emit_uint((0 - (val % LONG)) % LONG, 10, digits_lower)
               ELSE emit_uint(val, 10, digits_lower)

\* The characters of one conversion; unknown ones are printed as they are.
Converted(c, arg) ==
    CASE c = "c" -> <<arg.char>>
      [] c = "s" -> IF arg = NullString THEN <<"(", "n", "u", "l", "l", ")">> ELSE arg.text
      [] c \in {"d", "i"} -> emit_int(Signed(arg.word, INT))
      [] c = "u" -> emit_uint(arg.word % INT, 10, digits_lower)
      [] c = "x" -> emit_uint(arg.word % INT, 16, digits_lower)
      [] c = "X" -> emit_uint(arg.word % INT, 16, digits_upper)
      [] c = "p" -> <<"0", "x">> \o emit_uint(arg.word, 16, digits_lower)

ConvertedLong(c, arg) ==
    CASE c \in {"d", "i"} -> emit_int(Signed(arg.word, LONG))
      [] c = "u" -> emit_uint(arg.word, 10, digits_lower)
      [] c = "x" -> emit_uint(arg.word, 16, digits_lower)
      [] c = "X" -> emit_uint(arg.word, 16, digits_upper)

Conversions == {"c", "s", "d", "i", "u", "x", "X", "p"}
LongConversions == {"d", "i", "u", "x", "X"}

(***************************************************************************)
(* The loop of vsnprintf from position p of the format, with the arguments *)
(* from number a on left to read: what it emits, in order.                 *)
(***************************************************************************)
Characters(format, args) ==
    LET At(p) == CharAt(format, p)
        Literal(s) == SelectSeq(s, LAMBDA c : c # NUL)
        walk[p \in 1..(Len(format) + 3), a \in 1..(Len(args) + 1)] ==
            CASE At(p) = NUL -> << >>
              [] At(p) # NUL /\ At(p) # "%" -> <<At(p)>> \o walk[p + 1, a]
              [] At(p) = "%" /\ At(p + 1) = "%" -> <<"%">> \o walk[p + 2, a]
              [] At(p) = "%" /\ At(p + 1) = NUL -> << >>
              [] At(p) = "%" /\ At(p + 1) \in Conversions ->
                    Converted(At(p + 1), args[a]) \o walk[p + 2, a + 1]
              [] At(p) = "%" /\ At(p + 1) = "l" /\ At(p + 2) \in LongConversions ->
                    ConvertedLong(At(p + 2), args[a]) \o walk[p + 3, a + 1]
              [] At(p) = "%" /\ At(p + 1) = "l" ->
                    Literal(<<"%", "l", At(p + 2)>>) \o walk[p + 3, a]
              [] OTHER -> <<"%", At(p + 1)>> \o walk[p + 2, a]
    IN walk[1, 1]

\* Mutant: the last place of the buffer is given away.
emit_char_full(st, c) ==
    IF st.remaining > 0
    THEN [buf |-> Append(st.buf, c), remaining |-> st.remaining - 1, written |-> st.written + 1]
    ELSE [st EXCEPT !.written = @ + 1]

\* emit_char, and the same test at every other place that writes one: the
\* buffer keeps a place for the terminator, the count goes on.
emit_char(st, c) ==
    IF st.remaining > 1
    THEN [buf |-> Append(st.buf, c), remaining |-> st.remaining - 1, written |-> st.written + 1]
    ELSE [st EXCEPT !.written = @ + 1]

vsnprintf(size, format, args) ==
    LET st == FoldLeft(emit_char, [buf |-> << >>, remaining |-> size, written |-> 0],
                       Characters(format, args))
    IN [buf |-> IF size > 0 THEN Append(st.buf, NUL) ELSE st.buf, ret |-> st.written]
=============================================================================
