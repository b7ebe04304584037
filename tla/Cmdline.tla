------------------------------ MODULE Cmdline ------------------------------
(***************************************************************************)
(* Text as the kernel handles it: the key lookup of the command line,      *)
(* cmdline_get_value of arch/x86_64/multiboot2.c, and the list of test     *)
(* names, parse_test_csv of kernel/test.c.  A string is a sequence of      *)
(* one-character strings; past its end it reads NUL.                       *)
(***************************************************************************)
EXTENDS Integers, Sequences, FiniteSetsExt

CONSTANTS
    CMDLINE_SIZE,       \* sizeof(kernel_cmdline): 1024 in the kernel
    VALUE_SIZE,         \* sizeof(value_buf): 256 in the kernel
    MAX_SELECTED_TESTS  \* 16 in the kernel

NUL == "\\0"
Blank == " "
Quote == "\""

ASSUME CmdlineAssumption ==
    CMDLINE_SIZE \in Nat \ {0} /\ VALUE_SIZE \in Nat \ {0} /\ MAX_SELECTED_TESTS \in Nat

CharAt(s, i) == IF i \in DOMAIN s THEN s[i] ELSE NUL

\* The first position from i on that holds one of the characters, or the end.
Upto(s, i, stops) == Min({j \in i..(Len(s) + i) : CharAt(s, j) \in stops \cup {NUL}})

Cut(s, n) == SubSeq(s, 1, Min({n, Len(s)}))

\* parse_cmdline, and the copy of the embedded line: what fits is kept.
parse_cmdline(text) == Cut(text, CMDLINE_SIZE - 1)

----------------------------------------------------------------------------
\* Where the loop over the line looks for a key: each place that follows
\* blanks, inside quotes too, behind the two dashes if there are any.
TokenStarts(s) ==
    {IF CharAt(s, i) = "-" /\ CharAt(s, i + 1) = "-" THEN i + 2 ELSE i :
        i \in {j \in 1..Len(s) : s[j] # Blank /\ (j = 1 \/ s[j - 1] = Blank)}}

\* How far the comparison of the token at t with the key runs.
Compared(s, t, key) ==
    Min({i \in 0..Len(key) :
            \/ i = Len(key)
            \/ CharAt(s, t + i) \in {NUL, "=", Blank}
            \/ CharAt(s, t + i) # key[i + 1]})

\* Mutant: a mismatch is not looked for.
KeyMatches_any(s, t, key) == CharAt(s, Upto(s, t, {"=", Blank})) = "="

\* No character differs up to the "=": a proper prefix of the key matches too.
KeyMatches(s, t, key) == CharAt(s, t + Compared(s, t, key)) = "="

ValueAt(s, t, key) ==
    LET v == t + Compared(s, t, key) + 1
        quoted == CharAt(s, v) = Quote
        first == IF quoted THEN v + 1 ELSE v
        stop == IF quoted THEN Quote ELSE Blank
    IN Cut(SubSeq(s, first, Upto(s, first, {stop}) - 1), VALUE_SIZE - 1)

\* What cmdline_get_value finds: the empty set for NULL, or one value.
cmdline_get_value(s, key) ==
    LET hits == {t \in TokenStarts(s) : KeyMatches(s, t, key)}
    IN IF hits = {} THEN {} ELSE {ValueAt(s, Min(hits), key)}

----------------------------------------------------------------------------
\* value_buf after a lookup: the value and its terminator are written over
\* what the last lookup left.
Stored(buf, found) ==
    IF found = {} THEN buf
    ELSE LET v == CHOOSE x \in found : TRUE IN
         [i \in 1..VALUE_SIZE |-> IF i <= Len(v) THEN v[i]
                                  ELSE IF i = Len(v) + 1 THEN NUL ELSE buf[i]]

\* The string that starts at offset i of a buffer.
StringAt(buf, i) == SubSeq(buf, i, Upto(buf, i, {}) - 1)

\* parse_test_csv: where names start, and the commas that are overwritten.
NameStarts(buf) ==
    LET n == Upto(buf, 1, {}) - 1
        from == {1} \cup {c + 1 : c \in {i \in 1..n : buf[i] = ","}}
        skip(i) == Min({j \in i..(n + 1) : j = n + 1 \/ buf[j] # Blank})
    IN {skip(i) : i \in {j \in from : j <= n /\ skip(j) <= n}}

Selected(buf) ==
    LET all == NameStarts(buf)
    IN {i \in all : Cardinality({j \in all : j < i}) < MAX_SELECTED_TESTS}

\* Each selected name is terminated where its comma was.
Terminated(buf) ==
    [i \in DOMAIN buf |->
        IF buf[i] = "," /\ \E n \in Selected(buf) : Upto(buf, n, {","}) = i
        THEN NUL ELSE buf[i]]
============================================================================
