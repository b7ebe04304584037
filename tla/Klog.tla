-------------------------------- MODULE Klog --------------------------------
(***************************************************************************)
(* The kernel log, kernel/klog.c: the level from the command line, and a   *)
(* message on its way through the filter and vsnprintf.  A message is a    *)
(* sequence of directives, each a conversion with its argument.            *)
(***************************************************************************)
EXTENDS Printf

CONSTANTS KLOG_BUF_SIZE,   \* 512 in the kernel
          Messages         \* what is logged: [level, parts]

Level == 0..3              \* KLOG_DEBUG, KLOG_INFO, KLOG_WARN, KLOG_ERROR

VARIABLES current_level,
          logged           \* the last call of klog_vprintf, or Nothing

Nothing == [none |-> TRUE]
KlogInit == current_level = 1 /\ logged = Nothing

\* The level that a value of the key stands for: its first letter counts.
LevelOf(v) ==
    CASE CharAt(v, 1) \in {"d", "D"} -> 0
      [] CharAt(v, 1) \in {"i", "I"} -> 1
      [] CharAt(v, 1) \in {"w", "W"} -> 2
      [] CharAt(v, 1) \in {"e", "E"} -> 3
      [] OTHER -> current_level

klog_init(found) ==
    current_level' = IF found = {} THEN current_level
                     ELSE LevelOf(CHOOSE v \in found : TRUE)

\* The format and the arguments of a message.
Format(parts) == FlattenSeq([i \in 1..Len(parts) |-> parts[i].format])
Args(parts) == FlattenSeq([i \in 1..Len(parts) |-> parts[i].args])

Passes(level) == level >= current_level

(* klog_vprintf: the prefix, the formatted text, a newline if it has none. *)
klog_vprintf(m) ==
    LET out == vsnprintf(KLOG_BUF_SIZE, Format(m.parts), Args(m.parts))
        text == StringAt(out.buf, 1)
        newline == IF text = << >> \/ Last(text) # "\n" THEN <<"\n">> ELSE << >>
    IN logged' = [message |-> m, out |-> out,
                  puts |-> IF Passes(m.level) THEN <<<<"prefix">>, text, newline>>
                                              ELSE << >>]

----------------------------------------------------------------------------
\* The numeral of n: digits without a leading zero that add up to n.
DigitSum(d, base) == FoldLeft(LAMBDA acc, x : acc * base + x, 0, d)
Numeral(n, base) ==
    CHOOSE d \in UNION {[1..k -> 0..(base - 1)] : k \in 1..3} :
        DigitSum(d, base) = n /\ (Len(d) > 1 => d[1] # 0)
Numerals == [b \in {10, 16} |-> [n \in 0..(LONG - 1) |-> Numeral(n, b)]]

Spelled(n, base, digits) ==
    LET d == Numerals[base][n] IN [i \in 1..Len(d) |-> digits[d[i] + 1]]
SignedDecimal(n) ==
    IF n < 0 THEN <<"-">> \o Spelled(0 - n, 10, digits_lower) ELSE Spelled(n, 10, digits_lower)

\* What a directive stands for, whatever comes before and after it.
Meaning(part) ==
    LET arg == part.args[1] IN
    CASE part.conv = "literal" -> part.format
      [] part.conv = "%%" -> <<"%">>
      [] part.conv = "%" -> << >>
      [] part.conv = "%c" -> <<arg.char>>
      [] part.conv = "%s" -> IF arg = NullString THEN <<"(", "n", "u", "l", "l", ")">> ELSE arg.text
      [] part.conv \in {"%d", "%i"} -> SignedDecimal(Signed(arg.word, INT))
      [] part.conv \in {"%ld", "%li"} -> SignedDecimal(Signed(arg.word, LONG))
      [] part.conv = "%u" -> Spelled(arg.word % INT, 10, digits_lower)
      [] part.conv = "%lu" -> Spelled(arg.word, 10, digits_lower)
      [] part.conv = "%x" -> Spelled(arg.word % INT, 16, digits_lower)
      [] part.conv = "%X" -> Spelled(arg.word % INT, 16, digits_upper)
      [] part.conv = "%lx" -> Spelled(arg.word, 16, digits_lower)
      [] part.conv = "%lX" -> Spelled(arg.word, 16, digits_upper)
      [] part.conv = "%p" -> <<"0", "x">> \o Spelled(arg.word, 16, digits_lower)

(***************************************************************************)
(* A message that passes the filter appears as a prefix, the meanings of    *)
(* its directives one after the other, cut where the buffer ends and never  *)
(* beyond, and exactly one newline; vsnprintf returns the length that the   *)
(* text has uncut.  A message below the level leaves no trace.              *)
(***************************************************************************)
LineRendered ==
    (logged # Nothing) =>
        LET parts == logged.message.parts
            whole == FlattenSeq([i \in 1..Len(parts) |-> Meaning(parts[i])])
            text == Cut(whole, KLOG_BUF_SIZE - 1)
        IN /\ logged.out = [buf |-> Append(text, NUL), ret |-> Len(whole)]
           /\ IF logged.message.level < current_level THEN logged.puts = << >>
              ELSE LET line == FlattenSeq(Tail(logged.puts)) IN
                   line \in {text, Append(text, "\n")} /\ Last(line) = "\n"
=============================================================================
