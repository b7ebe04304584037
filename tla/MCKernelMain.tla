---------------------------- MODULE MCKernelMain ----------------------------
(* Instances of KernelMain: two-byte pages, boot information of at most      *)
(* three tags before the end tag, one-letter keys and names.                 *)
EXTENDS KernelMain

r(b, s) == [base |-> b, size |-> s]
e(b, n, a) == [base |-> b, length |-> n, available |-> a]

Tg(type, size) == [type |-> type, size |-> size, entry_size |-> 0,
                  entries |-> << >>, text |-> << >>]
EndTag == Tg("END", 8)
CmdTag(t) == [Tg("CMDLINE", 9 + Len(t)) EXCEPT !.text = t]
Mmap(s) == [Tg("MMAP", 16 + 24 * Len(s)) EXCEPT !.entry_size = 24, !.entries = s]

\* Consecutive tags from offset 8 on, each padded to eight bytes.
Placed(s) ==
    LET pos[n \in 1..Len(s)] == IF n = 1 THEN 8 ELSE pos[n - 1] + Align8(s[n - 1].size)
    IN [addr |-> 4, total_size |-> pos[Len(s)] + s[Len(s)].size,
        tag |-> [o \in {pos[n] : n \in 1..Len(s)} |-> s[CHOOSE n \in 1..Len(s) : pos[n] = o]]]

\* Unaligned ends, ranges of no whole page, reserved ranges, a shared page,
\* and a range that ends before the next page boundary.
EntrySets == { <<e(0, 10, TRUE)>>,
               <<e(1, 4, TRUE), e(5, 2, FALSE), e(7, 4, TRUE)>>,
               <<e(2, 3, TRUE), e(5, 5, TRUE)>>,
               <<e(4, 2, FALSE), e(3, 1, TRUE), e(6, 5, TRUE)>>,
               <<e(0, 4, TRUE), e(7, 0, TRUE)>> }

MapInfos ==
    {Placed(<<CmdTag(<<"l", "=", "w">>), Tg("BASIC_MEMINFO", 16), Mmap(s), EndTag>>)
        : s \in EntrySets}
    \cup {Placed(<<Mmap(s), CmdTag(<< >>), EndTag>>) : s \in EntrySets}
    \cup {Placed(<<Mmap(s), Tg("OTHER", 12)>>) : s \in EntrySets}
    \cup { Placed(<<Tg("OTHER", 4097), Mmap(<<e(0, 10, TRUE)>>), EndTag>>),
           Placed(<<CmdTag(<<"l">>), Tg("OTHER", 4096), Mmap(<<e(3, 7, TRUE)>>), EndTag>>),
           Placed(<<CmdTag(<<"l">>), EndTag>>),
           [Placed(<<EndTag>>) EXCEPT !.addr = 0],
           [Placed(<<EndTag>>) EXCEPT !.total_size = 4] }

MapsForPages == { << >>, <<r(0, 12)>> }
Default == r(4, 6)
BootReservations == { << >>, <<r(3, 4)>>, <<r(4, 2), r(7, 3)>>, <<r(0, 30)>> }

----------------------------------------------------------------------------
Spelling ==
    [tests |-> <<"t", "s">>, test |-> <<"t">>, log |-> <<"l">>, quote |-> <<"q">>,
     author |-> <<"a">>, all |-> <<"a">>, unified |-> <<"u">>,
     pmm |-> <<"p">>, sched |-> <<"s", "c">>, nk_trampoline |-> <<"n">>,
     minilibc |-> <<"s">>, syscall |-> <<"y">>, kmap |-> <<"k">>, usermode |-> <<"m">>]

Default6 == {"pmm", "sched", "nk_trampoline", "minilibc", "syscall", "kmap"}
ModelBuilds == { Default6, Default6 \cup {"usermode", "nk_invariants_verify"} }

\* Lists of two names, one of them unknown to the registry, and the modes.
Names == {Spelling[n] : n \in Default6 \cup {"usermode"}} \cup {<<"z">>}
Values == {n \o <<",">> \o m : n, m \in Names}
             \cup {<< >>, <<"a">>, <<"u">>, <<"u", "u">>, <<",", "p">>, <<"p", ",">>,
                   <<"p", ",", "k", ",", "y">>}

\* The key among others, behind dashes, shortened, cut off, in quotes.
Lines ==
    {<<"t", "s", "=">> \o v : v \in Values}
    \cup { <<"-", "-", "t", "s", "=", "u">>,
           <<"l", "=", "D", " ", "t", "=", "k">>,
           <<" ", "a", "=", "k", " ", "t", "s", "=", "a">>,
           <<"t", "s", "=", "p", ",", "k", " ", "t", "=", "m">>,
           <<"t", "=", "m", " ", "t", "s", "=", "a">>,
           <<"t", "s", "=", "\"", "p", ",", " ", "y", "\"">>,
           <<"q", "=", "\"", "x", " ", "t", "s", "=", "p", "\"">>,
           <<"t", " ", "t", "s", "t", "=", "a", " ", "=", "p">>,
           <<"l", "=", "e", " ", "l", "=", "d", " ", "t", "s", "=", "p", ",", "y">>,
           <<"l", "=", "i", "n", "f", "o", "r", "m", " ", "q", "=">> }

LineInfos == {Placed(<<CmdTag(l), EndTag>>) : l \in Lines}

ModelInfos == MapInfos \cup LineInfos
Embedded == <<"q", "=", "\"", "x", " ", "y", "\"">>

----------------------------------------------------------------------------
W(w) == [word |-> w]
P(conv, format, args) == [conv |-> conv, format |-> format, args |-> args]

Numeric == { P("%d", <<"%", "d">>, <<W(w)>>) : w \in {7, 8, 15, 16} }
    \cup { P("%u", <<"%", "u">>, <<W(w)>>) : w \in {0, 15, 63} }
    \cup { P("%X", <<"%", "X">>, <<W(w)>>) : w \in {10, 16} }
    \cup { P("%ld", <<"%", "l", "i">>, <<W(w)>>) : w \in {0, 31, 32, 63} }
    \cup { P("%lu", <<"%", "l", "u">>, <<W(w)>>) : w \in {10, 63} }
    \cup { P("%lX", <<"%", "l", "X">>, <<W(w)>>) : w \in {31, 32} }
    \cup { P("%x", <<"%", "x">>, <<W(12)>>), P("%lx", <<"%", "l", "x">>, <<W(60)>>),
           P("%p", <<"%", "p">>, <<W(63)>>) }

\* Unknown conversions are printed as they are written.
Textual == { P("literal", <<"o", "k">>, << >>), P("literal", <<"\n">>, << >>),
             P("literal", <<"%", "l", "z">>, << >>), P("literal", <<"%", "0">>, << >>),
             P("%%", <<"%", "%">>, << >>), P("%c", <<"%", "c">>, <<[char |-> "c"]>>),
             P("%s", <<"%", "s">>, <<[text |-> <<"a", "b", "c">>]>>), P("%s", <<"%", "s">>, <<[text |-> << >>]>>),
             P("%s", <<"%", "s">>, <<NullString>>) }
AtTheEnd == { P("%", <<"%">>, << >>), P("literal", <<"%", "l">>, << >>) }

Parts == {<< >>} \cup {<<p>> : p \in Numeric \cup Textual \cup AtTheEnd}
    \cup {<<p, q>> : p \in Textual, q \in Textual \cup AtTheEnd}
    \cup {<<p, q>> : p \in Numeric, q \in {P("%d", <<"%", "d">>, <<W(9)>>), P("literal", <<"\n">>, << >>)}}

ModelMessages == {[level |-> 3, parts |-> s] : s \in Parts}
    \cup {[level |-> n, parts |-> <<P("literal", <<"o", "k">>, << >>)>>] : n \in 0..2}
=============================================================================
