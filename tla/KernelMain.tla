----------------------------- MODULE KernelMain -----------------------------
(***************************************************************************)
(* kernel_main, arch/x86_64/main.c, as the composition of what it calls on *)
(* the boot processor: the boot information and the physical memory        *)
(* manager, the command line, the log level and the tests.  The parts that *)
(* have modules of their own (slab, kmap, monitor, application processors) *)
(* are left to them.                                                       *)
(***************************************************************************)
EXTENDS Multiboot, Klog, Selftest

kernelVars == <<bootAll, current_level, logged, selfVars, stage>>

KMInit == MBInit /\ KlogInit /\ SelfInit /\ stage = "pmm"

mainVars == <<current_level, logged, selfVars, stage>>

(* pmm_init: the tag walk, and the memory manager as it is fed by it. *)
ParseStep == UNCHANGED <<mbi, pmmRest, mainVars>>
PmmStep == UNCHANGED <<mbVars, mainVars>>

\* The boot information is parsed, every region added, everything reserved.
PmmReady == mb = "done" /\ regions = << >> /\ addr >= end /\ reserves = << >>

(* pmm_init returns; device_init_all and multiboot_get_cmdline follow,      *)
(* which looks two keys up to show their values.                           *)
multiboot_get_cmdline ==
    /\ stage = "pmm" /\ PmmReady
    /\ value_buf' =
          Stored(Stored(value_buf, cmdline_get_value(kernel_cmdline, Spell["quote"])),
                 cmdline_get_value(kernel_cmdline, Spell["author"]))
    /\ stage' = "klog"
    /\ UNCHANGED <<bootAll, current_level, logged, configured, test_mode, selected,
                   tests_run_names, skip_cr3_switch, monitored, at, unified,
                   failures, asked, ran>>

(* klog_init. *)
InitKlog ==
    LET found == cmdline_get_value(kernel_cmdline, Spell["log"]) IN
    /\ stage = "klog" /\ stage' = "tests"
    /\ klog_init(found)
    /\ value_buf' = Stored(value_buf, found)
    /\ UNCHANGED <<bootAll, logged, configured, test_mode, selected, tests_run_names,
                   skip_cr3_switch, monitored, at, unified, failures, asked, ran>>

(* A message is logged, once the level is set. *)
Log(m) ==
    /\ stage = "tests" /\ logged = Nothing
    /\ klog_vprintf(m)
    /\ UNCHANGED <<bootAll, current_level, selfVars, stage>>

(* A step of the test framework. *)
TestStep == logged' = Nothing /\ UNCHANGED <<bootAll, current_level>>

KMNext ==
    \/ multiboot2_parse /\ ParseStep
    \/ ParseTag /\ ParseStep
    \/ EnterMap /\ ParseStep
    \/ ParseEntry /\ ParseStep
    \/ LeaveMap /\ ParseStep
    \/ AddRegion /\ PmmStep
    \/ AddBlock /\ PmmStep
    \/ mb = "done" /\ ReserveRegion /\ PmmStep
    \/ multiboot_get_cmdline
    \/ InitKlog
    \/ \E m \in Messages : Log(m)
    \/ test_framework_init(kernel_cmdline) /\ TestStep
    \/ SkipCall /\ TestStep
    \/ test_run_by_name /\ TestStep
    \/ RunInline /\ TestStep
    \/ InitMonitor(kernel_cmdline) /\ TestStep
    \/ EnterUnified /\ TestStep
    \/ SkipRound /\ TestStep
    \/ RunRound /\ TestStep
    \/ Finished /\ TestStep
    \/ stage = "off" /\ UNCHANGED kernelVars

KMSpec == KMInit /\ [][KMNext]_kernelVars

----------------------------------------------------------------------------
\* The words of a line whose format is the documented one: words that are
\* separated by blanks, each a key, "=" and a value without quotes.
Words(s) ==
    {<<i, Upto(s, i, {Blank}) - 1>> :
        i \in {j \in 1..Len(s) : s[j] # Blank /\ (j = 1 \/ s[j - 1] = Blank)}}

Undashed(s) == IF IsPrefix(<<"-", "-">>, s) THEN SubSeq(s, 3, Len(s)) ELSE s
Word(s, w) == Undashed(SubSeq(s, w[1], w[2]))

\* The words that give the key; and those that give a proper prefix of it.
Giving(s, key) == {w \in Words(s) : IsPrefix(key \o <<"=">>, Word(s, w))}
Shorter(s, key) ==
    UNION {Giving(s, SubSeq(key, 1, n)) : n \in 0..(Len(key) - 1)}

Keys == {Spell[x] : x \in {"tests", "test", "log", "quote", "author"}}

(***************************************************************************)
(* "Format: key1=value1 key2=value2" (arch/x86_64/multiboot2.c:40): on a    *)
(* line without quotes cmdline_get_value gives the value of the first word  *)
(* with the key, as much of it as the buffer takes, and none when there is  *)
(* none.  Asked of keys of which no word of the line gives a proper prefix: *)
(* the comparison of multiboot2.c:66-75 stops at the end of the word's key  *)
(* as well as at the end of the one asked for, and takes such a word.       *)
(***************************************************************************)
LookupFirst ==
    (mb = "done" /\ \A i \in 1..Len(kernel_cmdline) : kernel_cmdline[i] # Quote) =>
        \A key \in {x \in Keys : Shorter(kernel_cmdline, x) = {}} :
            LET hits == Giving(kernel_cmdline, key)
                first == CHOOSE w \in hits : \A v \in hits : w[1] <= v[1]
                word == Word(kernel_cmdline, first)
                value == SubSeq(word, Upto(word, 1, {"="}) + 1, Len(word))
            IN cmdline_get_value(kernel_cmdline, key) =
                   IF hits = {} THEN {} ELSE {Cut(value, VALUE_SIZE - 1)}

(***************************************************************************)
(* Only tests that the command line asked for when test_framework_init read *)
(* it are run, although the names are kept as pointers into the buffer of   *)
(* the last lookup; and when run_tests shuts the machine down itself, every *)
(* one of them has been run, those whose wrapper was not reached included.  *)
(* Excepted is a build with the user mode test whose command line also has  *)
(* a value for the key of test_usermode_prepare, which overwrites the list. *)
(* The check of the monitor's invariants runs unasked; the inline checks of *)
(* the memory manager run only with its test.                               *)
(***************************************************************************)
SelectionHonoured ==
    ("usermode" \notin configured \/ cmdline_get_value(kernel_cmdline, Spell["test"]) = {})
        => /\ \A n \in Done : n = "nk_invariants_verify" \/ TestOf(n) \in Chosen
           /\ (stage = "off" /\ unified > Rounds) => Chosen \subseteq Done
=============================================================================
