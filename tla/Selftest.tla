------------------------------ MODULE Selftest ------------------------------
(***************************************************************************)
(* The test framework, kernel/test.c, and the places of kernel_main and    *)
(* run_tests (arch/x86_64/main.c) from which tests are started.  A test    *)
(* passes, fails, or ends the machine itself: the user mode tests leave    *)
(* through sys_exit, the fault injection test through a fatal page fault.  *)
(***************************************************************************)
EXTENDS Cmdline, SequencesExt

CONSTANTS
    Builds,       \* sets of tests that may be compiled in (CONFIG_TESTS_*)
    Spell,        \* the keys, modes and names as character sequences
    MAX_TESTS     \* 16 in the kernel

VARIABLES
    configured,       \* the tests of this build
    value_buf,        \* the static buffer of cmdline_get_value
    test_mode,
    selected,         \* selected_test_names: offsets in value_buf
    tests_run_names,
    skip_cr3_switch,
    monitored,        \* the monitor's page table is in use
    at,               \* position in MainCalls
    unified,          \* position in the loop of test_run_unified
    failures,
    stage,            \* where kernel_main is
    asked,            \* history: the names as test_framework_init read them
    ran               \* history: the tests executed, in order

selfVars == <<configured, value_buf, test_mode, selected, tests_run_names, skip_cr3_switch,
              monitored, at, unified, failures, asked, ran>>

T(name) == [name |-> name, auto_run |-> TRUE]

test_registry ==
    SelectSeq(<<T("pmm"), T("slab"), T("spinlock"), T("timer"), T("nk_fault_injection"),
                T("boot"), T("smp"), T("pcd"), T("nk_invariants"),
                T("nk_readonly_visibility"), T("nk_trampoline"), T("sched"),
                T("minilibc"), [T("usermode") EXCEPT !.auto_run = FALSE],
                T("syscall"), T("nk_smp_monitor_stress"), T("kmap")>>,
              LAMBDA t : t.name \in configured)

Registered == {test_registry[i] : i \in 1..Len(test_registry)}
RegisteredNames == {t.name : t \in Registered}
AutoRun == {t.name : t \in {r \in Registered : r.auto_run}}

\* Two wrappers check something themselves, without a test of the registry.
Inline == {"nk_invariants_verify", "pmm_via_monitor"}
\* The name under which a wrapper asks whether it should run.
TestOf(n) == IF n = "pmm_via_monitor" THEN "pmm" ELSE n

\* The wrappers in the order in which kernel_main calls them; "monitor" is
\* where it prepares the user mode test and initialises the monitor.  A
\* wrapper of a test that is not compiled in is empty.
MainCalls ==
    SelectSeq(<<"pmm", "slab", "kmap", "sched", "monitor", "nk_invariants_verify",
                "pmm_via_monitor", "nk_trampoline", "spinlock",
                "timer", "nk_fault_injection", "boot", "smp", "pcd", "nk_invariants",
                "nk_readonly_visibility", "nk_smp_monitor_stress", "minilibc">>,
              LAMBDA n : n = "monitor" \/ TestOf(n) \in configured)

\* test_slab, test_kmap and test_sched look whether their test has been run.
Direct == {"slab", "kmap", "sched"}

Outcomes(n) ==
    IF n \in {"usermode", "syscall", "nk_fault_injection"} THEN {"ends", "fails"}
                                                          ELSE {"passes", "fails"}

SelfInit ==
    /\ configured \in Builds
    /\ value_buf = [i \in 1..VALUE_SIZE |-> NUL]
    /\ test_mode = "NONE" /\ selected = << >> /\ tests_run_names = << >>
    /\ skip_cr3_switch = FALSE /\ monitored = FALSE
    /\ at = 1 /\ unified = 1 /\ failures = 0
    /\ asked = {} /\ ran = << >>

----------------------------------------------------------------------------
(* test_framework_init: find tests=, tell the modes apart, split the list. *)
test_framework_init(line) ==
    LET found == cmdline_get_value(line, Spell["tests"])
        buf == Stored(value_buf, found)
        starts == SetToSortSeq(Selected(buf), <)
        names == [i \in 1..Len(starts) |-> StringAt(Terminated(buf), starts[i])]
    IN /\ stage = "tests" /\ stage' = "main"
       /\ CASE found = {} ->
                 test_mode' = "NONE" /\ UNCHANGED <<value_buf, selected, asked>>
            [] found = {Spell["all"]} ->
                 test_mode' = "ALL" /\ value_buf' = buf /\ UNCHANGED <<selected, asked>>
            [] found = {Spell["unified"]} ->
                 test_mode' = "UNIFIED" /\ value_buf' = buf /\ UNCHANGED <<selected, asked>>
            [] OTHER ->
                 /\ test_mode' = IF starts = << >> THEN "NONE" ELSE "CSV"
                 /\ value_buf' = Terminated(buf)
                 /\ selected' = starts
                 /\ asked' = {names[i] : i \in 1..Len(names)}
       /\ UNCHANGED <<configured, tests_run_names, skip_cr3_switch, monitored, at, unified,
                      failures, ran>>

SelectedName(i) == StringAt(value_buf, selected[i])

test_should_run(n) ==
    \/ test_mode = "ALL" /\ n \in AutoRun
    \/ test_mode = "CSV" /\ \E i \in 1..Len(selected) : SelectedName(i) = Spell[n]

test_did_run(n) == \E i \in 1..Len(tests_run_names) : tests_run_names[i] = n

\* Mutant: nothing is recorded.
test_mark_run_lost(n) == UNCHANGED tests_run_names

(* test_mark_run: a full table takes no more names. *)
test_mark_run(n) ==
    tests_run_names' = IF Len(tests_run_names) < MAX_TESTS
                       THEN Append(tests_run_names, n) ELSE tests_run_names

(* system_shutdown does not return. *)
system_shutdown == stage' = "off"

----------------------------------------------------------------------------
\* These three are called on the monitor's page table only.
Reached(n) == n \in Inline \cup {"nk_trampoline"} => monitored

\* Mutant: the wrapper asks only whether the test has run.
Wanted_unasked(n) == Reached(n) /\ ~test_did_run(n)
Wanted(n) ==
    /\ Reached(n)
    /\ n # "nk_invariants_verify" => test_should_run(TestOf(n))
    /\ n \in Direct => ~test_did_run(n)

(* A wrapper that has nothing to do. *)
SkipCall ==
    /\ stage = "main" /\ at <= Len(MainCalls) /\ MainCalls[at] # "monitor"
    /\ ~Wanted(MainCalls[at])
    /\ at' = at + 1
    /\ UNCHANGED <<configured, value_buf, test_mode, selected, tests_run_names, skip_cr3_switch,
                   monitored, unified, failures, stage, asked, ran>>

(* A wrapper that runs its test, itself or through test_run_by_name: the    *)
(* first failure shuts the machine down.                                   *)
test_run_by_name ==
    /\ stage = "main" /\ at <= Len(MainCalls) /\ MainCalls[at] # "monitor"
    /\ MainCalls[at] \notin Inline /\ Wanted(MainCalls[at])
    /\ test_mark_run(MainCalls[at])
    /\ ran' = Append(ran, MainCalls[at])
    /\ \E o \in Outcomes(MainCalls[at]) :
          /\ failures' = IF o = "fails" THEN failures + 1 ELSE failures
          /\ IF o = "passes" THEN at' = at + 1 /\ UNCHANGED stage
                             ELSE system_shutdown /\ UNCHANGED at
    /\ UNCHANGED <<configured, value_buf, test_mode, selected, skip_cr3_switch, monitored,
                   unified, asked>>

(* test_nk_invariants_verify and test_pmm_via_monitor: nothing is marked,   *)
(* and nothing they find shuts the machine down.                           *)
RunInline ==
    /\ stage = "main" /\ at <= Len(MainCalls)
    /\ MainCalls[at] \in Inline /\ Wanted(MainCalls[at])
    /\ ran' = Append(ran, MainCalls[at])
    /\ at' = at + 1
    /\ UNCHANGED <<configured, value_buf, test_mode, selected, tests_run_names, skip_cr3_switch,
                   monitored, unified, failures, stage, asked>>

\* The value is "usermode", or starts with it and a blank.
IsUsermode(v) ==
    LET u == Spell["usermode"]
    IN IsPrefix(u, v) /\ CharAt(v, Len(u) + 1) \in {NUL, Blank}

(* test_usermode_prepare, and monitor_init unless that forbids it. *)
InitMonitor(line) ==
    LET found == IF "usermode" \in configured
                 THEN cmdline_get_value(line, Spell["test"]) ELSE {}
    IN /\ stage = "main" /\ at <= Len(MainCalls) /\ MainCalls[at] = "monitor"
       /\ value_buf' = Stored(value_buf, found)
       /\ skip_cr3_switch' = \E v \in found : IsUsermode(v)
       /\ monitored' \in IF skip_cr3_switch' THEN {FALSE} ELSE BOOLEAN
       /\ at' = at + 1
       /\ UNCHANGED <<configured, test_mode, selected, tests_run_names, unified, failures,
                      stage, asked, ran>>

----------------------------------------------------------------------------
(* run_tests comes to test_run_unified. *)
EnterUnified ==
    /\ stage = "main" /\ at > Len(MainCalls)
    /\ stage' = "unified"
    /\ UNCHANGED selfVars

\* The loop of test_run_unified: over the registry, or over the selection.
Rounds ==
    CASE test_mode \in {"ALL", "UNIFIED"} -> Len(test_registry)
      [] OTHER -> Len(selected)

\* The test of a round that has to be run, as a set of at most one.
Due(i) ==
    IF test_mode \in {"ALL", "UNIFIED"}
    THEN {n \in {test_registry[i].name} \cap AutoRun : ~test_did_run(n)}
    ELSE {n \in RegisteredNames : Spell[n] = SelectedName(i) /\ ~test_did_run(n)}

Unknown(i) ==
    test_mode = "CSV" /\ \A n \in RegisteredNames : Spell[n] # SelectedName(i)

(* A round of the loop that runs nothing; an unknown name is a failure. *)
SkipRound ==
    /\ stage = "unified" /\ unified <= Rounds /\ Due(unified) = {}
    /\ failures' = IF Unknown(unified) THEN failures + 1 ELSE failures
    /\ unified' = unified + 1
    /\ UNCHANGED <<configured, value_buf, test_mode, selected, tests_run_names, skip_cr3_switch,
                   monitored, at, stage, asked, ran>>

(* A round that runs its test: failures are counted, and the loop goes on. *)
RunRound ==
    /\ stage = "unified" /\ unified <= Rounds
    /\ \E n \in Due(unified), o \in {"passes", "fails", "ends"} :
          /\ o \in Outcomes(n)
          /\ ran' = Append(ran, n)
          /\ failures' = IF o = "fails" THEN failures + 1 ELSE failures
          /\ IF o = "ends" THEN system_shutdown /\ UNCHANGED unified
                           ELSE unified' = unified + 1 /\ UNCHANGED stage
    /\ UNCHANGED <<configured, value_buf, test_mode, selected, tests_run_names, skip_cr3_switch,
                   monitored, at, asked>>

(* The loop is over: run_tests shuts the machine down. *)
Finished ==
    /\ stage = "unified" /\ unified > Rounds
    /\ system_shutdown
    /\ UNCHANGED selfVars

----------------------------------------------------------------------------
\* The tests that the command line asks for.
Chosen ==
    CASE test_mode \in {"ALL", "UNIFIED"} -> AutoRun
      [] test_mode = "CSV" -> {n \in RegisteredNames : Spell[n] \in asked}
      [] OTHER -> {}

\* The list names no test twice.
NoRepeats ==
    \A i, j \in 1..Len(selected) : SelectedName(i) = SelectedName(j) => i = j

(***************************************************************************)
(* Between the wrappers, which mark what they run, and test_run_unified,    *)
(* which marks nothing and is the second place to start most tests, no      *)
(* test is run twice, for every mode, list without repetitions, outcome of  *)
(* the tests and outcome of monitor_init.  The two inline checks are run at *)
(* most once as well.                                                       *)
(***************************************************************************)
RunOnce == NoRepeats => \A i, j \in 1..Len(ran) : ran[i] = ran[j] => i = j

Done == {ran[i] : i \in 1..Len(ran)}
=============================================================================
