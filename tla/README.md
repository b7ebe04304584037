# A TLA+ model of the Emergence kernel

Emergence is a small x86-64 kernel for several processors, with a nested-kernel monitor: a trusted part of the kernel
that owns the page tables, and an outer part that sees them read-only. The modules here are translated from the C and
assembly source. TLC checks small instances; TLAPS proves the central facts for every instance.

Contents: [parts](#the-parts-and-their-modules) · [state and actions](#how-the-modules-correspond-to-the-code) ·
[runs](#runs) · [fairness](#fairness) · [proofs](#proofs) · [only model-checked](#only-model-checked) ·
[disagreements](#where-code-and-comments-disagree) · [not modelled](#not-modelled)

Paths below are relative to `src/`. To repeat a run: `tlc -workers 2 -config <run>.cfg <module>`; to repeat a proof:
`tlapm <module>.tla`.

## The parts and their modules

| part | source | module |
|---|---|---|
| spin locks, interrupt nesting | arch/x86_64/spinlock_arch.h, idt.h, smp.c | IrqLock, Mutex, IrqLockProofs |
| read-write locks | arch/x86_64/spinlock_arch.h | RwLock |
| physical memory manager | kernel/pmm.c | Pmm, PmmProofs |
| boot information, command line | arch/x86_64/multiboot2.c | Multiboot, Cmdline |
| formatting and log | lib/minilibc/printf.c, kernel/klog.c | Printf, Klog |
| test framework | kernel/test.c, main.c | Selftest |
| kernel_main, from boot information to shutdown | arch/x86_64/main.c | KernelMain |
| start-up of the processors | arch/x86_64/smp.c, apic.c, main.c, boot assembly | SmpBoot, SmpBootProofs |
| linked lists | kernel/list.h | List, SlabProofs |
| threads and scheduler | kernel/thread.c, scheduler.c, arch/x86_64/timer.c | Scheduler, SchedulerProofs |
| system calls, ring 3 | arch/x86_64/syscall.c, syscall_entry.S | Syscall, SchedulerProofs |
| user memory access | arch/x86_64/uaccess.c | UserAccess, SchedulerProofs |
| saving and restoring registers | isr.S, syscall_entry.S | Registers |
| context switch | arch/x86_64/context.S | Context |
| slab allocator | kernel/slab.c | Slab, SlabProofs |
| page tables, kernel mappings, demand paging | kernel/kmap.c | PageTable, Kmap |
| nested-kernel monitor, page control data, gate | kernel/monitor/monitor.c, kernel/pcd.c, monitor_call.S | Monitor, MonitorProofs |
| serial console, power-off | serial_driver.c, power.c | Console, Drivers, DriversProofs |
| device framework | kernel/device.c | Device, Drivers |
| processes, user address spaces, ... | see [not modelled](#not-modelled) | none |

How they interact. `kernel_main` runs on the boot CPU (BSP): it parses the boot information, which fills the physical
memory manager (PMM); it sets up slabs, page control data (PCD) and the monitor, whose tables come from the PMM and are
typed in the PCD; it starts the application processors (APs); it starts the scheduler; and it shuts down. Every
component protects itself with spin locks, most of them through the `irqsave` layer that counts nesting per CPU. The
slab allocator takes pages from the PMM, and kernel mappings take structures from the slab allocator and pages from
the PMM. Each of these boundaries is modelled by what the callee does for the caller (a page or none; a structure or
none), so that the modules can be checked one at a time. Four compositions are modelled in full:

- KernelMain: the parser calls `pmm_add_region` in the middle of its walk, the log level and the tests come from the
  command line it has found, and all lookups share one static buffer.
- Syscall: system calls, ticks and threads share the scheduler, the boot stack and the registers.
- Drivers: the console begins to print in the state in which `serial_driver_init` leaves the devices.
- Slab and Scheduler use List's links, because `slab_free` and `schedule` look at the links themselves.

## How the modules correspond to the code

Names of actions are the functions' names. A function that is atomic for the rest of the system (under its lock, with
interrupts off) is one action; a function that lets go of a lock or reads and writes unprotected memory in between is
several, named for what they do. PROJECT.json maps every definition to its lines.

**IrqLock.** Each CPU has a task context and, on top of it, an interrupt context. A context executes a *lock path*:
the locks a kernel function takes, outermost first, each with its primitive (`plain`, `irq`, `irqsave`, `try`).
`Call` and `Interrupt` begin a path, `Instruction` is one step of a primitive: `irq_save` (its load, increment and
`cli` are separate, since the depth is a plain `int`), the test-and-set, the store that unlocks, `irq_restore` and
`irq_disable`. `current_cpu_index` is one variable for all CPUs, as in smp.c, and `ap_start` overwrites it.

**Mutex** is the abstract specification: each lock has at most one owner, only its owner releases it.

**RwLock.** One counter; both lock operations return after one attempt, as the code does.

**Pmm.** A block is `[base, order]`. The free lists and the allocated list are sets of blocks: which block of an order
is taken is left open. Descriptors are only counted, since the code never gives one back; running out of them is
modelled in every place where the code asks for one. `split_block` and `coalesce_block` take one step per iteration of
their loops. `coalesce_block` gives up its search for the buddy after `MAX_SCAN` entries of the free list (1000 in
pmm.c:146): when a list is longer, `FreeDone` may leave a buddy that is free unmerged, and the history variable
`skipped` remembers the block. `MarkPage` is one iteration of the loop that marks the pages of a new block, after the lock
has been released; other CPUs allocate, free and type their pages (`pcd_set_type`) between two of them. `AddRegion`/`AddBlock`
and `ReserveRegion` are the boot-time calls.

**Multiboot** extends Pmm: `multiboot2_parse`, `ParseTag` (with the tests for end, size and unknown tags), `EnterMap`,
`ParseEntry`, `LeaveMap`, `Finish`, the default map, and the reservation of the boot information. Alignment arithmetic
is modulo `WORD`.

**Cmdline** has the string functions as operators on sequences of characters, cut off where the buffers are:
`parse_cmdline`, `cmdline_get_value` and `parse_test_csv`. **Printf** is `vsnprintf`: what the loop over the format
emits (`Characters`), put into the buffer one `emit_char` at a time. `int` and `long` have INT_BITS and LONG_BITS bits.
**Klog** chooses the level and makes the three strings of a line. **Selftest** holds the mode, the selected names as
offsets into the buffer of the last lookup (the code keeps pointers), the record of tests that have run, the wrappers
in the order in which `kernel_main` calls them, and the loop of `test_run_unified`. A test passes, fails, or ends the
machine. The two checks that `kernel_main` makes inline on the monitor's tables (`test_nk_invariants_verify`,
`test_pmm_via_monitor`) mark nothing and shut nothing down (`RunInline`). **KernelMain** composes them.

**SmpBoot.** The BSP goes through INIT, de-assert, SIPI, SIPI and the wait for each AP; each may time out, and an
interrupt that timed out may still arrive. An AP goes through the trampoline, takes an index, sets up its stack and
per-CPU data, and reports ONLINE and READY. An AP may be arbitrarily slow, so it may wake while the BSP is starting
the next one.

**List** is `kernel/list.h` as functions on a heap of links, the assignments in the source's order.

**Scheduler.** A *flow* is a stack that executes; `stk` holds its activation records (at most a kernel call or a
program, and the timer handler on top of it). `context_switch` is modelled by its contract: it saves the running flow
into the thread's context and resumes the other. `schedule` is four steps (pick, requeue, set current, switch), between
which a thread could be interrupted; that it is not, because the timer is still in service, is a result and not an
assumption (`Service` in SchedulerProofs). `nr_running` is left out: nothing modelled reads it, and it only grows apart
from the queue. **context.S does not meet that contract** (run
`context`): the run `sched` and the proofs of SchedulerProofs are about scheduler.c, thread.c and syscall.c, on a switch that
does what its comments say.

**Syscall** extends Scheduler. The program of the user mode or of the syscall test is entered from the boot flow. A
call or an interrupt from ring 3 starts at the top of the boot stack, whatever is there. The program loads fifteen
different values into its registers before each call, and `reg` follows them through `syscall_entry`, the handler
(which leaves only the callee-saved ones alone) and `sysretq`. The arguments of `write` and `wait` are any words of a
small address space. **UserAccess** has the range checks with sums modulo `WORD`. **Registers** has the push and pop
lists of the assembly entries.

**Context** is context.S instruction group by instruction group, on contexts whose words say what they are.

**Slab.** One cache. Allocation from partial and free slabs and `slab_free` are single steps under the cache's lock;
`slab_new`, and the statistics it updates, run without it, so their loads and stores are separate. An empty free list
makes `list_entry` answer the address of the list's header, `Header`: the model can hand it out, as the code would.

**PageTable** holds the walk (`kmap_map_page`, creating, rolling back and pruning tables) as operators on a record;
**Kmap** is the state machine over it: creation, splitting, merging, changing flags, reference counts, destruction,
mapping and unmapping page by page, and the demand fault, each divided at the places where `kmap_lock` is let go. Init is
the state after `kmap_init`: its two regions are on the list, over tables in which boot.S has mapped them with entries of
2 MB (`Large`). kmap.c does not tell such an entry from one that leads to a table. Splitting, merging, looking up and
dropping those regions work as for others and leave the entry alone; unmapping a page or changing flags reads the mapped
memory as if it were a table (`Touch`), and either finds nothing there or overwrites it. In the second case `wild` is set
and the model stops: what follows depends on what was overwritten. The type and the monitor's protection of a
region, which `kmap_merge` compares too, are left out: callers are taken to ask for regions that agree in them.

**Monitor.** `mem` is the free pages, the PCD, the tables behind each entry of the shared page tables, the page with its
writable bit behind each address, and what the 4 KB table of the first 2 MB makes writable. Boot is `pcd_init`,
`monitor_init` with its allocations (each of which may find memory exhausted), the typing and protecting of the tables, the
loop that makes the boot stack writable, and the read-only view page by page. The stack lies above the first 2 MB, so that
loop indexes beyond its table (monitor.c:602-617): `StackFix` is the pages it reaches, and a word there is overwritten or
not. Afterwards each CPU calls the monitor, through the gate (stack switch, CR0.WP cleared, the call, everything restored)
or directly when it is inside already, for every operation that `monitor_call_handler` dispatches. The handler does not
check its arguments, so callers free, retype and map *any* page, tables and mapped pages included, with any type
(`Requests`). Two variables keep apart what the code still guarantees then:

- `mem.loose` is the pages that a caller has freed or retyped although it did not hold them or had them mapped writable,
  or mapped while they were free. The properties claim nothing of these pages, and everything of the others.
- `wild` is set when memory is written through a table that is none: a new table is made of a used page, which is not
  cleared, and its old contents are taken for entries (monitor.c:920); an entry of 2 MB is taken for one that leads to a
  table; a page of the monitor's structures is given out or mapped writable and may be overwritten; a failed
  monitor has no tables. Nothing is known of memory from then on; only the gate is followed (`Astray`), so GateBalanced
  is claimed there too.

**Console.** The serial lock, the three strings of a log line, the UART's holding and shift
registers, `serial_flush` and `system_shutdown`. **Device.** Registration, matching by mask, probing, the bubble sort
and initialisation, with each callback's answer left open where no driver of the tree fixes it. **Drivers** composes
the two.

## Runs

| run | module | properties |
|---|---|---|
| irqlock | MCIrqLock | NoSelfDeadlock, InterruptsRestored, ImplementsMutex, InterruptsEventuallyEnabled, InnermostReleased |
| rwlock | RwLock | WriterExclusive (violated) |
| pmm_buddy | MCPmm | BlocksDisjoint, PagesConserved, FullyCoalesced, FreshPagesPrivate, OperationsReturn |
| boot | MCKernelMain | MapManaged, LookupFirst, LineRendered, RunOnce, SelectionHonoured |
| smp_boot | SmpBoot | PrivateCpus, ReadyTruthful, BootCompletes |
| sched | MCSyscall | OwnStack, TerminatedStaysOff, LockReleased, OnlyUserMemory, WritePrinted, CallPreserves, UserResumes |
| isr | MCSyscall | InterruptTransparent (violated) |
| context | Context | SwitchResumes (violated) |
| slab | MCSlab | ObjectsAccounted, SlabsFiled |
| kmap | MCKmap | FramesConserved, RegionsDisjoint, RefsExact, PagesInRegions, MapAllOrNothing |
| monitor | MCMonitor | ViewComplete, TablesTyped, WritableIsOuter, GateBalanced |
| drivers | MCDrivers | InitOrdered, PutsWhole, ShutdownComplete, PowersOff |

What they show, and why their bounds are enough:

- **irqlock** (48 031 states): two machines. One has a single CPU with interrupts, four of the
  kernel's locks (run queue, drivers, devices, all threads), and the paths the kernel really takes plus the `irq` and
  `try` forms that the tests take. The other has two CPUs in the nested driver/device path and `try`, without handlers.
  At most two locks are on a path, which is the kernel's maximum. On the single CPU a handler never spins on a lock
  that the interrupted code holds, and interrupts are enabled outside all sections, and again in the end; the locks
  implement Mutex; an innermost lock is always given back. Two CPUs show every race for one lock; a third adds only a further
  waiter.
- **rwlock**: three CPUs, counter at most 2 in magnitude. A writer shares the lock with others.
- **pmm_buddy** (185 251 states): two CPUs, orders 0 to 2, four descriptors (so that splitting runs out of them), a search of
  one list entry (so that it gives up in lists of two), two maps, two-byte pages so that partial pages occur, with and
  without a reservation. No two blocks overlap; no page disappears, except those whose descriptor could not be had; buddies
  that are both free stay apart only if the search for one of them gave up, which in the kernel takes a list of more than 1000
  blocks; an allocated page is private to the kernel when its caller sees it, and the marking loop takes away no type that
  the owner of another page has set; every call returns. Order 2 has a block that splits twice and merges twice: higher
  orders repeat the loop.
- **boot** (53 990 states): boot informations without a map, with one or several ranges, unaligned ends, ranges of no
  whole page, reserved ranges, an oversized tag or a missing end tag, and four lists of reservations, with two-byte pages and
  WORD 64; 81 command lines (every pair of eight names, one of them unknown, the modes, empty and too many names, dashes,
  quotes, prefixes of keys, values and a line that are cut off) for buffers of 13 and 6 characters; two builds (with and
  without the user mode test); messages of up to two directives, shorter and longer than a buffer of 6, with 4-bit `int`
  and 6-bit `long` so that the smallest and largest numbers occur. Only whole pages of the available ranges are managed,
  and in the end all of them, or those of the default map; this is claimed for maps whose available ranges reach the next
  page boundary, since the length of a shorter one wraps (below). A key's value is that of the first word that gives it, on
  lines without quotes and for keys of which no word gives a proper prefix; what happens to the others is below. A line is
  what its format means, cut to the buffer, and the count is that of the whole text. No test of a
  list without repetitions runs twice. Only tests that were asked for run, and all of them when `run_tests` shuts the
  machine down itself; excepted is a build with the user mode test whose command line has a value for `test`, which
  overwrites the list. The wrappers record at most five tests here, as many as the table takes; the kernel has fifteen
  wrappers and sixteen places.
- **smp_boot** (48 944 states): four CPUs, as many as the kernel supports, under any timeouts. No two CPUs share an index,
  a stack or per-CPU data; READY is only reported by a CPU that is; the BSP always gets through.
- **sched** (74 634 states): three threads and idle; a program whose address space has 32 addresses, of which 4 to 15 are
  the user's, and a write buffer of three characters. Every thread runs on its own stack; a terminated thread is not
  resumed; `all_threads_lock` is not left behind by a thread that cannot run again; a call reads user memory only,
  whatever address and length it is given; a write prints its own bytes; a call preserves the callee-saved registers;
  and the syscall test's program is always resumed. Three threads suffice for one running, one queued and one pushed
  out of the queue. `sys_exit` switches the machine off, so deadlock is not checked.
- **isr**: the same instance; the first interrupt that returns to the program has exchanged its registers.
- **context**: two threads; the first switch.
- **slab** (4 277 states): two CPUs, three pages, two objects per slab: each slab passes through empty, partial and full,
  and each list can have neighbours on both sides. No object is given out twice or lost, and each slab is on the list where it belongs.
- **kmap** (715 031 states): one CPU, three structures, of which the regions of `kmap_init` have two at the start (dropping or
  merging frees them), pages below, between and above them that share tables at some levels and not at others, tables of
  two entries, five frames, one fewer than the pages asked for and their tables need, so that every level can fail to be
  allocated. No frame is lost, no empty table stays, regions are disjoint and their counts exact, mapped pages lie in a
  region and carry its flags, and mapping a region is all or nothing; the statements about pages hold until memory is overwritten
  through an entry of 2 MB. Three structures make no difference to a list operation, which looks at neighbours only.
- **monitor** (288 227 states): one CPU, 18 pages, six amounts of memory (from none to more than enough), given from either
  end, tables of 18 entries, two addresses to map beside those of the first 2 MB and of a 2 MB entry; callers name two
  pages, of which one may become loose (MaxLoose). These two are, depending on the amount of memory, free, held, mapped,
  tables or not managed. The monitor's pages are visible read-only, the pages used as tables are typed as such, no page
  of the monitor is mapped writable unless it is loose, and the gate leaves stack and CR0 as it found them. A second
  loose page would add another exception of the same kind; the proofs have no such bound.
- **drivers** (67 479 states): the two drivers of the tree and two that match several or part of an identifier; a table of
  three, so that it overflows; then two CPUs and one message each, and that of the shutdown, of three shapes (a line, one with
  an empty text, a hexadecimal number, which locks for each digit). Every probed device is initialised once, in priority
  order, ties in registry order. Strings are never torn apart, what the boot CPU printed is out before the power goes,
  and the power does go. The machine switches off at the end, so deadlock is not checked.

Each property has a mutant in PROJECT.json: a plausible slip in the modelled code (a dropped guard, a swapped order, a
missing reset) under which TLC finds the property violated. The mutants are the definitions with a suffix, beside the
definition they change.

## Fairness

- IrqLock: a CPU keeps executing the context it is in and returns from handlers (weak fairness of `Instruction` and
  `Iret`). Nothing is assumed of interrupts or of contended locks: a test-and-set lock is not fair, so
  InnermostReleased speaks of releasing and not of acquiring.
- Pmm: a CPU inside an operation goes on; the loops hold a lock and do not wait.
- SmpBoot: only the BSP, since every one of its loops counts down. APs may stop anywhere.
- Syscall: the CPU executes what it has begun (weak fairness of `KernelStep`, which waits for nothing but the plain
  lock), and a thread that runs again and again exits in the end (strong fairness of `ThreadExits`), since the thread
  functions of the tree return. Nothing is assumed of ticks, nor of the program.
- Drivers: CPUs, UART and the boot flow of `kernel_main` go on. Messages are bounded (MaxMessages), as a spinning lock
  need not be fair to the shutting-down CPU.

## Proofs

About 9 000 obligations, checked by Z3, Zenon and LS4. The theorems assume the named ASSUMEs of the modules (types of the
constants, distinctness of names) and, where it is said below, a hypothesis that the theorem states. Every inductive
invariant was checked by TLC on the instance of the run before it was proved.

- **SpinLockSafety** and **SpinLockRefinement** (IrqLockProofs): for any CPUs, locks, paths and handlers,
  `Spec => []MutualExclusion`, and the locks implement Mutex, an owner being the context whose path holds the lock.
  MutualExclusion (which includes that a lock's word is 1 exactly while it is held) is not inductive alone: a
  release by a context that holds nothing would break it, so the invariant adds LockDiscipline (contexts are well
  nested: an unlock runs only with a lock held, an idle context holds none) and the types. `StepKinds`
  reduces the many steps of Next to four: take a lock, give a lock, begin a path, and move without touching the locks.
- **HandlerNeverSpins** and **InterruptsComeBack** (IrqLockProofs): NoSelfDeadlock and InterruptsRestored under
  MaskingDiscipline: one CPU, and handlers take only locks that tasks take with interrupts off. The ASSUME KernelPathsMask
  of MCIrqLock has TLC confirm that the kernel's paths are of that kind. The invariant UniInv says that there is no other CPU
  (Alone), that the nesting depth is the number of sections the two contexts are in, the pending increment or decrement
  included (Depth), and that the interrupt flag follows from the depth and the place in the code (Flags).
- **CpusArePrivate, ReadyIsTruthful, NoneTurnedAway** (SmpBootProofs): for any number of CPUs and any timeouts. No index,
  stack or per-CPU area is shared: indices given out are below `next_cpu_id` and distinct (the increment is atomic), an AP's
  stack and area follow its index, and the BSP resets only APs it has not started before. `next_cpu_id`
  is one more than the number of APs that have an index (Counting), so no index exceeds the table and no AP is turned away;
  with distinct indices below it, READY is written to a slot only by the AP that has it, and `ready_cpus` counts them.
- **PushFrontSound, PushBackSound, RemoveSound** (SlabProofs): the operations of list.h keep the two directions of all
  links in agreement and leave the other lists alone. What a list *contains* would need induction along the list; the
  label lemmas avoid it: a labelling of cells that is constant along links says which list a cell is on, and each
  operation changes it in one cell.
- **SlabSafety** (SlabProofs): with two or more objects per slab, for any CPUs and pages, an object is never given out twice nor
  lost, `inuse` is exact and the links agree. The invariant files every slab under a label (Filing): a slab on the
  partial list has a free object and one on the free list has all of them. This is what makes the unguarded
  `list_pop_front` of `slab_alloc` sound, and it is false for slabs of one object, hence the hypothesis.
- **ProbeSound** (SchedulerProofs): a range that `probe_user_read` accepts lies in user memory byte by byte, for every word
  size and every limit; the test for wrap-around is what makes the test of the end sound. **UserMemoryOnly** carries it to
  every call (`OnlyUserMemory`); its invariant adds that the arguments are words.
- **StacksOwned** and **LockNeverLeft** (SchedulerProofs): for any number of threads, OwnStack and LockReleased. OwnStack is
  not inductive: StackInv adds where suspended flows stand, that only the idle thread takes the boot stack, what
  `thread_create` and `schedule` hold in their local variables, that `all_threads_lock` is held by the running flow only,
  and Service: a thread runs between the tick that switched to it and the EOI of that tick, so only the idle loop, the
  boot code or the program is ever interrupted; and `sys_yield` finds its own thread in the queue or none.
- **TerminatedForGood** (SchedulerProofs): TerminatedStaysOff, from StackInv and QueueInv. Since `scheduler_add_thread`
  passes its arguments the wrong way round, the queue holds at most one thread (Linked), which is ready (Queued), and a
  terminated thread is on its way out (Alive).
- **NoPageTwice, NoPageLost, FreshlyMarked** (PmmProofs): BlocksDisjoint, PagesConserved and FreshPagesPrivate, for any
  number of CPUs, descriptors and reservations, orders up to 9 (the kernel's limit; the powers of two are computed one by
  one) and maps whose regions do not overlap (RegionsApart). The invariant has three parts. Memory: blocks are aligned to their
  size, free and allocated blocks and the one in hand are apart, and together they are the managed pages, less what the
  shortage of descriptors has cost. Locking: only the holder of the lock has a block in hand. Booting: while regions are
  added or reserved no CPU allocates, and the region in progress is disjoint from the blocks made before.
  FreshlyMarked adds Marking: each loop of `pmm_alloc` has marked the first pages of an allocated block that no other loop
  is at.
- **MergingComplete** (PmmProofs): FullyCoalesced, for any limit of the search, and for maps of at most one region and no
  reservation (PlainMaps), since neither `pmm_add_region` nor `pmm_reserve_region` merges. The invariant Merged adds that
  the blocks that `pmm_add_region` makes are as large as their alignment and the end of the region allow (Greedy), so no
  two of them are halves of one block, and that while a block is in hand the others have no free buddy but for those in
  `skipped`.
- **GateKept** (MonitorProofs): GateBalanced for any number of CPUs and any nesting of calls; the invariant Gates says
  what WP, the stack and their saved copies are outside the gate and inside it.
- **TablesStayTyped, OnlyOuterWritable, ViewStaysComplete** (MonitorProofs): for any amount of memory, entries and
  addresses, any requests and any number of loose pages, with one CPU: all CPUs share one monitor stack, so with more the
  calls disturb each other. The invariant says, phase by phase of `monitor_init` and of each call, which pages are tables, that
  tables in use are neither free nor shared, that tables and mapped pages carry their types, and how far the protection
  and the view have come, each for the pages that are not loose. It is needed because a walk of `monitor_map_page`
  allocates after the type has been checked: what keeps the page checked from becoming a table is that it is not free, or is
  loose (Mapping).
- **StringsWhole** and **OutputComplete** (DriversProofs): PutsWhole and ShutdownComplete for any CPUs, messages and
  lengths. The invariant ConsoleInv adds that the lock word is 1 exactly while one CPU is inside, and that no other CPU prints
  before `serial_unlock` (so that the unconditional unlock opens nothing); that a CPU in the middle of a string printed
  by `serial_puts` has the lock, and the last character sent is the one before its next; and that after the flush the
  registers hold none of the boot CPU's characters.

The proofs about threads rest on the contract of `context_switch`, not on context.S.

## Only model-checked

- Liveness (InterruptsEventuallyEnabled, InnermostReleased, OperationsReturn, BootCompletes, UserResumes, PowersOff): the
  prover has no reasoning for fairness.
- What loops and recursive functions compute on data, for which it has no induction: MapManaged, LookupFirst, LineRendered,
  RunOnce and SelectionHonoured (parser, command line, formatting, lists of tests), InitOrdered (the bubble sort),
  SlabsFiled (which cells a list contains).
- WritePrinted and CallPreserves of Syscall, which follow values through a copy loop and the register lists of the assembly.
- FramesConserved, RegionsDisjoint, RefsExact, PagesInRegions and MapAllOrNothing of Kmap.

## Where code and comments disagree

Three disagreements are runs of their own.

- **rwlock**: `arch_spin_read_lock` and `arch_spin_write_lock` (arch/x86_64/spinlock_arch.h:172, 201) return from inside
  the retry loop, so a failed attempt counts as an acquisition, while include/spinlock.h:150 says "Exclusive access - no
  readers or other writers allowed."
- **isr**: `timer_isr` pops the registers in the order in which it pushed them (arch/x86_64/isr.S:124), while its comment
  says "reverse restore" (isr.S:95).
- **context**: `context_switch` loads the stack pointer through `rsi` after it has restored `rsi`
  (arch/x86_64/context.S:115), and the saved `rip` is not used, while context.S:64 says "when we switch back to this
  context, we'll return to the caller of context_switch()".

The following were met while modelling. Those in the first table are stated as properties in the module named, which TLC
refutes when they are added to the run's configuration; they are kept out of the runs.

| property | what the code does |
|---|---|
| Pmm!FreePagesExact | an allocation does not reduce free_pages, and a split increases it (kernel/pmm.c:86-111), while pmm.c:454 says "Number of currently free pages" |
| Slab!FreeObjectsExact | slab_new updates the statistics without the lock, and loses updates |
| Slab!FullMeansFull | slab_free takes a slab for full only if it is the first or the last of slabs_full (kernel/slab.c:273-275); one in the middle stays there with free objects |
| Slab!ReturnsObject with one object per slab | slab_alloc files a new slab as partial even if its only object is taken (kernel/slab.c:238); the next call returns an address inside the slab's header |
| SmpBoot!TrampolineExclusive | after a timeout a late AP uses the trampoline together with the next |
| SmpBoot!ApicIdMatches | then the index an AP takes is not the slot it was started through |
| SmpBoot!BspIndexZero | `current_cpu_index` is one variable, which each AP overwrites |
| Monitor!StackExclusive | all CPUs share the monitor's stack (monitor_call.S:65); docs/monitor_trampoline.md:88: "This design ensures SMP-safe operation with no race conditions between CPUs." Needs two CPUs |
| Kmap!FramesConserved with two CPUs | the check and the allocation of the fault handler are two lock sections (kernel/kmap.c:925-933); the comment at 879 says "atomic check-and-allocate pattern". One CPU's page is lost |

Not stated as properties:

- PMM: pmm_add_region aligns base and size separately, so an unaligned region would reach beyond its end; its only caller
  aligns first.
- Locks: `irq_restore` uses `current_cpu_index`, which is the last AP's (idt.h:169, against spinlock.h:88), so two CPUs
  share a nesting depth; the two-CPU machine of irqlock therefore claims nothing of interrupts. serial_lock is not interrupt-safe.
- Boot information: an available range that ends below the next page boundary makes `aligned_length` wrap
  (multiboot2.c:129), and MapManaged fails without its precondition; boot information at an unaligned address is not reserved whole, as reservation rounds inwards
  (pmm.c:211); a tag of more than 4096 bytes ends the walk, after which the default map is used;
  `cmdline_get_value` takes a word whose key is a proper prefix of the one asked for (multiboot2.c:66-75), against "key1=value1"
  (multiboot2.c:40) and "starts with our key" (:58); LookupFirst fails without its precondition.
- Free lists: a list of more than 1000 blocks is reported as corrupted (pmm.c:146) and the buddy behind that place is not
  merged; with MAX_BLOCK_DESC 2048 an intact list can be that long.
- Command line: the documents say `test=` (kernel/test.h:29) and the code looks up `tests` (kernel/test.c:278), which finds
  it as a prefix; words inside a quoted value are looked at as keys; `test_usermode_prepare` looks up `test` in the buffer
  that holds the selected names; a name that is listed twice may run twice, as `test_run_unified` marks nothing.
- Tests: "Executes all selected tests that haven't run yet" (kernel/test.h:81), but the syscall test ends the machine, and
  kmap comes after it in the registry. sched_test.c:123 destroys threads that are still queued.
- Scheduler: `list_push_back` has its arguments swapped (kernel/scheduler.c:210; "back of the FIFO queue" at 191), so
  adding a thread pushes the others out. The EOI is sent after the switch, on the old thread's stack, so a thread that
  never comes back leaves the timer in service. In the user mode test no thread is current, and a tick that calls
  `schedule` loses the program.
- System calls: EFAULT is -14 (arch/x86_64/include/uaccess.h:19), so `-EFAULT` is positive, against "negative error code"
  (syscall.c:272); the result of write is put into RAX before `klog_debug` is called (syscall.c:305).
- Kernel mappings: insertion does not keep the list sorted (kmap.c:391); kmap_split's `phys_base` (kmap.c:547, against
  kmap.h:104); kmap_merge does not compare physical contiguity; a protection fault on a present page repeats;
  kmap_lookup's result may be destroyed before the reference is taken (kmap.c:626).
- Monitor: pages above the tracked total have no type; the two 4 KB tables of the first 2 MB are not typed; a new table is not
  cleared; pages below 1 MB are refused by `create_ro_mapping`; FREE_PHYS and SET_PAGE_TYPE accept any page, so "only read-only
  mappings are allowed" (monitor.c:942) holds when a page is mapped and not for as long as it is; the loop that
  checks the boot stack reads and may write beyond its table (monitor.c:608-617).
- Kernel mappings of the boot: kmap.c takes the 2 MB entries of boot.S for tables, so unmapping a page of a region of
  `kmap_init`, or changing its flags, reads and may overwrite the memory that is mapped there.
- Devices: kernel_main never calls device_probe_all, so device_init_all (main.c:129) initialises nothing;
  device_register clears `driver_data`, so serial_init_device fails; probing again rebinds initialised devices.
- Console: a log line is three strings, so lines of two CPUs may mix, though strings do not.
- Processes: `sizeof(process_t)` is 4272 bytes and its cache is made for 512 (process.c:53); vm_init has no caller.

## Not modelled

- Processes, user address spaces and fork. With process_t larger than its slab object, `process_create` writes over
  neighbouring objects, so what processes do afterwards is not determined by the source; address spaces are only
  reached through them, and vm_init has no caller.
- copy_to_user, strncpy_from_user and clear_user: no callers.
- The interrupt table, MSRs, APIC timer programming, ACPI tables, boot assembly, ports, screen and clock: hardware
  programming without state of its own beyond what SmpBoot, Scheduler, Syscall and Console model of it.
  acpi_parse_madt has no caller.
- The string functions of minilibc, which appear as operators on sequences.
- What the tests do inside: a test passes, fails or ends the machine. Barriers and atomics are used as atomic steps.
- Slab, kernel mappings, monitor and processors inside KernelMain: not composed with it; each is
  checked in its own module from the state in which `kernel_main` leaves it (Kmap: after `kmap_init`).
- Weak memory: x86 store buffers are not modelled; the lock words are accessed with locked instructions or after them.
