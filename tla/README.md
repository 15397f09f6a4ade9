# Eris in TLA+

A verification development for the Eris kernel (C++23, x86_64, several CPUs,
loadable modules, one user program). It holds TLA+ modules that model the
kernel's components from their source, TLC configurations that check them on
small instances, and theorems that TLAPS proves for every value of the
constants. Paths such as `kernel/sched/scheduler.cpp` are relative to `src/`.

How to run it, in this directory:

    tlc -config Scheduler.cfg SchedulerMC     # one of the runs listed below
    tlapm SchedulerProofs.tla                 # one of the proof modules

`PROJECT.json` lists the same material for machines: the components, the runs,
for each property a mutation of the model that the property catches, the source
lines each definition translates (`map`), the four disagreements that have a run
(`findings`; section 3 has the others), the main hazards and the theorems.

## 1. The system

The boot CPU comes out of `boot/head.asm` into `start_kernel()`
(`kernel/main.cpp:744`), sets up memory, interrupts, clocks and timers, starts
the other cores, turns the boot flow into the first thread and starts `kinit`
and `kworker`. `kinit` loads the modules of the initrd, mounts the file systems
and starts the program `init` in ring 3. From there on everything is interrupt
handlers, threads and the devices' own pace.

| Part | State | Operations | What makes it hard |
|---|---|---|---|
| Spin locks (`lock.hpp`) | `locked_`, `owner_`, the saved flag | lock, unlock, recursion check | handlers that take the lock of the code they interrupt; stores seen separately |
| Scheduler | run queue, sleepers, wait queues through one link; per CPU current thread | spawn, yield, sleep, wait, wake, exit, tick | the lock is released by another thread than took it; a stack is in use until the switch |
| Timers | table of deadlines, APIC timer | arm, cancel, `timers_run()` | callbacks re-enter; `timers_run()` takes no lock |
| Clock | HPET or TSC scale | `monotonic_ns()`, `udelay()` | products that leave their word |
| Work queue | ring and two indices | `schedule_work()`, `work_run_pending()` | several consumers; calls run outside the lock |
| Page allocator | bitmap, counter | init from the memory map, allocate, free | ends of regions inside a page; first fit scan |
| Heap | list of blocks, committed end | `kmalloc()`, `kfree()`, `grow()` | split, merge, growth that fails half way |
| Virtual ranges | table of free ranges | reserve, release, map and unmap device | unaligned windows, full table |
| Page tables | entries, per CPU cached copies | map, unmap, protect, translate, shootdown | other CPUs walk and cache while entries change |
| SMP | start page, CPU blocks, job words | `smp_init()`, `ap_entry()`, `smp_run_on_others()` | cores that answer late |
| Console and panic | list of consoles, recursive lock, panic flag | write, register, panic, NMI | panic inside a write, on several CPUs |
| Exceptions | stacks of the task state segments, guards, `cr2` | push of a frame, dispatch, report, trace | a stack that ran out has no room for the fault that says so; the stacks are shared |
| Modules | table, counts, images, symbol tables | load, unload, get, put, register | cycles, failures half way, references against unload |
| Devices, PCI | registries, enumeration stack, BARs, capabilities | register, announce, probe, scan, measure, walk | tables walked without the lock |
| Block layer, virtio, devfs | registry, virtqueue, nodes | read, write, submit, refresh | the device answers late or not at all |
| VFS, ramfs, ext2 | mounts, slots and buffers, inode cache | mount, resolve, read, write, lookup | where a name ends; failures half way through a read |
| Processes | table, address space, handles, ring 3 context | `process_run()`, system calls, exit | preemption between the loads that switch context |
| Input and screen | IO APIC entry, subscribers, cell buffer | key interrupt, subscribe, put, scroll | an interrupt inside an update of the table it reads |
| Initrd, RTC | offsets, chip registers | count, find, read time | an archive cut short; a chip that counts on |
| Boot data | ACPI tables, command line, interrupt controllers | search, check, walk, split, look up, choose | tables cut short or refused; words at the end of a buffer |

## 2. The modules

Specifications keep the names of the code (`wake_all`, `free_ranges`,
`subscriber_count`). A step is as large as the code makes atomic: all that is
done under a lock with interrupts off is one action unless other actors can see
inside; code without a lock takes one step per access. `PROJECT.json` gives the
lines behind each definition.

### Synchronisation and scheduling

* **IrqSpinLock** is `lock()` and `unlock()` access by access, on a stack of
  activations per CPU: thread code, handlers that fire when the flag is on, and
  code that asks for a lock it has. **CoreProofs** has its theorems.
* **Scheduler** models the three kinds of lists through the one link
  `queue_next_`, as pointers, so that a thread on two lists would really tie
  them together. A loop under `sched_lock` takes a step per turn; a switch takes
  three (`set_current`, `context_switch`, the unlock on the other stack). A thread
  of `Programs` enters calls with interrupts off (`SFMASK`), may sleep there, and
  comes out of them by `sysret` or, after `leave_user_mode`, not at all.
  **RoundRobin** is the abstract specification (one FIFO queue, an idle thread
  per CPU); **SchedulerMC** has the instances and the refinement mapping, which
  turns linked lists into sequences. **SchedulerProofs** has the invariant, what
  each action does to it, and the theorems.
* **WorkQueue** is the ring with its producers and drainers, **DeferredWork** the
  bounded FIFO it implements, **TableProofs** the proofs (with those of Timers).
* **Timers** (theorem in **TableProofs**) and **Clock** model `kernel/time`. In Timers `arm()`
  stores its fields and `timers_run()`, which takes no lock, loads them one at a time;
  a callback's effects come between the slot being taken and the loop going on. Clock computes in
  words of `Width` bits, so overflow is arithmetic, not an assumption.
* **Smp** starts the cores through the shared page word by word and broadcasts
  jobs (theorem in **SmpProofs**). **Panic** is `RecursiveIrqLock` store by store with the console list,
  `panic()` and the NMI on top. **Faults** has the stacks that exceptions run on,
  their guards before and after `unmap_stack_guards()`, what the report says of a
  stack that overflowed, and the trace of callers below it. **SmpProofs** has
  the theorems of these two also.

### Memory

* **PageAlloc** (theorems in **MemoryProofs**, with those of Vmalloc and one about Paging) builds the bitmap from a memory map with
  unaligned ends and scans page by page, with a caller that frees what it got.
* **Heap** has every header and link of the block list (theorem in
  **HeapProofs**); **Vmalloc** the table of
  free ranges with guard pages and the device windows.
* **Paging** edits three levels of two entries one entry at a time while
  `translate()` and the hardware walk. Its second part (`TlbSpec`) follows the
  cached copies of one page on each CPU from the edit to the shootdown handler;
  `replaced` is history: the frames that a `map()` was called over.

### Modules, devices and file systems

* **ModuleTable** has the table, `load_locked()` with its recursion as a stack,
  the phases and failure paths of `module_load_image()`, references, unload with
  its swap of the last slot, and the symbol tables. An image refused after its symbols
  were registered (`refused`) and an allocation that fails halfway (`stranded`) are
  recorded; a lookup in the symbols of a refused image stops the kernel. **ModuleInvariant** has its
  invariant and most of the steps, **ModuleProofs** the two that move slots, and the
  theorems.
* **Devices** has the registry of devices and drivers, the registry of block
  devices and the nodes devfs derives from it. **Pci** has the recursive scan as a
  stack of calls, the measuring of a base address register at a small width, and
  the walk over a list of capabilities that may lead back into itself.
* **VirtioBlk** composes loading and unloading of the driver, `read_bytes()`,
  `Queue::submit()` and a device that answers in time, with an error, late or
  never. Indices wrap.
* **Vfs** walks paths character by character, since the place where a name ends
  is what could be wrong. **RamFs** implements **FileStore**, a map from names
  to bytes. **Ext2** reads through direct and indirect blocks with every page
  and block refusable.

### Programs, input and the rest

* **Process** is `process_run()` with all its returns and the handle table;
  **UserMode** the context (syscall stack, page tables, ring 3 mark) that has to
  follow a thread between CPUs. Ticks come between any two steps of UserMode, the
  loads of `this_cpu()` and `current_thread()` included; `mistaken` records that they
  gave another thread. In Process, `lost` counts the frames whose `map()` failed.
  **CoreProofs** has the theorems of both.
* **Keyboard** composes the controller, the IO APIC entry, the dispatch, the
  handler with its subscribers and the desktop module that comes and goes. The
  interrupt comes between any two stores of kinit, or while kinit is on another CPU
  (`beside`); a call of an empty slot or of code that is gone is a fault, where the
  CPU stops.
* **Vga** is checked against **Teletype**, a roll of paper; **Initrd** against
  the members that were packed; **Rtc** against a chip that counts on while it
  is read, and its day count against a calendar walked day by day.
* **Firmware** reads the ACPI tables, of which any may be missing or fail its
  checksum, chooses the interrupt controller and the source of time, and cuts the
  command line into words.

### How they fit together

Each module takes what it needs of its neighbours in the form its neighbours'
properties justify. Code under an `IrqSpinLock` is one step in all other modules
because of `MutualExclusion`, `HandlersRunMasked` and `NeverWaitsForItself`.
Threads that run concurrently in Devices, ModuleTable or Timers are threads of
Scheduler. UserMode abstracts the run queue to a set since RoundRobin fixes only
an order. The cached copies of Paging take its edits as atomic. VirtioBlk and Process take
pages that PageAlloc keeps disjoint (`PagesAccounted`). Keyboard, VirtioBlk,
UserMode, Faults and Firmware are compositions of code from several directories.

### The modules that are run

Six modules put components side by side and give TLC its small sets (`MC...`):
**Cores** (IrqSpinLock, Panic, Smp, Faults, UserMode, Process), **Calls**
(WorkQueue, Timers, Clock), **Memory** (PageAlloc, Heap, Vmalloc, Paging),
**Modules** (ModuleTable, Initrd), **Buses** (Pci, Devices, VirtioBlk, Vfs, RamFs,
Ext2) and **Peripherals** (Keyboard, Vga, Rtc, Firmware). Scheduler has
**SchedulerMC** for itself.

The components of such a module share no variable, and no property mentions
variables of two of them. Whether a property of one holds then does not depend
on the steps of the others, so the module lets one of them move per behaviour: the variable
`busy` is chosen in the initial state and never changes, and the others rest in
one of their initial states. TLC checks the union of the components' state
spaces instead of their product and loses nothing by it. It also means that such
a run shows nothing about how its components interact; the interactions that are
checked are inside the modules named above as compositions.

Four components describe the machine they run on by a record that is chosen in
the initial state: `machine` in Smp, `setting` in Timers, `tree` in ModuleTable
and `chip` in Rtc. One run covers all machines of the set that its constant
(`Machines`, `Settings`, `Trees`, `Chips`) is given.

## 3. The runs

Every run of TLC, what it asks and the properties it checks. The comment above each
property in its module states it in words.

| Run | Module | Properties | What it shows |
|---|---|---|---|
| `cores` (Cores.cfg) | Cores | LockIsSafe, ConsoleStaysWhole, CoresAccounted, ContextIsItsOwn, ProgramAccounted, FaultsAreReported, SomeoneGetsIt, PanicReports, EveryoneComesUp | Two CPUs and nested handlers on a spin lock, two CPUs that print and panic, three cores that are started in time or stall, stacks that overflow on two CPUs in any kernel context, the trace of any small stack, a program moved between two cores at any point, and its frames and handles with every failure of process_run(): exclusion, one whole and true report, everyone with an identity and a stack of their own, every frame accounted for, the context with the program as long as it found its own thread, and nobody waiting for ever. |
| `scheduler` (Scheduler.cfg) | SchedulerMC | OneCpuPerThread, ThreadsAccounted, IsRoundRobin | Two CPUs, spawned threads that sleep, wait, wake each other and exit, preempted or in a call of a program with interrupts off: one stack per CPU, the lock handed over, the lists intact, and the whole refining a round robin. |
| `scheduler_fair` (SchedulerFair.cfg) | SchedulerMC | EveryThreadProgresses | Only the boot CPU has a periodic timer: still every ready thread runs and every sleeper wakes, with threads that never yield and one that enters the kernel with interrupts off. |
| `calls` (Calls.cfg) | Calls | ImplementsDeferredWork, EveryCallRuns, TimersAreExact, EveryTimerFires, TimeIsKept | A ring of deferred calls that wraps under two workers, timers armed and cancelled in the middle of timers_run() on one CPU and on two, and both clock sources: no call lost, and on one CPU no timer early, twice or after its cancel; on two every timer happens but those armed in a slot that the handler of the other is inside. |
| `memory` (Memory.cfg) | Memory | MemoryAccounted, HeapIsSound, RangesAccounted, TablesExact, StaleIsAnnounced, FirstFit, StaleGoesAway | Every order of requests and releases of pages, heap blocks and virtual ranges in small memories that run out: nothing handed out twice or lost, blocks merged and linked, counts exact, first fit. Any three of the calls of the tree on the page tables with four frames for tables and a translate() alongside, and two CPUs that cache one page: every address keeps the frame and rights of the last call, and no copy of a page that was unmapped is forgotten. |
| `modules` (Modules.cfg) | Modules | ReferencesExact, NothingDangles, ArchiveReadsBack, LoadsInOrder | The modules of the tree, a table with cycles and a table that is too small, loaded, refused, unloaded and reloaded while two threads take and drop references and memory runs out, and every small archive whole or cut: counts exact, dependencies in place, nothing dangling but the symbols of a refused image and the pages of a failed allocation, every file found. |
| `buses` (Buses.cfg) | Buses | DeviceUnderstood, ReadsAreSound, ScanIsExact, NoDeviceMissed, RequestsAreSound, MountsResolve, ImplementsStore | Every population of three small buses, every size of base register, every list of capabilities, drivers that come while devices do, block devices that come while devfs looks, a disk whose driver is loaded again and that answers in time, with an error or never, all orders of mounts under every short path, files in ramfs, and reads and listings of ext2 with any page or block refused. |
| `peripherals` (Peripherals.cfg) | Peripherals | BootDataUnderstood, ShowsTheLastLines, TimeOfDayExact, InputWorks | Every small firmware and command line, keys that arrive while kinit, interrupted or on another CPU, loads, unloads and reloads the desktop, every short text on a small screen, a clock chip that counts on while it is read, and every day of a century. |

Several of these properties say in one definition what a component promises; their parts
are definitions of their own in its module, each with its comment:

| Property | Module | Parts |
|---|---|---|
| LockIsSafe | IrqSpinLock | HandlersRunMasked, MutualExclusion, NeverWaitsForItself, PanicOnlyOnRecursion, TypeOK |
| ConsoleStaysWhole | Panic | ConsoleIsExclusive, OneReport, PutsOnRegistered, PanicTypeOK |
| CoresAccounted | Smp | OwnIdentity, JobsWaitForAll, OnlineExact, SmpTypeOK |
| ThreadsAccounted | Scheduler | NoThreadLost, LockHandedOver, NeverBackFromTheDead, ListsDisjoint, AliveCounted, NotBeforeDeadline, TypeOK |
| EveryThreadProgresses | SchedulerMC | EverySleeperWakes, EveryReadyThreadRuns |
| TimersAreExact | Timers | CancelIsFinal, NeverEarly, OneShotOnce, TicksNeverAhead, DeadlineProgrammed, TimersTypeOK |
| TimeIsKept | Clock | DelayLasts, Monotonic, TscIsExact, DelayReturns |
| MemoryAccounted | PageAlloc | OnlyAvailableMemory, PagesAccounted, UsedCounted, TypeOK |
| HeapIsSound | Heap | FreeBlocksMerged, BlocksTile, ListIsDouble, AllocationsIntact, UsedExact |
| RangesAccounted | Vmalloc | NoPageLost, NoPageTwice, RangesTypeOK |
| TablesExact | Paging | TranslationExact, PermissionsExact, TablesFormATree, TranslateIsLinear, PagingTypeOK |
| ReferencesExact | ModuleTable | DependentsExact, DependenciesReady, UsersExact |
| NothingDangles | ModuleTable | TablesMapped, NoImageLeaked, TableIsSound, NeverPanics, TypeOK |
| LoadsInOrder | ModuleTable | LoadReturns, InitAfterDependencies |
| ArchiveReadsBack | Initrd | EveryCountedFileIsThere, InsideArchive, FindsTheName |
| ScanIsExact | Pci | AllRecorded, RecordedOnce, DepthBounded, ScanEnds |
| DeviceUnderstood | Pci | NeverDecodesElsewhere, BarExact, LeftAsFound, CapabilityFound |
| RequestsAreSound | VirtioBlk | SuccessIsOfThisRequest, TrueMeansDone, DeviceOnHeldPages, PagesReturned, EveryCallReturns, RingsAreOwned |
| ContextIsItsOwn | UserMode | ContextFollows, FrameOnLiveStack, NoThreadOnFreedStack, KernelThreadsOnKernelTables |
| ProgramAccounted | Process | BufferAndStackReturned, FramesAccounted, HandlesAreFiles, ProcessTypeOK |
| ReadsAreSound | Ext2 | ShortOnlyWithReason, ReadsTheFile, LookupIsExact, OneInodePerNumber, BuffersReturned, ListsEveryEntry |
| MountsResolve | Vfs | ResolvesByNames, UnmountLeavesOthers |
| InputWorks | Keyboard | KeysArrive, CallsSubscribers, OpenLineIsRouted, KeysInOrder |
| TimeOfDayExact | Rtc | AnswerWasShown, DaysExact |
| BootDataUnderstood | Firmware | TablesRead, OneController, HandledLinesAreOpen, OneTimeSource, WordsFound, ListsSplit |
| FaultsAreReported | Faults | NamesAreTrue, HoleIsNamed, PatternIsNamed, ResetOnlyInDoubleFault, TraceIsSound |

### Disagreements

These four runs end in a counterexample. Each checks one statement made by a comment
or a document of the repository; `findings` in PROJECT.json quotes it.

| Run | Property | Place | What happens |
|---|---|---|---|
| `clock_wrap` (ClockWrap.cfg) | Monotonic | `kernel/time/clock.cpp:115` | The HPET product leaves its word once 2^64 femtoseconds, about five hours, have passed. |
| `modules_count` (ModuleStaleCount.cfg) | DependentsExact | `kernel/module/module.cpp:165` | The slot freed by an unload keeps the counts of the module that was moved out of it, and the next module registered there inherits them. |
| `smp_stack` (SmpStack.cfg) | KernelStackOwn | `kernel/cpu/smp.cpp:90` | A core reads the word with its stack after it gave the page back: its kernel_stack_top may be the stack of the next core. |
| `shared_stacks` (SharedStacks.cfg) | StacksNotShared | `kernel/cpu/tss.cpp:17` | Two CPUs that overflow their stacks at the same time both take their double faults on the one stack that all task state segments name. |

The same models have further counterexamples that no run is kept for. Each was found by
TLC with the component's own specification (`TimersSpec`, `SmpSpec`, ...), the small
sets of its run and the change of constants given here; `none` means that the
property is false as it stands and no run lists it.

| Module | Property | Change | Place | What happens |
|---|---|---|---|---|
| SchedulerMC | NeverBackFromTheDead | `WakeTargets = {"Sleeping", "Blocked"}` | `kernel/sched/scheduler.cpp:312` | Thread::wake() on a blocked thread leaves it on its wait queue: a later wake_all() makes an exited thread runnable. |
| SchedulerMC | OneCpuPerThread | a CPU in `Parks` | `kernel/main.cpp:386` | A deferred call that sleeps on the idle thread, where the idle loop runs it: two CPUs end up on one stack. |
| Timers | OneShotOnceSmp | both CPUs in `setting.cpus` | `kernel/time/timers.cpp:156` | Two CPUs in timers_run(), which takes no lock: both find a one shot timer due and both call it. |
| Timers | EveryTimerFiresSmp | none | `kernel/time/timers.cpp:170` | One CPU has found a one shot timer due, another runs it to its end and arms the slot again; the first then clears the flag of the new timer, which never runs. |
| Timers | FireInOrder | none | `kernel/time/timers.cpp:160` | Timers due in one run are called in the order of their slots, not of their deadlines. |
| Modules | UsersExact | `MCTree` with `unloaded = {"vga"}` | `kernel/module/module.cpp:209` | module_unload() takes no lock: a module_get() between its check and its end holds a reference to a module that is gone. |
| Modules | AbiBeforeRelocation | none | `kernel/module/loader.cpp:339` | An image of another ABI is relocated and its constructors run before the stamp is looked at. |
| Modules | FailedLoadLeavesNothing | none | `kernel/module/loader.cpp:371` | An image that is refused after register_exports() leaves its symbol table registered when it is unmapped, and the next lookup reads it. |
| Modules | FailedLoadLeavesNothing | none | `kernel/module/loader.cpp:52` | allocate_image() that runs out of frames halfway gives the window back with the pages so far still mapped and their frames taken. |
| Modules | TableIsSound | `MCChain` with one file that describes rtc and theme | `kernel/module/module.cpp:244` | Unloading one of two modules of an image unmaps the image of the other. |
| Smp | OwnIdentity | `slow = {1}` with `N = 2` | `kernel/cpu/smp.cpp:168` | A core that answers after the boot CPU gave up takes the identity and the stack of the next. |
| Smp | OnlineExact | `slow = {1}` with `N = 2` | `kernel/cpu/percpu.cpp:51` | A core that answers after the boot CPU gave up counts itself at the same time as the next one: both read the same value, and one of them is not counted. |
| Smp | JobsWaitForAll | `jobs = 2, timeout = TRUE` | `kernel/cpu/smp.cpp:193` | A core that finishes a job after its broadcast timed out is counted for the next job. |
| Smp | NoJobMissed | none | `kernel/cpu/smp.cpp:105` | A job published after a core counted itself online and before its first look at job_generation is taken for an old one: the core never runs it and the broadcast is not answered. |
| Paging | UnmapIsFinished | none | `kernel/mm/paging.cpp:207` | unmap() returns before the other CPU has dropped its copy. |
| Paging | RightsHaveLanded | none | `kernel/mm/paging.cpp:228` | protect() sends no shootdown, so the other CPU goes on with the old rights. |
| Paging | ReplacedIsAnnounced | none | `kernel/mm/paging.cpp:185` | map() over a page that is mapped drops its own CPU's copy only. |
| Heap | OnlyCommittedFrames | `Frames = 5, Reserved = 24` | `kernel/mm/heap.cpp:99` | A growth step that runs out of frames half way keeps those it has mapped, outside the committed area. |
| Vmalloc | NoPageLost | `Offsets = {1}`, `Lengths = {1, 2}` | `kernel/mm/vmalloc.cpp:132` | unmap_device() of registers that do not begin a page gives back a page less than map_device() took. |
| UserMode | ContextFollows | none | `kernel/proc/process.cpp:302` | A tick between the two loads of current_thread() moves the thread, which then sets the stack of another one. |
| Process | NoFrameLost | none | `kernel/proc/process.cpp:144` | map() finds no frame for a table: load() and map_stack() return without the frame of the page, which no table names. |
| Process | TornDown | `FairSpec` | `kernel/proc/process.cpp:326` | What a program owned is never given back. |
| VirtioBlk | SuccessIsOfThisRequest | `Late = TRUE`, `size_ = IndexSpan = 8` | `modules/virtio_blk/virtio_blk.cpp:209` | A device that answers after the deadline completes the next request in place of its own. |
| Devices | NoDeviceMissed | `Busy = TRUE` | `kernel/device/device.cpp:56` | A driver that unregisters while a loop over the drivers runs makes the loop pass over another one. |
| Devices | LateDriverIsOffered | none | `kernel/device/device.cpp:44` | A driver that registers late is not offered a device that an earlier driver accepts. |
| Devices | EveryDeviceHasANode | `max_nodes = 4` | `kernel/fs/devfs.cpp:136` | A driver that registers after devfs was created never gets a node. |
| Vfs | ResolvesByNames | `NameLength = 1` | `kernel/fs/vfs.cpp:165` | A component longer than the buffer is walked as two. |
| Vfs | SpellingDoesNotMatter | none | `kernel/fs/vfs.cpp:43` | A slash repeated before or inside a mount point (`//a/x`, `/a//b/x`) makes the comparison with it fail, and the path is looked up in the mount above. |
| Rtc | AnswerWasShown | `slow = TRUE`, not `prompt` | `modules/rtc/rtc.cpp:118` | A chip that changes its registers one at a time, read by a thread that is preempted after it looked at the update bit: the time returned was never shown. |
| Rtc | AnswerWasShown | `twelve = TRUE` | `modules/rtc/rtc.cpp:63` | A chip that counts hours to twelve: the hour after midnight is read as noon. |
| Keyboard | KeysArrive | `Early = TRUE` | `modules/keyboard/keyboard.cpp:50` | A key pressed before the line is open leaves its byte in the controller, and no key arrives after it. |
| Keyboard | NeverFaults | none | `modules/keyboard/keyboard.cpp:73` | An interrupt between the count and the store of a subscription calls an empty slot. |
| Keyboard | NeverFaults | none | `modules/desktop/desktop.cpp:130` | With kinit on another CPU the desktop is unmapped while the handler runs in it. |
| Keyboard | NoKeyLost | none | `modules/keyboard/keyboard.cpp:43` | With kinit on another CPU the last subscriber goes after keyboard_irq() saw one and before its loop: the key is neither printed nor handed on. |

## 4. Bounds and fairness

**Bounds.** Every bound is a constant that the `.cfg` sets, and a guard uses it
by name. They are chosen by the case that has to happen:

* Two CPUs are enough for each race here: all involve one CPU inside an
  operation and another that disturbs it (for `StaleIsAnnounced` a theorem of
  section 5 covers any number of them). `cores` starts three cores, so that a core has one before it
  and one after it on the shared page.
* Three worker threads and one wait queue let a list have a first, a middle and
  a last thread. CPUs and workers are symmetric only where no CPU is singled out
  (`Scheduler.cfg`, threads).
* Nesting to depth three covers thread code, a handler inside its critical
  section and a recursive request inside the handler.
* Rings, tables and pools have two to four entries: they fill, refuse, wrap and
  are reused. `WorkQueue` and the virtqueue indices wrap several times. Three
  drivers fill a table of two; the third, `Spare`, matches no device.
* Words are narrowed with everything that depends on them: `Clock` to 12
  bits (a period of 50 overflows them within the run, one of 10 does not), a base address register to 6 bits for
  32, the virtqueue index to a few values.
* Pages hold a few units, so that a length or an address can end inside one; the
  heap's growth step and reserve let growth succeed twice or three times and
  then fail. A stack has three places and a list of capabilities three words, so
  that a chain can go up, down, to itself or round, and a trace of two frames is
  cut. The three levels of two entries in `Paging` have a shared table, an
  empty table and a table that cannot be allocated.
* Time is bounded by `MaxTime`, `MaxTicks` and `setting.time`, the number of calls
  by `MaxCalls`, `machine.jobs`, `MaxRuns`, `MaxPuts`, `MaxKeys`. A run that uses up such a bound
  stops; those configurations turn the deadlock check off.

* Paths have up to five characters with slashes anywhere, six below `/a/b`, so that
  one is repeated before, inside and behind every mount point.

Constants that describe the environment rather than a size, such as `Machines`,
`Chips`, `Late`, `Early` or `WakeTargets`, tell the runs that pass from
the settings that end in a counterexample (section 3): the model is the same,
and the run that passes says under which circumstances the code is right. What the
kernel itself may do is never switched off in this way. Where an interleaving of the
code breaks a promise, the model has it, a history variable records it (`mistaken`,
`lost`, `overtaken`, `refused`, `stranded`, `replaced`, `astray`), and the property
says what holds apart from it; section 3 lists the promise without the exception.

**Fairness.** Liveness is checked only where the code or the hardware
guarantees progress. Where a run has several components, the fairness of each is
that of the component while it is the one that moves:

* `IrqSpinLock`, `Panic`: a CPU goes on executing the code it is in. Nothing is
  said about who wins the exchange, so the property is that somebody does.
* `SchedulerMC`: code under the lock finishes; the handler returns; the periodic
  timer that `timers_init()` arms keeps interrupting the boot CPU, and only that
  one. The tick's exchange is assumed to win eventually (strong fairness), since
  a test-and-set lock does not promise it. Threads may run forever with interrupts
  on; a thread that runs with them off is not preempted, and is assumed to return to
  ring 3 or to exit.
* `Timers`, `Clock`: the clock runs and a handler that began goes on. Nobody has
  to arm anything.
* `WorkQueue`: kworker gets its turn, which `EveryReadyThreadRuns` shows; an idle
  thread may never run.
* `Smp`: the boot CPU and every started core execute. A core in
  `machine.slow` may still miss each deadline.
* `Paging`: the CPU that edits finishes its call and a pending shootdown interrupt
  is taken in the end.
* `ModuleTable`, `Pci`, `Process`, `Devices`: the one thread that runs the
  code goes on. `VirtioBlk`: so do the client and, where it answers at all, the
  device.
* `Keyboard`: the CPU takes interrupts and kinit runs; no key has to be pressed.

## 5. What is proved

| Module | Theorem | States | What it establishes |
|---|---|---|---|
| CoreProofs | `LockExcludes` |  | For any number of CPUs and any depth of nested handlers, at most one of them is between the exchange and the releasing store. |
| CoreProofs | `NoFalsePanic` |  | lock_recursion_panic() is reached only when the CPU really holds the lock it asks for. |
| CoreProofs | `NoSelfDeadlock` |  | No CPU spins for a lock that code it interrupted holds. |
| CoreProofs | `HandlersMasked` |  | Handler code always runs with interrupts off, whatever flags the locks it used restored. |
| CoreProofs | `LockStaysSafe` | LockIsSafe | The four above and the types together: lock() and unlock() are safe for any number of CPUs and any depth of nesting. |
| SchedulerProofs | `NeverOnTwoCpus` | OneCpuPerThread | No thread is ever current on two CPUs and no stack is executed on by two. |
| SchedulerProofs | `LockIsHandedOver` |  | sched_lock is held by a CPU exactly from the call that took it to the unlock of the thread that resumes, with interrupts off all the time; and the thread finds the flag it left, on whichever CPU: off in a handler, in a call of a program and after leave_user_mode, on elsewhere. |
| SchedulerProofs | `ExitIsFinal` |  | A thread that called thread_exit() never runs again, as long as nobody calls Thread::wake() on a blocked thread. |
| SchedulerProofs | `ListsStayDisjoint` |  | The run queue, the sleepers and the wait queues never share a thread although they share its link. |
| SchedulerProofs | `NothingIsLost` |  | Every thread that is ready, asleep or blocked is linked from the list of its state, and the tail of the run queue is its last thread. |
| SchedulerProofs | `AliveIsCounted` |  | threads_alive is exact in every interleaving of spawns and exits. |
| SchedulerProofs | `SleepLastsLongEnough` |  | No sleeper is made ready before the clock reached its deadline. |
| SchedulerProofs | `ThreadsStayAccounted` | ThreadsAccounted | The six above and the types together: every thread is where its state says, for any number of CPUs, threads and wait queues. |
| TableProofs | `TimersStayExact` | TimersAreExact | For any slots, delays and CPUs every deadline has an interrupt or a handler on its way to it, and on a single CPU no callback runs early, after its cancel, twice, or more often than its period allows. |
| TableProofs | `RingStaysFifo` |  | For every ring size and any number of workers the ring holds exactly the accepted calls not yet taken, oldest first. |
| TableProofs | `RingImplementsDeferredWork` | ImplementsDeferredWork | The ring refines the bounded FIFO of DeferredWork. |
| MemoryProofs | `PagesStayAccounted` |  | For every memory map, no page is ever in two allocations or in one and the boot image, and none is lost. |
| MemoryProofs | `UsedIsCounted` |  | used_pages is the number of bits set. |
| MemoryProofs | `AllocatesFirstFit` | FirstFit | The scan returns the lowest run that is long enough and fails only when there is none. |
| MemoryProofs | `FreePagesAreMemory` |  | No free page overlaps the boot image or memory that the map does not call available, for every map and page size. |
| MemoryProofs | `MemoryStaysAccounted` | MemoryAccounted | Pages in use have one holder, their count is exact and free pages are memory, for every memory map. |
| MemoryProofs | `EveryStaleCopyIsAnnounced` | StaleIsAnnounced | For every set of CPUs, a copy of an entry that unmap() cleared is on a CPU that was told to drop it or is about to be told; a map() over a mapped page tells nobody, and is left out. |
| ModuleProofs | `ModulesAreReferenced` | ReferencesExact | For every orderly tree of modules, any number of users and any interleaving of them with loads, failures and unloads, dependents and users are exactly the references held, and a Ready module has its dependencies Ready. |
| ModuleProofs | `ModulesDoNotDangle` | NothingDangles | In the same behaviours a name is in the table once, every loaded module is of an image that is mapped and every symbol table of one that is mapped or was refused after it registered; panic() is reached only by a lookup in the latter, no whole image stays mapped for nothing, no reference is released twice, and pages are kept only by allocations that failed halfway. |
| ModuleProofs | `ModulesInitInOrder` |  | A module becomes Ready only after every module it depends on: load_locked() runs init() in the order of the dependencies, cycles and failures included. |
| ModuleProofs | `ModuleInvHolds` |  | The inductive invariant: what the stack of calls of load_locked(), the phase of a load or an unload and the users hold of every slot, and when the kernel may have stopped. |
| SmpProofs | `CoresStayAccounted` | CoresAccounted | For any number of cores that come up within the delays of smp_init(), each has its own index, block and stack and is counted once, and smp_run_on_others() says true only after every one of them ran the job. |
| SmpProofs | `ScreenStaysWhole` | ConsoleStaysWhole | For every number of CPUs, consoles and lines, one CPU at a time is inside the consoles, puts go only to registered ones, and at most one report is made. |
| MemoryProofs | `WindowsStayApart` |  | For every area, table size, length and device address, no page is in two free ranges, in two reservations or in one of each. |
| MemoryProofs | `RangesStayAccounted` | RangesAccounted | If no window is longer than the length unmap_device() is told, no page is lost but by the release that finds the table full. |
| HeapProofs | `HeapStaysSound` | HeapIsSound | For every size of the area, of a growth step and of the requests, the blocks tile the committed area, the list reads the same both ways, no two free blocks are neighbours, a block handed out stays as it was and heap_used() is exact. |
| CoreProofs | `ContextStaysItsOwn` | ContextIsItsOwn | For any CPUs and threads, wherever a tick or a sleep moves the thread of a program, one between the loads of current_thread() included: as long as those loads gave the thread itself, its CPU enters the kernel on its stack and uses its tables. |
| CoreProofs | `ProgramStaysAccounted` | ProgramAccounted | For tables, files and memory of any size, whichever step of process_run() fails, the call keeps neither buffer nor stack, loses one frame at most and that by a map() that failed, no frame is made up, and a handle stays with its file and offset. |
| SmpProofs | `FaultsReported` | FaultsAreReported | For any set of processors, what a report says of a stack is true and an overflow is in it; the frames it lists go up any stack, each the caller of the one before. |

**Assumptions.** The constants' assumptions are named in the module that
declares them (`LockAssumption`, `SchedulerAssumption`, `WorkAssumption`,
`PageAllocAssumption`, `ConsolesFit`, `TheBootProcessor` and others) and only say what sort of thing a constant is, that the
idle threads are not workers, that the ring has two slots, that the memory
below the first megabyte is part of the boot image, that the consoles fit their
table and that processor 1 is there. The scheduler's theorems
have one more, `AsUsed`, stated in each theorem: nobody calls `Thread::wake()`
and idle threads neither sleep, wait nor exit. The kernel keeps to the first;
the settings of section 3 (`NeverBackFromTheDead`, `OneCpuPerThread`) show that
neither can be dropped. Others state the circumstances they hold in.
`CoresStayAccounted` assumes of every machine that it is
`InTime`: all cores answer and finish their jobs within the delays that
`smp_init()` and `smp_run_on_others()` wait, or the last core does not and no job
is broadcast. The settings of section 3 (`OwnIdentity`, `OnlineExact`,
`JobsWaitForAll`) show what happens outside of them. The theorems of ModuleTable
speak of trees that are `Orderly`: each module is linked in once, the users take
modules that nobody unloads, modules that came in images are either not referred to
or not unloaded, and a module that is unloaded has its image to itself. Nothing is
asked of the images that export symbols or of the room in the table.
The tree of this kernel is orderly (desktop and rtc come in images of their own and
nothing depends on them); TLC evaluates `TreesAreOrderly` for the three trees of the
run. The run `modules_count` and the settings of section 3 for `UsersExact`
and `TableIsSound` show what the code does with trees that are not.

**IrqSpinLock.** Exclusion alone is not inductive: it has to be known that
`locked_` says whether somebody holds (HolderInv), that `owner_` names the CPU of
a holder only between its two stores (OwnerInv), that the interrupt flag is off
wherever an activation masks it (MaskInv) and that what `save_flags()` saved was
off if anything below it masked (SavedInv). The last is what makes the nested
`unlock()` restore the right flag, so that a handler never runs in the middle of
a critical section and finds the lock held by the code under it.

**Scheduler.** The invariant has two halves. The first half of
`SchedulerProofs` defines well formed
lists (each link is owned by one list, each list is found from its head, states
agree with lists) and has one lemma for each way to take a thread off a list or
put it on; an action is then a composition of two or three of them. The rest of
it has the control half: who holds `sched_lock` at which program
counter, which stack a CPU is on between `set_current` and `context_switch`,
which flag a thread will unlock with (off in a handler and in a call of a program),
and that a thread under construction is nobody else's. There is a lemma for each action. `OneCpuPerThread` needs both halves: a thread is taken off the run queue,
where it cannot be current anywhere, and between the two steps of a switch the
old stack belongs to a thread that no other CPU can pick because the lock is
still held.

**WorkQueue.** The invariant is that the ring, read from `tail` to `head`, is the
sequence of the calls accepted and not yet taken. It is its own strengthening
together with the types (`RingIsFifo`; the run checks the refinement). The refinement maps the ring to that sequence.

**Timers.** `DeadlineProgrammed` is inductive together with the types, for any number
of CPUs: whoever arms, cancels or ends `timers_run()` has just programmed its own
timer for the earliest deadline of the whole table (`ProgramsAll`), and a CPU inside
`arm()` or `timers_run()` has yet to. It holds although the handlers take no lock.
What `arm()` has stored so far is in `ArmingInv`. The promises
to a single caller need that a handle is given once (`HandleInv`) and what a slot's
deadline says about its past: it lies a period after as many periods as were counted
(`SlotSound`). What the handler has read of a slot is still so when it uses it
(`TakeInv`), because on
a single CPU nothing comes between its loads and its store; with two CPUs this is the
fact that fails, and `OneShotOnceSmp` and `EveryTimerFiresSmp` in section 3 show how.
`EveryTimerFires` is a
liveness property and stays with TLC.

**PageAlloc.** The scan's invariant is that the run being counted ends just
before page `i`, is free and begins after a used page, and that no run passed was
long enough. First fit follows at the two exits of the scan. That free pages are
memory rests on a lemma about division: a page that a region covers after its
start was rounded up and its end rounded down lies inside the region.

**Vmalloc.** The proof replaces pages by intervals: free ranges and reservations lie
in the area and no two reach into each other (`RangesInv`). `ReserveTable` and
`ReleaseTable` say what one call does to the table: cut the head off the first
range that is long enough, or join the first neighbour, append, or drop. That no
page is lost needs that what comes back is all that was taken (`LostInv`), which
`unmap_device()` ensures only under `WindowsFit`: no device's registers begin so
late in their page that the window is a page longer. Section 3 has the setting
without it, in which a page is lost; `WindowsStayApart` holds in either case.

**Heap.** The invariant (`Tiled`) speaks of a list as a triple of headers, tail and
committed end: each block but the tail ends where the next one begins, `next` and
`prev` undo each other, and a block that begins before another ends before it.
The last is what lets a walk by links be replaced by an order of addresses, since
an induction along the list is out of reach. An operation is one or two of three
edits, each with a lemma: a block takes in its successor, is cut in two, or is
appended at the end. `kfree()` merges with the next block and then the previous
one, so between the two edits one free block may have a free neighbour
(`MergedBut`). The counter `heap_used()` is a sum over headers, which the lemmas
change one header at a time.

**Smp.** The words of the trampoline page belong to one core from its startup until
it has copied them (`OneAtATime`), because the boot CPU fills them again only
after the word in slot 6 and the delay that follows it (`LoopInv`). From this
follow the identity of each core (`IdentityInv`) and that nobody counts between
the load and the store of `++online` (`CountInv`, over cardinalities). For the
jobs, a core in its loop has seen the newest generation, which it ran or came too late
for, or is one behind while the boot CPU collects (`CoreJobs`), so that `finished` is
the number of those that ran it (`Broadcast`).

**UserMode.** The fields of a thread follow from where its program is (`FieldsInv`),
and the CPU it is on has them loaded (`CpuInv`). Both are kept by a switch because
`current_thread()` names the thread that asks (`KnowsItself`), which rests on no
thread being current on two CPUs (`OneCpuEach`). Since the CPU is read before its slot,
a tick between the two may make it false; that is the step that sets `mistaken`, and
the invariant is claimed up to there.

**Process.** What the call holds follows from its program counter (`CallHolds`), each
call fails at one `map()` at most, and
a handle's slot has the file and the offset that the program was given
(`FilesTyped`, `HandlesAreFiles`).

**Paging.** `StaleIsAnnounced` needs to know how far the editing CPU has come:
whoever is past the loop over the others has told each of them (`OthersSeen`). A
frame that a `map()` put another in the place of is in `replaced` from then on.

**Panic.** One CPU at a time in the consoles follows from where the owner of the
recursive lock may be (`LockInv`), which call a CPU is in at each place
(`CallInv`), that a put goes on only with a console that is still registered
(`TargetInv`), and that the NMI of the one that panics finds the others where they
do not hold the lock (`HaltInv`).

**Faults.** A report is written one step after the frame was pushed, and by then
another processor may have pushed its own over it, since the stacks are shared:
`trampled` says of which processors that is true. Of the others, `Remembered` says
that the address a processor is about to report is one of a hole it ran into, and
that the vector in its frame leads the dispatch to that address or to the halt.
The trace needs only that the frame the walk stands on is the one saved in the
last frame printed, and lies above it.

**ModuleTable.** That a count is exact is not inductive by itself. `LinksKept` counts
pairs of a Ready module and a place in its list of dependencies, which is what makes
a dependency that is named twice count twice. When `init()` succeeds the pairs of one
module are added, one `dependents` at a time in the code and all at once in the
model; this needs that every dependency is Ready, and so the invariant of the
recursion (`CallsKept`): each call of `load_locked()` is for a Loading module of its
own, has the dependencies before its place Ready, and waits for exactly the module
of the next call; a module that is Loading is on the stack, which is how a cycle is
refused. `OpKept` says what the image or the module in hand is (`ImageInHand`,
`ModuleGoes`, `ImageGoes`), `ImagesKept` that a mapped image has a module or is in
hand and that a symbol table has an image or is of a refused one, and `UsersKept` that one user at most is between its look at the table and its
count. The hard step is the removal of a module: the last one moves into its slot, so
that every slot, pair and call has to be renamed; the renaming is a bijection of the
pairs (`RenamedPairs`), hence the counts stay. Slots behind the table keep no counts
(`TableKept`) only because the trees are orderly, which is the point of the run
`modules_count`. That a load returns (`LoadReturns`) is liveness and stays with TLC;
the other half of `LoadsInOrder` is `ModulesInitInOrder`.

**How the proofs are laid out.** `USE Zenon` at the head of a module makes Zenon the
prover of every leaf that names no other. Facts about cardinality are collected in a
predicate `Counting` that lemmas assume; it is proved from the library
(`CountingHolds`) at the end of a module, before the theorems.

## 6. What is only model-checked

Liveness under fairness is outside TLAPS 1.4.5 as installed, and so is what a
recursive definition computes for every input: `EveryReadyThreadRuns`,
`EveryTimerFires`, `KeysArrive` and the like, and the algorithms of Pci, Vfs,
Ext2, Vga and Rtc stay with TLC. The scheduler's refinement of RoundRobin
is model-checked only: its mapping turns linked lists into sequences, which takes
an induction. `TablesExact` of Paging compares the tree with what the calls asked
for at every address, through a walk of three levels, and is not proved yet. All components that have no theorem in the table of
section 5 are model-checked on the instances above and not proved.

## 7. What is not modelled

* **Scheduler** (partly). Run queue, sleepers and wait queues at the level of their links, the switch with its lock hand-over, spawn and exit, the timer and device interrupts on every CPU. preempt_disable() and preempt_enable(), which nothing calls, are left out; the address space and stack that follow a thread are in the user mode component.
* **Module loader** (partly). The phases of module_load_image() and its failure paths. The arithmetic of the relocations and the layout of sections inside the image are left out.
* **Processes and system calls** (partly). process_run() with its returns, the context that follows a thread in ring 3, and the handles with the calls that use them. The checks of user pointers and the copying of segments are left out: what they do depends on the bytes of the program.
* **Virtual file system** (partly). The mount table and the walk of a path. Opening and reading through an inode are the file systems' part; mounting the same path twice is left out.
* **Interrupt routing** (partly). The choice of the controller at boot, and the way of one line through the IO APIC, from its routing to its acknowledgement. The legacy PIC, the calibration of the local APIC and the assembly stubs are sequences of port writes and are left out; inter-processor interrupts are in Smp, Paging and Panic.
* **Keyboard and desktop** (partly). The interrupt handler with its subscribers, and the desktop as the one that subscribes and goes. The drawing of the desktop and the scancode map are data.
* **Text screen** (partly). put(), scroll() and clear() against a roll of paper. Colours and the cells that the desktop writes directly are left out.
* **Exported kernel services for modules** (not modelled). Wrappers that forward to operations modelled elsewhere, and a table of interrupt handlers that no module of the tree registers in.
* **Serial port, strings and C++ runtime** (not modelled). Port I/O, byte loops and glue. The serial line stands behind the console in Panic.
* **Boot path and self tests** (partly). start_kernel() fixes the order that Init of each module starts from. The loads of main.cpp appear where they drive another component; the measurements of the self tests are left out.
* **User programs** (partly). The programs appear as arbitrary sequences of the system calls they may make.
* **Build and test scripts** (not modelled). Run on the build machine. They are read for what they expect of the kernel.
* **Segments** (not modelled). Descriptor tables laid out once per CPU, before anything else runs there: constants and no operation that changes state.
* **Backtrace and kernel symbols** (partly). The walk of backtrace_from() over a stack with any contents. Finding the name of an address is a scan of a table that the build generates and changes no state.

## 8. Hazards

Places where this code could go wrong in a way that a test would hardly reach.
`PROJECT.json` lists the heaviest forty under `hazards`, each with the properties
that would catch it, or with the reason why none does. The others:

| Place | What can go wrong | Caught by, or why not |
|---|---|---|
| `include/eris/lock.hpp:61` | unlock() clears the owner before it frees the lock; the other order would leave a stale owner over a later holder. | PanicOnlyOnRecursion |
| `include/eris/lock.hpp:22` | The exchange loop is unfair: one CPU can lose every race, only some CPU is sure to make progress. | SomeoneGetsIt |
| `kernel/sched/scheduler.cpp:262` | The lock is released on another stack than the one that took it, for a new thread with flags nobody saved. | LockHandedOver |
| `kernel/proc/syscall.cpp:191` | A program's thread sleeps inside a call, with interrupts off, and resumes on another CPU: the flag has to be what it was. | LockHandedOver |
| `kernel/sched/scheduler.cpp:312` | wake() on a thread that is blocked, slept or exited by the time the lock is held must not leave it on two lists. | ListsDisjoint, NeverBackFromTheDead |
| `kernel/sched/scheduler.cpp:388` | The timer handler switches away in the middle of any thread code, and the thread resumes inside the handler of a possibly different CPU. | LockHandedOver, IsRoundRobin |
| `kernel/sched/scheduler.cpp:116` | A sleeper whose deadline falls between the sample of the clock and its parking must not be missed or woken early. | NotBeforeDeadline, EverySleeperWakes |
| `kernel/main.cpp:386` | Deferred work may sleep, but the idle loop runs it on the idle thread, which must never leave its CPU. | OneCpuPerThread |
| `kernel/sched/scheduler.cpp:270` | spawn() reads threads_alive without the lock, so several concurrent calls can exceed max_threads. | AliveCounted. The count stays exact; that it may exceed max_threads is a consequence of the unlocked test and no document bounds it. |
| `kernel/main.cpp:256` | blocked_worker() tests nothing before gate.wait(): a worker that gets there after gate.wake_all() waits for ever. | The self test is not modelled; it relies on the waiter having run before the counters finish. |
| `kernel/sched/scheduler.cpp:429` | preempt_count belongs to the CPU, not to the thread: a thread that disables preemption and migrates in a voluntary sleep re-enables it elsewhere. | preempt_disable() has no caller in the tree, so the counter is left out of the model. |
| `kernel/time/timers.cpp:158` | The sample of the clock is taken once per run, and callbacks take time: deadlines that pass during the run have to be programmed again. | DeadlineProgrammed, EveryTimerFires |
| `kernel/time/timers.cpp:160` | Timers due in one run are called in slot order. | see the disagreements of section 3 |
| `kernel/time/timers.cpp:168` | A periodic timer is moved on from the time it ran, not from its deadline: it may slip but must never count ahead. | TicksNeverAhead |
| `kernel/time/timers.cpp:87` | next_handle wraps to 0, the invalid handle, after 2^32 timers, and may then repeat the handle of a timer still armed. | Out of reach of a bounded run: the model stops at MaxHandle timers. |
| `kernel/time/timers.cpp:79` | A full table drops the callback: arm() returns the invalid handle. | DeadlineProgrammed |
| `kernel/time/clock.cpp:122` | The TSC conversion is split in two to keep the product in range. | TscIsExact |
| `kernel/lib/work.cpp:41` | wake_all() wakes nobody, as kworker sleeps 10 ms at a time instead of waiting: accepted work relies on the next turn of the loop. | EveryCallRuns |
| `kernel/lib/work.cpp:82` | work_pending() reads head and tail without the lock, so its answer can mix two states. | Nothing in the tree decides anything on the value. |
| `kernel/mm/page_alloc.cpp:49` | Available ranges must be rounded inwards and reserved ranges outwards: the other rounding hands out a page with kernel bytes or a hole in it. | OnlyAvailableMemory |
| `kernel/mm/page_alloc.cpp:152` | first = i + 1 - count: one page more or less overlaps a neighbour. | FirstFit, PagesAccounted |
| `kernel/mm/page_alloc.cpp:158` | No run is long enough although enough pages are free: the scan has to fail, and only then. | FirstFit |
| `kernel/mm/page_alloc.cpp:171` | A long sequence of allocations and frees of different lengths must not drift used_pages or lose pages. | UsedCounted, PagesAccounted |
| `kernel/module/loader.cpp:52` | allocate_image() that runs out of frames releases the window but neither unmaps nor frees the pages it had mapped. | NoImageLeaked says that nothing else keeps pages; see the disagreements of section 3 |
| `kernel/module/loader.cpp:109` | A symbol of another image is bound when the image is loaded, its module is held only from init() on: unload and reload in between leaves the old address. | Addresses of symbols are not modelled. |
| `kernel/cpu/smp.cpp:105` | A job is published between the moment a core counts itself online and its first look at job_generation. | see the disagreements of section 3 |
| `kernel/cpu/smp.cpp:165` | The boot CPU and a core wait for each other through plain words of a page. | EveryoneComesUp |
| `kernel/cpu/smp.cpp:180` | retire_trampoline() makes the page no-execute while a core that is late may still run in it. | The model shows the fault as a step of the core; nothing says what should happen to a core that was given up. |
| `kernel/mm/paging.cpp:185` | map() over a page that is mapped tells no other CPU. | see the disagreements of section 3 |
| `kernel/mm/paging.cpp:228` | protect() leaves the copies of other CPUs as they were. | see the disagreements of section 3 |
| `kernel/mm/paging.cpp:194` | The number of CPUs is read before the lock is taken: a core that comes up in between would miss the shootdown. | No call of unmap() in the tree runs while smp_init() does, and the model starts with every core up. |
| `kernel/mm/paging.cpp:129` | split_huge_page() drops the user bit that table_for() has just set on the entry, and leaves it on the pages of the new table. | User mappings start at user_base, above everything that is mapped with huge pages; the model takes that as an assumption on its requests (RequestsAreCalls). |
| `kernel/lib/panic.cpp:145` | The NMI stops a CPU wherever it is; one that held the console would take the report with it. | PanicReports |
| `include/eris/lock.hpp:106` | A fault inside a console write panics with the console lock already held by the same CPU. | PanicReports, PanicTypeOK |
| `include/eris/lock.hpp:120` | owner_ must be cleared before the inner lock is free, or the store wipes out the next owner. | PanicReports |
| `kernel/lib/console.cpp:43` | A console is unregistered and its memory unmapped while another CPU may be writing to it. | PutsOnRegistered |
| `kernel/mm/heap.cpp:99` | grow() fails with some pages of the step mapped. | BlocksTile |
| `kernel/mm/heap.cpp:40` | A rest that is just too small for a header stays with its block, which is then larger than asked for. | BlocksTile, AllocationsIntact, UsedExact |
| `kernel/mm/vmalloc.cpp:100` | The table of free ranges is full when a range comes back. | NoPageLost, RangesTypeOK |
| `kernel/mm/vmalloc.cpp:68` | The last range moves into the place of the one that was used up. | NoPageTwice, NoPageLost |
| `kernel/mm/vmalloc.cpp:132` | The window begins inside a page and its length ends in another. | NoPageLost |
| `kernel/mm/vmalloc.cpp:88` | A released range joins one neighbour and never the other, so the area falls apart although all of it is free. | Nothing in the repository promises that the area can be reserved whole again. |
| `kernel/cpu/tss.cpp:34` | tss_set_kernel_stack() keeps a reference to a CPU block across a preemption. | ContextFollows |
| `kernel/sched/scheduler.cpp:163` | An idle thread leaves the entry stack of the thread before it in place. | ContextFollows, FrameOnLiveStack |
| `kernel/proc/process.cpp:60` | process_total only grows: after eight programs none can be started. | ProcessTypeOK |
| `kernel/proc/syscall.cpp:104` | The handles are shared by all programs and outlive them. | HandlesAreFiles |
| `kernel/proc/syscall_entry.asm:98` | saved_kernel_rsp and running are global: a second thread in process_run() would overwrite them. | The tree starts one program, from start_init(). |
| `kernel/proc/syscall_entry.asm:86` | leave_user_mode returns with interrupts off, as the syscall or the fault left them. | No line of the repository says in which state process_run() returns. |
| `modules/virtio_blk/virtio_blk.cpp:215` | last_used_ is not brought forward after a timeout, so any movement of the index counts as the next answer. | SuccessIsOfThisRequest, TrueMeansDone |
| `modules/virtio_blk/virtio_blk.cpp:200` | The 16 bit indices wrap, and the chain wraps around the descriptor table. | TrueMeansDone |
| `modules/virtio_blk/virtio_blk.cpp:206` | A device that never answers would hold its caller. | EveryCallReturns |
| `modules/virtio_blk/virtio_blk.cpp:184` | submit() takes no lock: two threads would share next_descriptor_ and last_used_. | One thread of the tree uses the disk: the self test, then the mount and the reads of kernel_init(). |
| `kernel/device/device.cpp:65` | The loop over the drivers runs without registry_lock while driver_unregister() moves an entry. | NoDeviceMissed |
| `kernel/device/device.cpp:44` | A device already bound is probed again when a later driver matches it. | see the disagreements of section 3 |
| `kernel/device/device.cpp:96` | A device that does not fit the table is not offered to any driver either. | NoDeviceMissed |
| `kernel/device/pci.cpp:66` | The table of functions is full before the scan is over. | AllRecorded |
| `kernel/device/pci.cpp:79` | A bridge that leads back to its own bus would be followed without end. | ScanEnds, DepthBounded |
| `kernel/device/pci.cpp:81` | Bridges whose bus numbers form a longer cycle are followed without end. | The firmware numbers the buses before the kernel runs; the model takes its numbering for granted. |
| `kernel/device/pci.cpp:225` | The size is the complement of a mask of 32 or 64 bits, whose upper half must be filled in for a 32 bit register. | BarExact |
| `kernel/device/pci.cpp:225` | A register that does not exist reads as zero and is reported with a length of 2^32. | Its callers look at the address, which is 0; the model checks the address only. |
| `kernel/fs/devfs.cpp:140` | A driver registers while devfs_refresh() walks the registry without its lock. | see the disagreements of section 3 |
| `kernel/fs/devfs.cpp:136` | A driver registers after devfs was created. | see the disagreements of section 3 |
| `kernel/block/block.cpp:171` | A wrapper is taken before the registry is asked, and none ever comes back. | After eight registrations no module can register a disk again; the model follows the code, and nothing in the repository promises more. |
| `kernel/fs/vfs.cpp:43` | A path that repeats a slash before or inside a mount point. | see the disagreements of section 3 |
| `kernel/fs/vfs.cpp:46` | A mount whose path is a prefix of another name, with and without trailing slashes. | ResolvesByNames |
| `kernel/fs/vfs.cpp:165` | A component longer than the buffer it is copied to. | see the disagreements of section 3 |
| `kernel/fs/vfs.cpp:121` | unmount() moves the last entry of the table into the free slot. | UnmountLeavesOthers |
| `kernel/fs/vfs.cpp:34` | mount_for() walks the table while another thread mounts or unmounts. | unmount() has no caller in the tree and all mounts are made by kernel_init() before any other thread resolves a path. |
| `kernel/fs/vfs.cpp:98` | After one path is mounted twice, unmounting a third may change which of the two answers. | Mounts of the tree have different paths, which the model assumes. |
| `kernel/fs/ramfs.cpp:76` | A write far behind the end leaves a gap and doubles the buffer several times. | ImplementsStore |
| `kernel/fs/ramfs.cpp:81` | The heap has no room for the larger buffer. | A write that fails returns before it changes anything, which the code shows at a glance; the heap has a module of its own. |
| `kernel/fs/ramfs.cpp:21` | A name longer than 31 characters is stored cut short and not found under the name it was created with. | The callers in the tree use short names, which the model assumes. |
| `kernel/fs/ext2.cpp:217` | The table of open inodes only grows: once it is full a file that was never opened cannot be. | LookupIsExact |
| `kernel/fs/ext2.cpp:244` | The last index of the indirect table, and the first one behind it. | ShortOnlyWithReason, ReadsTheFile |
| `kernel/fs/ext2.cpp:169` | The descriptors of an image with blocks of 1024 bytes are in another block than those of larger ones. | LookupIsExact |
| `kernel/fs/ext2.cpp:284` | A hole in a file ends the read instead of reading as zeroes. | ShortOnlyWithReason |
| `kernel/fs/ext2.cpp:157` | Blocks larger than a page are read into one page. | The images of the tree have blocks of at most a page, which the model assumes. |
| `modules/rtc/rtc.cpp:112` | The thread is preempted between the look at the update bit and the reads. | AnswerWasShown |
| `modules/rtc/rtc.cpp:63` | Midnight and noon in the format of twelve hours, and digits in BCD. | AnswerWasShown |
| `modules/rtc/rtc.cpp:142` | Leap days at the turn of a year and of February. | DaysExact |
| `modules/keyboard/keyboard.cpp:50` | A byte that arrived before the line was open stops the controller for good. | see the disagreements of section 3 |
| `modules/keyboard/keyboard.cpp:73` | A key comes in between the count and the store of a subscription. | see the disagreements of section 3 |
| `modules/keyboard/keyboard.cpp:85` | Two subscribers: a key that comes in while the table is shifted reaches one of them twice. | The tree has one subscriber. |
| `kernel/cpu/idt.cpp:189` | An interrupt that is not acknowledged, or a byte that is not read, ends the stream of keys. | KeysArrive |
| `kernel/cpu/idt.cpp:187` | The handler is tested and loaded again before the call. | The keyboard is linked into the image and its handler is never taken back. |
| `kernel/cpu/ioapic.cpp:34` | The index register and the window are written without a lock. | Only the boot and kinit route lines, one after the other. |
| `kernel/initrd.cpp:62` | An archive that is cut in the middle of a header or of a file. | InsideArchive, EveryCountedFileIsThere |
| `kernel/initrd.cpp:132` | The count is taken once and every later walk must agree with it. | EveryCountedFileIsThere, FindsTheName |
| `modules/vga/vga.cpp:112` | A letter, a tab or a newline at the last column of the last row. | ShowsTheLastLines |
| `modules/vga/vga.cpp:88` | The desktop draws while the console prints. | The desktop takes the screen from the console before it draws, and draws from one interrupt at a time. |

## 9. Plan

Done: the modules above, in this order: locks, scheduler, timers and clock, work
queue, page allocator, modules, SMP, page tables and their cached copies, panic,
heap and ranges, programs, block devices and file systems, input, screen and
initrd, firmware and command line, exceptions and their reports, capabilities.

Next, in this order:

1. Compositions that share state: Scheduler and WorkQueue, in which deferred
   calls run on threads that are preempted and may sleep; Paging and PageAlloc, in
   which a page is reused while another CPU still has a copy; Process over
   PageAlloc and Paging.
2. Proofs: `TablesExact` of Paging.
3. The rest of partly modelled components: relocation of module images, the pages
   that an image refused half way keeps, the legacy interrupt controller.
