----------------------------- MODULE CoreProofs -----------------------------
(***************************************************************************)
(* What a CPU keeps in order.  A program: the page tables and the entry    *)
(* stack of its thread, for any CPUs and threads, and what process_run()   *)
(* and its calls hold, for tables, files and memory of any size.  Then the *)
(* safety properties of IrqSpinLock, for any number of CPUs and any        *)
(* nesting of activations.                                                 *)
(***************************************************************************)
EXTENDS IrqSpinLock, UserMode, Process, TLAPS

----------------------------------------------------------------------------
(* The thread in ring 3                                                     *)

\* Between these two points of process_run() the thread's fields are set.
Leaving == {"self_again", "load_again", "clear"}
Inside == {"enter", "ring_3", "call", "tick"}
HasTss == Inside \cup {"activate"}
HasSpace == HasTss \cup Leaving \cup {"tss", "store"}
HasStack == HasSpace \cup {"set_space"}
HasPages == HasStack \cup {"self", "load", "set_stack"}

UserTypes ==
    /\ current \in [UserCpus -> Threads \cup {idle}]
    /\ tss_stack_top \in [UserCpus -> Threads \cup {nothing, Syscall}]
    /\ cr3 \in [UserCpus -> {"kernel", "process"}]
    /\ syscall_stack_ \in [Threads \cup {idle} -> {nothing, Syscall}]
    /\ space_root_ \in [Threads \cup {idle} -> {nothing, "process"}]
    /\ user_pc \in HasPages \cup {"start", "failed", "done"} /\ sleeping \in {"yes", "no"}

\* No thread runs on two CPUs, and none that sleeps runs.
OneCpuEach ==
    /\ \A c, d \in UserCpus : current[c] = current[d] /\ current[c] # idle => c = d
    /\ sleeping = "yes" => user_pc = "call" /\ \A c \in UserCpus : current[c] # Program

\* The block that this_cpu() gave is one of a CPU, perhaps of one the thread has left, and
\* current_thread() has given the thread itself.
KnowsItself ==
    /\ user_pc \in {"load", "store", "load_again"} => cpu_register \in UserCpus
    /\ user_pc \in {"set_stack", "set_space", "clear"} => self = Program

\* The fields of the threads follow from where the program's thread is.
FieldsInv ==
    /\ \A t \in Others \cup {idle} : syscall_stack_[t] = nothing /\ space_root_[t] = nothing
    /\ syscall_stack_[Program] = IF user_pc \in HasStack THEN Syscall ELSE nothing
    /\ space_root_[Program] = IF user_pc \in HasSpace THEN "process" ELSE nothing
    /\ stack_pages = IF user_pc \in HasPages THEN "taken" ELSE "free"
    /\ frame # nothing => frame = Syscall /\ user_pc \in {"call", "tick"}

\* The CPU that the thread is on has been told, by process_run() or, when a tick brought the
\* thread there after the read of this_cpu(), by switch_to().
CpuInv ==
    \A c \in UserCpus :
        /\ current[c] = Program /\ user_pc = "store" => cpu_register = c \/ tss_stack_top[c] = Syscall
        /\ current[c] = Program /\ user_pc \in HasTss => tss_stack_top[c] = Syscall
        /\ current[c] = Program /\ user_pc \in Inside => cr3[c] = "process"
        /\ current[c] \in Others => cr3[c] = "kernel"

UserInv == UserTypes /\ OneCpuEach /\ KnowsItself /\ FieldsInv /\ CpuInv

\* What the run checks follows from the invariant.
LEMMA UserInvIsEnough == mistaken \/ UserInv => ContextIsItsOwn
BY Zenon, ProgramIsAThread
   DEF UserInv, UserTypes, OneCpuEach, KnowsItself, FieldsInv, CpuInv, ContextIsItsOwn, ContextFollows,
       FrameOnLiveStack, NoThreadOnFreedStack, KernelThreadsOnKernelTables, Inside, HasTss, HasSpace,
       HasStack, HasPages, Leaving, Threads

\* It holds at boot: one idle CPU each, nothing loaded yet.
LEMMA UserInitInv == UserInit => UserInv
<1> SUFFICES ASSUME UserInit PROVE UserInv
    BY Zenon
<1> USE ProgramIsAThread
    DEF UserInit, Inside, HasTss, HasSpace, HasStack, HasPages, Leaving, Threads, nothing, Syscall, idle
<1>1. UserTypes
    BY Zenon DEF UserTypes, Stack
<1>2. OneCpuEach /\ KnowsItself
    BY Zenon DEF OneCpuEach, KnowsItself
<1>3. FieldsInv
    BY Zenon DEF FieldsInv
<1>4. CpuInv
    BY Zenon DEF CpuInv
<1>5. QED
    BY Zenon, <1>1, <1>2, <1>3, <1>4 DEF UserInv

\* A step of process_run() keeps the invariant, unless current_thread() gives it another thread.
LEMMA ProcessRunKeeps ==
    ASSUME UserInv, ~mistaken', NEW c \in UserCpus,
           \/ AllocateStack(c) \/ ReadCpu(c) \/ LoadCurrent(c) \/ SetStack(c) \/ SetSpace(c)
           \/ SetTss(c) \/ Activate(c) \/ Enter(c) \/ EnterKernel(c) \/ Return(c) \/ Leave(c) \/ Clear(c)
    PROVE  UserInv'
<1> USE ProgramIsAThread
    DEF Inside, HasTss, HasSpace, HasStack, HasPages, Leaving, Threads, nothing, Syscall, idle, On
<1>1. UserTypes /\ OneCpuEach /\ KnowsItself /\ FieldsInv /\ CpuInv
    BY Zenon DEF UserInv
<1>2. CASE AllocateStack(c)
    <2>1. UserTypes'
        BY Zenon, <1>1, <1>2 DEF AllocateStack, UserTypes, KnowsItself
    <2>2. OneCpuEach' /\ KnowsItself'
        BY Zenon, <1>1, <1>2 DEF AllocateStack, UserTypes, OneCpuEach, KnowsItself
    <2>3. FieldsInv'
        BY Zenon, <1>1, <1>2 DEF AllocateStack, UserTypes, FieldsInv, KnowsItself
    <2>4. CpuInv'
        BY Zenon, <1>1, <1>2 DEF AllocateStack, UserTypes, OneCpuEach, KnowsItself, CpuInv
    <2>5. QED
        BY Zenon, <2>1, <2>2, <2>3, <2>4 DEF UserInv
<1>3. CASE ReadCpu(c)
    <2>1. UserTypes'
        BY Zenon, <1>1, <1>3 DEF ReadCpu, UserTypes, KnowsItself
    <2>2. OneCpuEach' /\ KnowsItself'
        BY Zenon, <1>1, <1>3 DEF ReadCpu, UserTypes, OneCpuEach, KnowsItself
    <2>3. FieldsInv'
        BY Zenon, <1>1, <1>3 DEF ReadCpu, UserTypes, FieldsInv, KnowsItself
    <2>4. CpuInv'
        BY Zenon, <1>1, <1>3 DEF ReadCpu, UserTypes, OneCpuEach, KnowsItself, CpuInv
    <2>5. QED
        BY Zenon, <2>1, <2>2, <2>3, <2>4 DEF UserInv
<1>4. CASE LoadCurrent(c)
    <2>1. UserTypes'
        BY Zenon, <1>1, <1>4 DEF LoadCurrent, UserTypes, KnowsItself
    <2>2. OneCpuEach' /\ KnowsItself'
        BY Zenon, <1>1, <1>4 DEF LoadCurrent, UserTypes, OneCpuEach, KnowsItself
    <2>3. FieldsInv'
        BY Zenon, <1>1, <1>4 DEF LoadCurrent, UserTypes, FieldsInv, KnowsItself
    <2>4. CpuInv'
        BY Zenon, <1>1, <1>4 DEF LoadCurrent, UserTypes, OneCpuEach, KnowsItself, CpuInv
    <2>5. QED
        BY Zenon, <2>1, <2>2, <2>3, <2>4 DEF UserInv
<1>5. CASE SetStack(c)
    <2>1. UserTypes'
        BY Zenon, <1>1, <1>5 DEF SetStack, UserTypes, KnowsItself
    <2>2. OneCpuEach' /\ KnowsItself'
        BY Zenon, <1>1, <1>5 DEF SetStack, UserTypes, OneCpuEach, KnowsItself
    <2>3. FieldsInv'
        <3>1. \A t \in Threads \cup {idle} : syscall_stack_'[t] = IF t = Program THEN Syscall ELSE syscall_stack_[t]
            BY Zenon, <1>1, <1>5 DEF SetStack, UserTypes, KnowsItself
        <3>2. QED
            BY Zenon, <3>1, <1>1, <1>5 DEF SetStack, FieldsInv
    <2>4. CpuInv'
        BY Zenon, <1>1, <1>5 DEF SetStack, UserTypes, OneCpuEach, KnowsItself, CpuInv
    <2>5. QED
        BY Zenon, <2>1, <2>2, <2>3, <2>4 DEF UserInv
<1>6. CASE SetSpace(c)
    <2>1. UserTypes'
        BY Zenon, <1>1, <1>6 DEF SetSpace, UserTypes, KnowsItself
    <2>2. OneCpuEach' /\ KnowsItself'
        BY Zenon, <1>1, <1>6 DEF SetSpace, UserTypes, OneCpuEach, KnowsItself
    <2>3. FieldsInv'
        BY Zenon, <1>1, <1>6 DEF SetSpace, UserTypes, FieldsInv, KnowsItself
    <2>4. CpuInv'
        BY Zenon, <1>1, <1>6 DEF SetSpace, UserTypes, OneCpuEach, KnowsItself, CpuInv
    <2>5. QED
        BY Zenon, <2>1, <2>2, <2>3, <2>4 DEF UserInv
<1>7. CASE SetTss(c)
    <2>1. UserTypes'
        BY Zenon, <1>1, <1>7 DEF SetTss, TssStack, UserTypes, KnowsItself
    <2>2. OneCpuEach' /\ KnowsItself'
        BY Zenon, <1>1, <1>7 DEF SetTss, TssStack, UserTypes, OneCpuEach, KnowsItself
    <2>3. FieldsInv'
        BY Zenon, <1>1, <1>7 DEF SetTss, TssStack, UserTypes, FieldsInv, KnowsItself
    <2>4. CpuInv'
        BY <1>1, <1>7 DEF SetTss, TssStack, UserTypes, OneCpuEach, KnowsItself, CpuInv
    <2>5. QED
        BY Zenon, <2>1, <2>2, <2>3, <2>4 DEF UserInv
<1>8. CASE Activate(c)
    <2>1. UserTypes'
        BY Zenon, <1>1, <1>8 DEF Activate, UserTypes, KnowsItself
    <2>2. OneCpuEach' /\ KnowsItself'
        BY Zenon, <1>1, <1>8 DEF Activate, UserTypes, OneCpuEach, KnowsItself
    <2>3. FieldsInv'
        BY Zenon, <1>1, <1>8 DEF Activate, UserTypes, FieldsInv, KnowsItself
    <2>4. CpuInv'
        BY Zenon, <1>1, <1>8 DEF Activate, UserTypes, OneCpuEach, KnowsItself, CpuInv
    <2>5. QED
        BY Zenon, <2>1, <2>2, <2>3, <2>4 DEF UserInv
<1>9. CASE Enter(c)
    <2>1. UserTypes'
        BY Zenon, <1>1, <1>9 DEF Enter, UserTypes, KnowsItself
    <2>2. OneCpuEach' /\ KnowsItself'
        BY Zenon, <1>1, <1>9 DEF Enter, UserTypes, OneCpuEach, KnowsItself
    <2>3. FieldsInv'
        BY Zenon, <1>1, <1>9 DEF Enter, UserTypes, FieldsInv, KnowsItself
    <2>4. CpuInv'
        BY Zenon, <1>1, <1>9 DEF Enter, UserTypes, OneCpuEach, KnowsItself, CpuInv
    <2>5. QED
        BY Zenon, <2>1, <2>2, <2>3, <2>4 DEF UserInv
<1>10. CASE EnterKernel(c)
    <2>1. UserTypes'
        BY Zenon, <1>1, <1>10 DEF EnterKernel, UserTypes, KnowsItself
    <2>2. OneCpuEach' /\ KnowsItself'
        BY Zenon, <1>1, <1>10 DEF EnterKernel, UserTypes, OneCpuEach, KnowsItself
    <2>3. FieldsInv'
        BY Zenon, <1>1, <1>10 DEF EnterKernel, UserTypes, FieldsInv, CpuInv
    <2>4. CpuInv'
        BY Zenon, <1>1, <1>10 DEF EnterKernel, UserTypes, OneCpuEach, KnowsItself, CpuInv
    <2>5. QED
        BY Zenon, <2>1, <2>2, <2>3, <2>4 DEF UserInv
<1>11. CASE Return(c)
    <2>1. UserTypes'
        BY Zenon, <1>1, <1>11 DEF Return, UserTypes, KnowsItself
    <2>2. OneCpuEach' /\ KnowsItself'
        BY Zenon, <1>1, <1>11 DEF Return, UserTypes, OneCpuEach, KnowsItself
    <2>3. FieldsInv'
        BY Zenon, <1>1, <1>11 DEF Return, UserTypes, FieldsInv, KnowsItself
    <2>4. CpuInv'
        BY Zenon, <1>1, <1>11 DEF Return, UserTypes, OneCpuEach, KnowsItself, CpuInv
    <2>5. QED
        BY Zenon, <2>1, <2>2, <2>3, <2>4 DEF UserInv
<1>12. CASE Leave(c)
    <2>1. UserTypes'
        BY Zenon, <1>1, <1>12 DEF Leave, UserTypes, KnowsItself
    <2>2. OneCpuEach' /\ KnowsItself'
        BY Zenon, <1>1, <1>12 DEF Leave, UserTypes, OneCpuEach, KnowsItself
    <2>3. FieldsInv'
        BY Zenon, <1>1, <1>12 DEF Leave, UserTypes, FieldsInv, KnowsItself
    <2>4. CpuInv'
        BY Zenon, <1>1, <1>12 DEF Leave, UserTypes, OneCpuEach, KnowsItself, CpuInv
    <2>5. QED
        BY Zenon, <2>1, <2>2, <2>3, <2>4 DEF UserInv
<1>13. CASE Clear(c)
    <2>1. UserTypes'
        BY Zenon, <1>1, <1>13 DEF Clear, Cleared, UserTypes, KnowsItself
    <2>2. OneCpuEach' /\ KnowsItself'
        BY Zenon, <1>1, <1>13 DEF Clear, Cleared, UserTypes, OneCpuEach, KnowsItself
    <2>3. FieldsInv'
        BY Zenon, <1>1, <1>13 DEF Clear, Cleared, UserTypes, FieldsInv, KnowsItself
    <2>4. CpuInv'
        BY Zenon, <1>1, <1>13 DEF Clear, Cleared, UserTypes, OneCpuEach, KnowsItself, CpuInv
    <2>5. QED
        BY Zenon, <2>1, <2>2, <2>3, <2>4 DEF UserInv
<1>14. QED
    BY Zenon, <1>2, <1>3, <1>4, <1>5, <1>6, <1>7, <1>8, <1>9, <1>10, <1>11, <1>12, <1>13
Fits(c, t) ==
    /\ tss_stack_top' \in [UserCpus -> Threads \cup {nothing, Syscall}]
    /\ cr3' \in [UserCpus -> {"kernel", "process"}]
    /\ current' \in [UserCpus -> Threads \cup {idle}]
    /\ current'[c] = t /\ \A d \in UserCpus \ {c} : current'[d] = current[d]
    /\ \A d \in UserCpus \ {c} : tss_stack_top'[d] = tss_stack_top[d] /\ cr3'[d] = cr3[d]
    /\ t = Program /\ user_pc \in HasStack => tss_stack_top'[c] = Syscall
    /\ t = Program /\ user_pc \in Inside => cr3'[c] = "process"
    /\ t \in Others => cr3'[c] = "kernel"

\* What switch_to() gives the CPU fits the thread it is switched to.
LEMMA SwitchFits ==
    ASSUME UserInv, NEW c \in UserCpus, NEW t \in Threads \cup {idle}, t = Program => sleeping = "no",
           SwitchTo(c, t)
    PROVE  Fits(c, t)
<1> USE ProgramIsAThread
    DEF Inside, HasTss, HasSpace, HasStack, HasPages, Leaving, Threads, nothing, Syscall, idle
<1>1. UserTypes /\ FieldsInv
    BY Zenon DEF UserInv
<1>2. StackFor(t, c) \in Threads \cup {nothing, Syscall} /\ SpaceFor(t, c) \in {"kernel", "process"}
    BY Zenon, <1>1 DEF UserTypes, StackFor, SpaceFor
<1>3. t = Program /\ user_pc \in HasStack => StackFor(t, c) = Syscall
    BY Zenon, <1>1 DEF FieldsInv, StackFor
<1>4. t = Program /\ user_pc \in Inside => SpaceFor(t, c) = "process"
    BY Zenon, <1>1 DEF FieldsInv, SpaceFor
<1>5. t \in Others => SpaceFor(t, c) = "kernel"
    BY Zenon, <1>1 DEF FieldsInv, SpaceFor
<1>6. QED
    BY Zenon, <1>1, <1>2, <1>3, <1>4, <1>5 DEF UserTypes, SwitchTo, Fits

\* Wherever a tick takes the program from its CPU, where it goes on its stack and tables are set.
LEMMA SwitchKeeps ==
    ASSUME UserInv, NEW c \in UserCpus, NEW t \in Threads \cup {idle}, Tick(c, t) \/ Sleep(c, t)
    PROVE  UserInv'
<1> USE ProgramIsAThread
    DEF Inside, HasTss, HasSpace, HasStack, HasPages, Leaving, Threads, nothing, Syscall, idle
<1>1. UserTypes /\ OneCpuEach /\ KnowsItself /\ FieldsInv /\ CpuInv
    BY Zenon DEF UserInv
<1>2. SwitchTo(c, t) /\ (t = Program => sleeping = "no")
    BY Zenon, <1>1 DEF UserTypes, Tick, Sleep, Ready
<1>3. Fits(c, t)
    BY Zenon, <1>2, SwitchFits
<1>4. CASE Tick(c, t)
    <2> DEFINE inside == current[c] = Program /\ user_pc = "ring_3"
    <2>a. /\ t # current[c] /\ Ready(t)
          /\ current[c] = Program => ~InterruptsOff
          /\ inside => frame' = Syscall /\ user_pc' = "tick"
          /\ ~inside => frame' = frame /\ user_pc' = user_pc
          /\ UNCHANGED <<cpu_register, self, syscall_stack_, space_root_, stack_pages, running, sleeping>>
        BY Zenon, <1>1, <1>4 DEF Tick, CpuInv
    <2>b. \A d \in UserCpus : current'[d] = IF d = c THEN t ELSE current[d]
        BY Zenon, <1>3 DEF Fits
    <2>1. UserTypes'
        BY Zenon, <1>1, <1>3, <2>a, <2>b DEF Fits, UserTypes
    <2>2. OneCpuEach'
        BY <1>1, <1>3, <2>a, <2>b DEF Fits, Ready, InterruptsOff, UserTypes, OneCpuEach
    <2>3. KnowsItself'
        BY Zenon, <1>1, <1>3, <2>a, <2>b DEF Fits, Ready, InterruptsOff, UserTypes, KnowsItself
    <2>4. FieldsInv'
        BY <1>1, <1>3, <2>a, <2>b DEF Fits, UserTypes, FieldsInv, CpuInv
    <2>5. CpuInv'
        BY <1>1, <1>3, <2>a, <2>b DEF Fits, Ready, UserTypes, OneCpuEach, CpuInv
    <2>6. QED
        BY Zenon, <2>1, <2>2, <2>3, <2>4, <2>5 DEF UserInv
<1>5. CASE Sleep(c, t)
    <2>1. UserTypes'
        BY Zenon, <1>1, <1>3, <1>5 DEF Sleep, Fits, UserTypes
    <2>2. OneCpuEach'
        BY <1>1, <1>3, <1>5 DEF Sleep, Fits, On, Ready, UserTypes, OneCpuEach
    <2>3. KnowsItself'
        BY Zenon, <1>1, <1>3, <1>5 DEF Sleep, Fits, UserTypes, KnowsItself
    <2>4. FieldsInv'
        BY Zenon, <1>1, <1>3, <1>5 DEF Sleep, Fits, UserTypes, FieldsInv
    <2>5. CpuInv'
        BY <1>1, <1>3, <1>5 DEF Sleep, Fits, UserTypes, CpuInv
    <2>6. QED
        BY Zenon, <2>1, <2>2, <2>3, <2>4, <2>5 DEF UserInv
<1>6. QED
    BY Zenon, <1>4, <1>5

\* Wherever a tick moves the thread of a program, one between the loads of current_thread()
\* included, and as long as those loads gave it itself: its CPU enters the kernel on the
\* program's stack and uses its tables, and no frame is on a stack that was given back, for
\* any CPUs and threads.
THEOREM ContextStaysItsOwn == UserSpec => []ContextIsItsOwn
<1> DEFINE Kept == mistaken \/ UserInv
<1>1. UserInit => Kept
    BY Zenon, UserInitInv
<1>2. Kept /\ [UserNext]_user_vars => Kept'
    <2> SUFFICES ASSUME Kept, [UserNext]_user_vars, ~mistaken' PROVE UserInv'
        BY Zenon
    <2>1. ~mistaken
        BY Zenon DEF UserNext, user_vars, thread, AllocateStack, ReadCpu, LoadCurrent, SetStack, SetSpace,
                     SetTss, Activate, Enter, EnterKernel, Return, Leave, Clear, Tick, Sleep, Wake
    <2>2. CASE Wake
        BY Zenon, <2>1, <2>2 DEF Wake, UserInv, UserTypes, OneCpuEach, KnowsItself, FieldsInv, CpuInv
    <2>3. CASE UNCHANGED user_vars
        BY Zenon, <2>1, <2>3 DEF user_vars, thread, UserInv, UserTypes, OneCpuEach, KnowsItself, FieldsInv, CpuInv
    <2>4. QED
        BY Zenon, <2>1, <2>2, <2>3, ProcessRunKeeps, SwitchKeeps DEF UserNext
<1>3. Kept => ContextIsItsOwn
    BY Zenon, UserInvIsEnough
<1>4. QED
    BY <1>1, <1>2, <1>3, PTL DEF UserSpec
----------------------------------------------------------------------------
(* process_run()                                                            *)

\* What the call holds follows from where it is.
CallHolds ==
    /\ process_pc \in {"idle", "allocate", "load", "pages", "ring_3"}
    /\ owned \in Nat /\ kept \in Nat /\ lost \in Nat
    /\ image = IF process_pc \in {"allocate", "load", "pages"} THEN "buffer" ELSE "none"
    /\ syscall_stack = IF process_pc = "ring_3" THEN 4 ELSE 0

Named == [path : DOMAIN Files \cup {"none"}, offset : Nat]
Handles == [path : DOMAIN Files, read : Nat]

FilesTyped ==
    /\ file_size \in [DOMAIN Files -> Nat] /\ open_files \in [Slots -> Named]
    /\ given \in [DOMAIN given -> Handles] /\ \A h \in DOMAIN given : h \in Int /\ h - 3 \in Slots

ProcessInv == ProcessTypeOK /\ CallHolds /\ FramesAccounted /\ FilesTyped /\ HandlesAreFiles

\* It holds before the first program is loaded.
LEMMA ProcessInitInv == ProcessInit => ProcessInv
<1> SUFFICES ASSUME ProcessInit PROVE ProcessInv
    BY Zenon
<1>1. ProcessTypeOK /\ CallHolds /\ FramesAccounted
    BY Limits DEF ProcessInit, ProcessTypeOK, CallHolds, FramesAccounted
<1>2. FilesTyped /\ HandlesAreFiles
    <2>1. given \in [DOMAIN given -> Handles] /\ DOMAIN given = {}
        BY DEF ProcessInit
    <2>2. open_files \in [Slots -> Named]
        BY DEF ProcessInit, Named, unused
    <2>3. QED
        BY <2>1, <2>2, FilesHaveSizes DEF ProcessInit, FilesTyped, HandlesAreFiles
<1>3. QED
    BY Zenon, <1>1, <1>2 DEF ProcessInv

\* Loading a program, from its first byte to ring 3 or to an early return, and its end
LEMMA CallKeeps ==
    ASSUME ProcessInv,
           \/ ReadProgram \/ ReadFails \/ AllocateSlot \/ TableFull \/ LoadRoot \/ MapPage
           \/ MapFails \/ LoadFails \/ Loaded \/ Exit
    PROVE  ProcessTypeOK' /\ CallHolds' /\ FramesAccounted'
<1> USE Limits DEF ProcessInv, ProcessTypeOK, CallHolds, FramesAccounted, ImageFreed, FreedStack, SlotLeft
<1>1. CASE ReadProgram
    BY <1>1 DEF ReadProgram
<1>2. CASE ReadFails \/ TableFull \/ LoadFails
    BY <1>2 DEF ReadFails, TableFull, LoadFails
<1>3. CASE AllocateSlot
    BY <1>3 DEF AllocateSlot
<1>4. CASE LoadRoot \/ MapPage \/ MapFails
    BY <1>4 DEF LoadRoot, MapPage, MapFails
<1>5. CASE Loaded
    BY <1>5 DEF Loaded
<1>6. CASE Exit
    BY <1>6 DEF Exit
<1>7. QED
    BY Zenon, <1>1, <1>2, <1>3, <1>4, <1>5, <1>6

\* The handles keep their files while a program is loaded, and are gone at its end.
LEMMA CallKeepsFiles ==
    ASSUME ProcessInv,
           \/ ReadProgram \/ ReadFails \/ AllocateSlot \/ TableFull \/ LoadRoot \/ MapPage
           \/ MapFails \/ LoadFails \/ Loaded \/ Exit
    PROVE  FilesTyped' /\ HandlesAreFiles'
<1>1. FilesTyped /\ HandlesAreFiles
    BY Zenon DEF ProcessInv
<1>2. CASE Exit
    <2>1. given' \in [DOMAIN given' -> Handles] /\ DOMAIN given' = {}
        BY <1>2 DEF Exit
    <2>2. QED
        BY Zenon, <1>1, <1>2, <2>1 DEF Exit, FilesTyped, HandlesAreFiles
<1>3. CASE UNCHANGED <<open_files, file_size, given>>
    BY Zenon, <1>1, <1>3 DEF FilesTyped, HandlesAreFiles
<1>4. QED
    BY Zenon, <1>2, <1>3
       DEF ReadProgram, ReadFails, AllocateSlot, TableFull, LoadRoot, MapPage, MapFails, LoadFails, Loaded

\* open gives the program a slot that no handle of its names.
LEMMA OpenKeeps ==
    ASSUME FilesTyped, HandlesAreFiles, NEW path \in DOMAIN Files, sys_open(path)
    PROVE  FilesTyped' /\ HandlesAreFiles'
<1>1. PICK i \in Slots :
        /\ open_files' = [open_files EXCEPT ![i] = [path |-> path, offset |-> 0]]
        /\ given' = [h \in DOMAIN given \cup {i + 3} |->
                        IF h = i + 3 THEN [path |-> path, read |-> 0] ELSE given[h]]
    BY Zenon DEF sys_open
<1>2. file_size' = file_size
    BY Zenon DEF sys_open
<1>3. i \in Int
    BY Limits DEF Slots
<1>4. open_files' \in [Slots -> Named]
    BY <1>1 DEF FilesTyped, Named
<1>5. DOMAIN given' = DOMAIN given \cup {i + 3} /\ \A h \in DOMAIN given' : h \in Int /\ h - 3 \in Slots
    BY <1>1, <1>3 DEF FilesTyped
<1>6. \A h \in DOMAIN given \ {i + 3} : given'[h] = given[h] /\ open_files'[h - 3] = open_files[h - 3]
    BY <1>1, <1>3 DEF FilesTyped
<1>7. given'[i + 3] = [path |-> path, read |-> 0] /\ open_files'[i] = [path |-> path, offset |-> 0] /\ i + 3 - 3 = i
    BY <1>1, <1>3 DEF FilesTyped
<1>8. \A h \in DOMAIN given' : given'[h] \in Handles
    BY <1>5, <1>6, <1>7 DEF FilesTyped, Handles
<1>9. FilesTyped'
    BY Zenon, <1>1, <1>2, <1>4, <1>5, <1>8 DEF FilesTyped
<1>10. ASSUME NEW h \in DOMAIN given'
       PROVE  /\ open_files'[h - 3].path = given'[h].path /\ open_files'[h - 3].offset = given'[h].read
              /\ given'[h].read <= file_size[given'[h].path]
    <2>1. CASE h = i + 3
        <3>1. file_size[path] \in Nat
            BY Zenon DEF FilesTyped
        <3>2. h - 3 = i
            BY <1>3, <2>1
        <3>3. given'[h].path = path /\ given'[h].read = 0 /\ open_files'[h - 3].path = path /\ open_files'[h - 3].offset = 0
            BY <1>7, <2>1, <3>2
        <3>4. QED
            BY <3>1, <3>3
    <2>2. CASE h # i + 3
        BY Zenon, <1>5, <1>6, <2>2 DEF HandlesAreFiles
    <2>3. QED
        BY Zenon, <2>1, <2>2
<1>11. QED
    BY Zenon, <1>2, <1>9, <1>10 DEF HandlesAreFiles

\* read stops at the end of the file.
LEMMA ReadKeeps ==
    ASSUME FilesTyped, HandlesAreFiles, NEW h \in DOMAIN given, NEW length \in Nat, sys_read(h, length)
    PROVE  FilesTyped' /\ HandlesAreFiles'
<1> DEFINE i == h - 3
           n == ReadLength(i, length)
<1>1. /\ given[h] \in Handles /\ open_files[i] \in Named /\ h \in Int /\ i \in Slots
      /\ open_files[i].path = given[h].path /\ open_files[i].offset = given[h].read
      /\ given[h].read <= file_size[given[h].path] /\ file_size[given[h].path] \in Nat
    BY DEF FilesTyped, HandlesAreFiles, Handles
<1>2. n \in Nat /\ given[h].read + n <= file_size[given[h].path]
    BY <1>1 DEF ReadLength, Named, Handles
<1>3. /\ open_files' = [open_files EXCEPT ![i].offset = open_files[i].offset + n]
      /\ given' = [given EXCEPT ![h].read = given[h].read + n]
      /\ file_size' = file_size
    BY DEF sys_read, Advanced
<1> HIDE DEF n
<1>4. FilesTyped'
    <2>1. open_files' \in [Slots -> Named]
        BY <1>1, <1>2, <1>3 DEF FilesTyped, Named, Handles
    <2>2. given' \in [DOMAIN given -> Handles]
        BY <1>1, <1>2, <1>3 DEF FilesTyped, Handles
    <2>3. QED
        BY Zenon, <1>3, <2>1, <2>2 DEF FilesTyped
<1>5. /\ DOMAIN given' = DOMAIN given
      /\ \A g \in DOMAIN given \ {h} : given'[g] = given[g] /\ open_files'[g - 3] = open_files[g - 3]
    BY <1>1, <1>3 DEF FilesTyped
<1>6. /\ given'[h].path = given[h].path /\ given'[h].read = given[h].read + n
      /\ open_files'[i].path = given[h].path /\ open_files'[i].offset = given[h].read + n
    BY <1>1, <1>3 DEF FilesTyped, Named, Handles
<1>7. ASSUME NEW g \in DOMAIN given'
      PROVE  /\ open_files'[g - 3].path = given'[g].path /\ open_files'[g - 3].offset = given'[g].read
             /\ given'[g].read <= file_size[given'[g].path]
    <2>1. CASE g = h
        BY Zenon, <1>2, <1>6, <2>1
    <2>2. CASE g # h
        BY Zenon, <1>5, <2>2 DEF HandlesAreFiles
    <2>3. QED
        BY Zenon, <2>1, <2>2
<1>8. QED
    BY Zenon, <1>3, <1>4, <1>7 DEF HandlesAreFiles

\* write never makes a file shorter, so nobody has read past its end.
LEMMA WriteKeeps ==
    ASSUME FilesTyped, HandlesAreFiles, NEW h \in DOMAIN given, NEW length \in Nat, sys_write(h, length)
    PROVE  FilesTyped' /\ HandlesAreFiles'
<1> DEFINE path == open_files[h - 3].path
<1>1. path \in DOMAIN Files
    BY DEF FilesTyped, HandlesAreFiles, Handles
<1>2. /\ open_files' = open_files /\ given' = given
      /\ file_size' = [file_size EXCEPT ![path] = IF length > @ THEN length ELSE @]
    BY Zenon DEF sys_write
<1> HIDE DEF path
<1>3. \A p \in DOMAIN Files : file_size'[p] \in Nat /\ file_size'[p] >= file_size[p]
    BY <1>1, <1>2 DEF FilesTyped
<1>4. FilesTyped'
    BY <1>1, <1>2 DEF FilesTyped
<1>5. HandlesAreFiles'
    BY <1>2, <1>3 DEF FilesTyped, HandlesAreFiles, Handles
<1>6. QED
    BY Zenon, <1>4, <1>5

\* Closing a handle frees its slot and no other.
LEMMA CloseKeeps ==
    ASSUME FilesTyped, HandlesAreFiles, NEW h \in DOMAIN given, sys_close(h)
    PROVE  FilesTyped' /\ HandlesAreFiles'
<1>1. /\ file_size' = file_size
      /\ open_files' = [open_files EXCEPT ![h - 3] = unused]
      /\ given' = [g \in DOMAIN given \ {h} |-> given[g]]
    BY Zenon DEF sys_close
<1>2. FilesTyped'
    BY <1>1 DEF FilesTyped, Named, unused
<1>3. HandlesAreFiles'
    BY <1>1 DEF FilesTyped, HandlesAreFiles, Slots
<1>4. QED
    BY Zenon, <1>2, <1>3

\* Whichever step of process_run() fails, the call keeps neither the image nor the syscall
\* stack, every frame is accounted for but the one that a failing map() leaves behind, and every
\* handle stays with the file and the offset it stands for: for tables, files and memory of any size.
THEOREM ProgramStaysAccounted == ProcessSpec => []ProgramAccounted
<1>1. ProcessInit => ProcessInv
    BY Zenon, ProcessInitInv
<1>2. ProcessInv /\ [ProcessNext]_process_vars => ProcessInv'
    <2> SUFFICES ASSUME ProcessInv, [ProcessNext]_process_vars PROVE ProcessInv'
        BY Zenon
    <2> DEFINE Step == \/ ReadProgram \/ ReadFails \/ AllocateSlot \/ TableFull \/ LoadRoot \/ MapPage
                       \/ MapFails \/ LoadFails \/ Loaded \/ Exit
               System == \/ \E path \in DOMAIN Files : sys_open(path)
                         \/ \E h \in DOMAIN given : \/ sys_close(h)
                                                    \/ \E length \in 1..(max_user_string + 1) :
                                                           sys_read(h, length) \/ sys_write(h, length)
    <2>1. CASE Step
        BY Zenon, <2>1, CallKeeps, CallKeepsFiles DEF ProcessInv
    <2>2. CASE System
        <3>1. FilesTyped /\ HandlesAreFiles /\ 1..(max_user_string + 1) \subseteq Nat
            BY Limits DEF ProcessInv
        <3>2. FilesTyped' /\ HandlesAreFiles'
            BY Zenon, <2>2, <3>1, OpenKeeps, CloseKeeps, ReadKeeps, WriteKeeps
        <3>3. UNCHANGED <<process_pc, process_total, state, page_count, image, owned, kept, lost, syscall_stack, free, runs>>
            BY Zenon, <2>2 DEF sys_open, sys_close, sys_read, sys_write
        <3>4. QED
            BY Zenon, <3>2, <3>3 DEF ProcessInv, ProcessTypeOK, CallHolds, FramesAccounted
    <2>3. CASE UNCHANGED process_vars
        BY Zenon, <2>3 DEF process_vars, ProcessInv, ProcessTypeOK, CallHolds, FramesAccounted, FilesTyped, HandlesAreFiles
    <2>4. QED
        BY Zenon, <2>1, <2>2, <2>3 DEF ProcessNext
<1>3. ProcessInv => ProgramAccounted
    BY Zenon DEF ProcessInv, ProgramAccounted, BufferAndStackReturned, CallHolds
<1>4. QED
    BY <1>1, <1>2, <1>3, PTL DEF ProcessSpec

----------------------------------------------------------------------------
(* The spin lock that masks interrupts                                      *)

\* An activation that took the interrupt flag away: one past its cli, or any
\* activation of a handler.
Masks(c, k) ==
    /\ pc[c][k] # "none"
    /\ code[c][k] = "handler" \/ pc[c][k] \notin {"isr", "save", "cli"}
Saved(c, k) == pc[c][k] \notin {"none", "isr", "save"}

\* The activations are the levels up to depth.
StackInv ==
    \A c \in Cpu, k \in Level : pc[c][k] = "none" <=> k > depth[c]

\* locked_ says whether somebody holds, and there is one holder at most.
HolderInv ==
    /\ locked <=> \E c \in Cpu, k \in Level : Holding(c, k)
    /\ \A c, d \in Cpu : \A j, k \in Level :
           Holding(c, j) /\ Holding(d, k) => c = d /\ j = k

\* owner_ names the CPU of a holder between its two stores.
OwnerInv ==
    /\ \A c \in Cpu, k \in Level : pc[c][k] \in {"cs", "disown"} => owner = c
    /\ owner # NoOwner => \E k \in Level : pc[owner][k] \in {"cs", "disown"}

\* The flag is off while something masks it, and a handler found it on.
MaskInv ==
    \A c \in Cpu, k \in Level :
        /\ Masks(c, k) => irq[c] = "off"
        /\ pc[c][k] = "isr" => code[c][k] = "handler"
        /\ code[c][k] = "handler" /\ pc[c][k] # "none" =>
               \A j \in Level : j < k => ~Masks(c, j)

\* The flag save_flags() read was off if something masked it already, and code
\* that asks for the lock once more asks with the flag off.
SavedInv ==
    \A c \in Cpu, k \in Level : Saved(c, k) =>
        /\ code[c][k] = "handler" => flags[c][k] = "off"
        /\ \A j \in Level : j < k /\ Masks(c, j) => flags[c][k] = "off"

\* A holder that is not on top of its stack is in its guarded code.
BelowInv ==
    \A c \in Cpu, k \in Level : k < depth[c] /\ Holding(c, k) => pc[c][k] = "cs"

IndInv ==
    /\ TypeOK /\ StackInv /\ HolderInv /\ OwnerInv /\ MaskInv /\ SavedInv
    /\ BelowInv /\ PanicOnlyOnRecursion /\ NeverWaitsForItself

\* The two properties that are not conjuncts of the invariant follow.
LEMMA IndInvImplies == IndInv => MutualExclusion /\ HandlersRunMasked
<1> SUFFICES ASSUME IndInv PROVE MutualExclusion /\ HandlersRunMasked
  BY Zenon
<1>1. \A c \in Cpu, k \in Level : Holding(c, k) => irq[c] = "off"
  BY Zenon DEF IndInv, MaskInv, Masks, Holding
<1>2. MutualExclusion
  BY Zenon, <1>1 DEF IndInv, HolderInv, MutualExclusion
<1>3. HandlersRunMasked
  BY Zenon DEF IndInv, MaskInv, Masks, HandlersRunMasked
<1> QED
  BY Zenon, <1>2, <1>3

\* Nobody is in lock() or unlock() at first.
LEMMA InitInd == Init => IndInv
<1> SUFFICES ASSUME Init PROVE IndInv
  BY Zenon
<1> USE LockAssumption DEF Init, Level
<1>1. TypeOK
  <2>1. pc \in [Cpu -> [Level -> PcValue]]
    BY Zenon DEF PcValue
  <2>2. code \in [Cpu -> [Level -> {"thread", "handler"}]]
    BY Zenon
  <2>3. flags \in [Cpu -> [Level -> {"on", "off"}]]
    BY Zenon
  <2>4. irq \in [Cpu -> {"on", "off"}] /\ depth \in [Cpu -> 0..MaxDepth]
    OBVIOUS
  <2> QED
    BY ZenonT(30), <2>1, <2>2, <2>3, <2>4 DEF TypeOK
<1>2. StackInv
  BY DEF StackInv
<1>3. HolderInv /\ OwnerInv
  BY Zenon DEF HolderInv, OwnerInv, Holding
<1>4. MaskInv /\ SavedInv
  BY Zenon DEF MaskInv, SavedInv, Masks, Saved
<1>5. BelowInv /\ PanicOnlyOnRecursion /\ NeverWaitsForItself
  BY Zenon DEF BelowInv, PanicOnlyOnRecursion, NeverWaitsForItself, Holding
<1> QED
  BY Zenon, <1>1, <1>2, <1>3, <1>4, <1>5 DEF IndInv

----------------------------------------------------------------------------
(* Steps that move the top activation of a CPU from one label to another.  *)

Moved(c, k, a, b) ==
    /\ k = depth[c] /\ pc[c][k] = a /\ pc'[c][k] = b
    /\ \A d \in Cpu, j \in Level : d # c \/ j # k => pc'[d][j] = pc[d][j]
    /\ \A j \in Level : j \in Nat
    /\ \A d \in Cpu : depth[d] \in Nat

\* What the proofs need of the order of the levels.
LEMMA Order ==
  ASSUME NEW i \in Nat, NEW j \in Nat, NEW k \in Nat
  PROVE  /\ i < j => i # j
         /\ i < j /\ j < k => i # k
         /\ i < j /\ j <= k => i # k
         /\ ~(j > k) => j <= k
         /\ j <= k /\ j # k => j < k
         /\ ~(j > k) /\ j # k => j < k
  OBVIOUS

\* What At and Goto say together.
LEMMA Move ==
  ASSUME NEW c \in Cpu, NEW k \in Level, NEW a, NEW b \in PcValue, IndInv,
         At(c, k, a), Goto(c, k, b)
  PROVE  Moved(c, k, a, b) /\ pc' \in [Cpu -> [Level -> PcValue]]
<1>1. pc' \in [Cpu -> [Level -> PcValue]]
  BY Zenon DEF Goto, IndInv, TypeOK
<1>2. pc'[c][k] = b
      /\ \A d \in Cpu, j \in Level : d # c \/ j # k => pc'[d][j] = pc[d][j]
  BY Zenon DEF Goto, IndInv, TypeOK
<1>3. /\ \A j \in Level : j \in Nat
      /\ \A d \in Cpu : depth[d] \in Nat
  BY LockAssumption DEF IndInv, TypeOK, Level
<1> QED
  BY Zenon, <1>1, <1>2, <1>3 DEF Moved, At

\* The stack does not grow or shrink when an activation only moves on.
LEMMA MoveStack ==
  ASSUME NEW c \in Cpu, NEW k \in Level, NEW a, NEW b, IndInv,
         Moved(c, k, a, b), b # "none", UNCHANGED depth
  PROVE  StackInv'
  BY DEF Moved, StackInv, IndInv

\* A move outside the guarded region changes nothing of who holds the lock.
LEMMA MoveOutside ==
  ASSUME NEW c \in Cpu, NEW k \in Level, NEW a, NEW b, IndInv,
         Moved(c, k, a, b),
         a \notin {"own", "cs", "disown", "release"},
         b \notin {"own", "cs", "disown", "release"},
         UNCHANGED <<locked, owner, depth>>
  PROVE  /\ HolderInv' /\ OwnerInv' /\ BelowInv'
         /\ \A d \in Cpu, j \in Level : Holding(d, j)' <=> Holding(d, j)
<1>1. \A d \in Cpu, j \in Level : Holding(d, j)' <=> Holding(d, j)
  BY Zenon DEF Holding, Moved
<1>2. HolderInv'
  BY ZenonT(30), <1>1 DEF HolderInv, IndInv
<1>3. OwnerInv'
  BY ZenonT(40) DEF Moved, OwnerInv, IndInv, TypeOK
<1>4. BelowInv'
  BY <1>1 DEF Moved, BelowInv, IndInv
<1> QED
  BY Zenon, <1>1, <1>2, <1>3, <1>4

\* A move that leaves the interrupt flag and what masks it alone.
LEMMA MoveMask ==
  ASSUME NEW c \in Cpu, NEW k \in Level, NEW a, NEW b, IndInv,
         Moved(c, k, a, b), a # "none", b # "none",
         a \in {"isr", "save", "cli"} <=> b \in {"isr", "save", "cli"},
         b \notin {"isr", "save"} => a \notin {"isr", "save"}, b # "isr",
         UNCHANGED <<irq, flags, code>>
  PROVE  MaskInv' /\ SavedInv'
<1>1. \A d \in Cpu, j \in Level : Masks(d, j)' <=> Masks(d, j)
  BY ZenonT(30) DEF Moved, Masks
<1>2. \A d \in Cpu, j \in Level : Saved(d, j)' => Saved(d, j)
  BY Zenon DEF Moved, Saved
<1>3. \A d \in Cpu, j \in Level : pc'[d][j] = "none" <=> pc[d][j] = "none"
  BY Zenon DEF Moved
<1>4. MaskInv'
  <2>1. \A d \in Cpu, j \in Level : pc'[d][j] = "isr" => pc[d][j] = "isr"
    BY Zenon DEF Moved
  <2> QED
    BY ZenonT(30), <1>1, <1>3, <2>1 DEF MaskInv, IndInv
<1>5. SavedInv'
  BY Zenon, <1>1, <1>2 DEF SavedInv, IndInv
<1> QED
  BY Zenon, <1>4, <1>5

\* A move to a label other than panic and spin, while the holders below stay.
LEMMA MoveSafe ==
  ASSUME NEW c \in Cpu, NEW k \in Level, NEW a, NEW b, IndInv,
         Moved(c, k, a, b), b \notin {"panic", "spin"}
  PROVE  PanicOnlyOnRecursion' /\ NeverWaitsForItself'
<1>1. \A d \in Cpu, j \in Level : pc[d][j] # "none" => j <= depth[d]
  BY DEF StackInv, IndInv, Moved
<1>2. PanicOnlyOnRecursion'
  BY <1>1 DEF PanicOnlyOnRecursion, IndInv, Moved, Holding
<1>3. NeverWaitsForItself'
  BY <1>1 DEF NeverWaitsForItself, IndInv, Moved, Holding
<1> QED
  BY Zenon, <1>2, <1>3

----------------------------------------------------------------------------
(* One lemma per action.                                                   *)

LEMMA HandlerCallInd ==
  ASSUME NEW c \in Cpu, NEW k \in Level, IndInv, HandlerCall(c, k)
  PROVE  IndInv'
<1>1. /\ Moved(c, k, "isr", "save") /\ pc' \in [Cpu -> [Level -> PcValue]]
      /\ UNCHANGED <<locked, owner, irq, depth, flags, code>>
  BY Zenon, Move DEF HandlerCall, PcValue
<1>2. TypeOK'
  BY Zenon, <1>1 DEF IndInv, TypeOK
<1>3. StackInv' /\ HolderInv' /\ OwnerInv' /\ BelowInv'
  BY Zenon, <1>1, MoveStack, MoveOutside
<1>4. MaskInv' /\ SavedInv'
  BY Zenon, <1>1, MoveMask
<1>5. PanicOnlyOnRecursion' /\ NeverWaitsForItself'
  BY <1>1, MoveSafe
<1> QED
  BY Zenon, <1>2, <1>3, <1>4, <1>5 DEF IndInv

LEMMA SaveFlagsInd ==
  ASSUME NEW c \in Cpu, NEW k \in Level, IndInv, SaveFlags(c, k)
  PROVE  IndInv'
<1>1. /\ Moved(c, k, "save", "cli") /\ pc' \in [Cpu -> [Level -> PcValue]]
      /\ UNCHANGED <<locked, owner, irq, depth, code>>
  BY Zenon, Move DEF SaveFlags, PcValue
<1>2. /\ flags' \in [Cpu -> [Level -> {"on", "off"}]]
      /\ flags'[c][k] = irq[c]
      /\ \A d \in Cpu, j \in Level : d # c \/ j # k => flags'[d][j] = flags[d][j]
  BY Zenon DEF SaveFlags, IndInv, TypeOK
<1>3. TypeOK'
  BY Zenon, <1>1, <1>2 DEF IndInv, TypeOK
<1>4. StackInv' /\ HolderInv' /\ OwnerInv' /\ BelowInv'
  BY Zenon, <1>1, MoveStack, MoveOutside
<1>5. \A d \in Cpu, j \in Level : Masks(d, j)' <=> Masks(d, j)
  BY Zenon, <1>1 DEF Moved, Masks
<1>6. MaskInv'
  BY SMTT(20), <1>1, <1>5 DEF Moved, MaskInv, IndInv
<1>7. SavedInv'
  <2>1. \A d \in Cpu, j \in Level : Saved(d, j)' => Saved(d, j) \/ (d = c /\ j = k)
    BY Zenon, <1>1 DEF Moved, Saved
  <2>2. code[c][k] = "handler" => irq[c] = "off"
    BY Zenon, <1>1 DEF Moved, MaskInv, Masks, IndInv
  <2>3. \A j \in Level : Masks(c, j) => irq[c] = "off"
    BY Zenon DEF MaskInv, IndInv
  <2> QED
    BY <1>1, <1>2, <1>5, <2>1, <2>2, <2>3 DEF SavedInv, IndInv
<1>8. PanicOnlyOnRecursion' /\ NeverWaitsForItself'
  BY <1>1, MoveSafe
<1> QED
  BY Zenon, <1>3, <1>4, <1>6, <1>7, <1>8 DEF IndInv

LEMMA CliInd ==
  ASSUME NEW c \in Cpu, NEW k \in Level, IndInv, Cli(c, k)
  PROVE  IndInv'
<1>1. /\ Moved(c, k, "cli", "held") /\ pc' \in [Cpu -> [Level -> PcValue]]
      /\ UNCHANGED <<locked, owner, depth, flags, code>>
  BY Zenon, Move DEF Cli, PcValue
<1>2. /\ irq' \in [Cpu -> {"on", "off"}]
      /\ irq'[c] = "off" /\ \A d \in Cpu : d # c => irq'[d] = irq[d]
  BY Zenon DEF Cli, IndInv, TypeOK
<1>3. TypeOK'
  BY Zenon, <1>1, <1>2 DEF IndInv, TypeOK
<1>4. StackInv' /\ HolderInv' /\ OwnerInv' /\ BelowInv'
  BY Zenon, <1>1, MoveStack, MoveOutside
<1>5. \A j \in Level : pc[c][j] # "none" => j <= k
  BY <1>1 DEF Moved, StackInv, IndInv
<1>6. \A d \in Cpu, j \in Level : d # c \/ j # k => (Masks(d, j)' <=> Masks(d, j))
  BY Zenon, <1>1 DEF Moved, Masks
<1>7. MaskInv'
  <2> SUFFICES ASSUME NEW d \in Cpu, NEW j \in Level
               PROVE  /\ Masks(d, j)' => irq'[d] = "off"
                      /\ pc'[d][j] = "isr" => code'[d][j] = "handler"
                      /\ code'[d][j] = "handler" /\ pc'[d][j] # "none" =>
                             \A i \in Level : i < j => ~Masks(d, i)'
    BY Zenon DEF MaskInv
  <2>1. /\ Masks(d, j) => irq[d] = "off"
        /\ pc[d][j] = "isr" => code[d][j] = "handler"
        /\ code[d][j] = "handler" /\ pc[d][j] # "none" =>
               \A i \in Level : i < j => ~Masks(d, i)
    BY Zenon DEF MaskInv, IndInv
  <2>2. Masks(d, j)' => irq'[d] = "off"
    BY Zenon, <1>2, <1>6, <2>1
  <2>3. code' = code /\ (pc'[d][j] = "isr" => pc[d][j] = "isr")
        /\ (pc'[d][j] # "none" => pc[d][j] # "none")
    BY Zenon, <1>1 DEF Moved
  <2>4. \A i \in Level : i < j /\ pc[d][j] # "none" => (Masks(d, i)' <=> Masks(d, i))
    <3>1. \A i \in Level : i < j /\ j <= k => i # k
      BY Zenon, <1>1, Order DEF Moved
    <3> QED
      BY Zenon, <1>5, <1>6, <3>1
  <2> QED
    BY Zenon, <2>1, <2>2, <2>3, <2>4
<1>8. SavedInv'
  <2>1. \A d \in Cpu, j \in Level : Saved(d, j)' => Saved(d, j) /\ pc[d][j] # "none"
    BY Zenon, <1>1 DEF Moved, Saved
  <2> QED
    BY <1>1, <1>5, <1>6, <2>1 DEF Moved, SavedInv, IndInv
<1>9. PanicOnlyOnRecursion' /\ NeverWaitsForItself'
  BY <1>1, MoveSafe
<1> QED
  BY Zenon, <1>3, <1>4, <1>7, <1>8, <1>9 DEF IndInv

\* A holder below the top is in its guarded code, so owner_ names its CPU.
LEMMA HolderBelow ==
  ASSUME NEW c \in Cpu, NEW k \in Level, NEW j \in Level, NEW a, NEW b, IndInv,
         Moved(c, k, a, b), j < k, Holding(c, j)
  PROVE  locked /\ owner = c
<1>1. pc[c][j] = "cs"
  BY Zenon DEF BelowInv, IndInv, Moved
<1>2. locked
  BY Zenon DEF HolderInv, IndInv
<1> QED
  BY Zenon, <1>1, <1>2 DEF OwnerInv, IndInv

LEMMA CheckHeldInd ==
  ASSUME NEW c \in Cpu, NEW k \in Level, IndInv, CheckHeld(c, k)
  PROVE  IndInv'
<1> DEFINE b == IF locked THEN "who" ELSE "spin"
<1>0. b \in PcValue /\ b \in {"who", "spin"}
  BY Zenon DEF PcValue
<1>1. /\ Moved(c, k, "held", b) /\ pc' \in [Cpu -> [Level -> PcValue]]
      /\ UNCHANGED <<locked, owner, irq, depth, flags, code>>
  BY Zenon, <1>0, Move DEF CheckHeld
<1>2. TypeOK'
  BY Zenon, <1>1 DEF IndInv, TypeOK
<1>3. StackInv' /\ HolderInv' /\ OwnerInv' /\ BelowInv'
      /\ \A d \in Cpu, j \in Level : Holding(d, j)' <=> Holding(d, j)
  BY Zenon, <1>0, <1>1, MoveStack, MoveOutside
<1>4. MaskInv' /\ SavedInv'
  BY Zenon, <1>0, <1>1, MoveMask
<1>5. PanicOnlyOnRecursion'
  BY ZenonT(40), <1>0, <1>1, <1>3 DEF Moved, PanicOnlyOnRecursion, IndInv
<1>6. NeverWaitsForItself'
  <2>1. \A j \in Level : j < k /\ Holding(c, j) => b # "spin"
    BY Zenon, <1>1, HolderBelow
  <2> QED
    BY <1>1, <1>3, <2>1 DEF Moved, NeverWaitsForItself, IndInv
<1> QED
  BY Zenon, <1>2, <1>3, <1>4, <1>5, <1>6 DEF IndInv

LEMMA CheckOwnerInd ==
  ASSUME NEW c \in Cpu, NEW k \in Level, IndInv, CheckOwner(c, k)
  PROVE  IndInv'
<1> DEFINE b == IF owner = c THEN "panic" ELSE "spin"
<1>0. b \in PcValue /\ b \in {"panic", "spin"}
  BY Zenon DEF PcValue
<1>1. /\ Moved(c, k, "who", b) /\ pc' \in [Cpu -> [Level -> PcValue]]
      /\ UNCHANGED <<locked, owner, irq, depth, flags, code>>
  BY Zenon, <1>0, Move DEF CheckOwner
<1>2. TypeOK'
  BY Zenon, <1>1 DEF IndInv, TypeOK
<1>3. StackInv' /\ HolderInv' /\ OwnerInv' /\ BelowInv'
      /\ \A d \in Cpu, j \in Level : Holding(d, j)' <=> Holding(d, j)
  BY Zenon, <1>0, <1>1, MoveStack, MoveOutside
<1>4. MaskInv' /\ SavedInv'
  BY Zenon, <1>0, <1>1, MoveMask
<1>5. PanicOnlyOnRecursion'
  <2>1. owner = c => \E j \in Level : j < k /\ Holding(c, j)
    <3> SUFFICES ASSUME owner = c PROVE \E j \in Level : j < k /\ Holding(c, j)
      BY Zenon
    <3>1. PICK j \in Level : pc[c][j] \in {"cs", "disown"}
      BY Zenon, LockAssumption DEF OwnerInv, IndInv
    <3>2. pc[c][j] # "none" /\ j # k
      BY Zenon, <1>1, <3>1 DEF Moved
    <3>3. ~(j > depth[c])
      BY Zenon, <3>2 DEF StackInv, IndInv
    <3>4. j < k
      BY Zenon, <1>1, <3>2, <3>3, Order DEF Moved
    <3> QED
      BY Zenon, <3>1, <3>4 DEF Holding
  <2> QED
    BY ZenonT(40), <1>1, <1>3, <2>1 DEF Moved, PanicOnlyOnRecursion, IndInv
<1>6. NeverWaitsForItself'
  <2>1. \A j \in Level : j < k /\ Holding(c, j) => b # "spin"
    BY Zenon, <1>1, HolderBelow
  <2> QED
    BY <1>1, <1>3, <2>1 DEF Moved, NeverWaitsForItself, IndInv
<1> QED
  BY Zenon, <1>2, <1>3, <1>4, <1>5, <1>6 DEF IndInv

LEMMA ExchangeInd ==
  ASSUME NEW c \in Cpu, NEW k \in Level, IndInv, Exchange(c, k)
  PROVE  IndInv'
<1>1. /\ Moved(c, k, "spin", "own") /\ pc' \in [Cpu -> [Level -> PcValue]]
      /\ ~locked /\ locked' = TRUE
      /\ UNCHANGED <<owner, irq, depth, flags, code>>
  BY Zenon, Move DEF Exchange, PcValue
<1>2. TypeOK'
  BY Zenon, <1>1 DEF IndInv, TypeOK
<1>3. StackInv'
  BY Zenon, <1>1, MoveStack
<1>4. \A d \in Cpu, j \in Level : Holding(d, j)' <=> d = c /\ j = k
  BY ZenonT(30), <1>1 DEF Moved, Holding, HolderInv, IndInv
<1>5. HolderInv'
  BY Zenon, <1>1, <1>4 DEF HolderInv
<1>6. OwnerInv'
  BY <1>1, ZenonT(40) DEF Moved, OwnerInv, IndInv, TypeOK
<1>7. BelowInv'
  BY <1>1, <1>4 DEF Moved, BelowInv
<1>8. MaskInv' /\ SavedInv'
  BY Zenon, <1>1, MoveMask
<1>9. PanicOnlyOnRecursion' /\ NeverWaitsForItself'
  BY <1>1, MoveSafe
<1> QED
  BY Zenon, <1>2, <1>3, <1>5, <1>6, <1>7, <1>8, <1>9 DEF IndInv

\* The holder moves inside its guarded region.
LEMMA MoveInside ==
  ASSUME NEW c \in Cpu, NEW k \in Level, NEW a, NEW b, IndInv,
         Moved(c, k, a, b),
         a \in {"own", "cs", "disown", "release"},
         b \in {"own", "cs", "disown", "release"},
         UNCHANGED <<locked, irq, depth, flags, code>>
  PROVE  /\ StackInv' /\ HolderInv' /\ BelowInv' /\ MaskInv' /\ SavedInv'
         /\ PanicOnlyOnRecursion' /\ NeverWaitsForItself'
<1>1. \A d \in Cpu, j \in Level : Holding(d, j)' <=> Holding(d, j)
  BY Zenon DEF Moved, Holding
<1>2. HolderInv'
  BY ZenonT(40), <1>1 DEF HolderInv, IndInv
<1>3. BelowInv'
  BY <1>1 DEF Moved, BelowInv, IndInv
<1> QED
  BY Zenon, <1>2, <1>3, MoveStack, MoveMask, MoveSafe

LEMMA StoreOwnerInd ==
  ASSUME NEW c \in Cpu, NEW k \in Level, IndInv, StoreOwner(c, k)
  PROVE  IndInv'
<1>1. /\ Moved(c, k, "own", "cs") /\ pc' \in [Cpu -> [Level -> PcValue]]
      /\ owner' = c
      /\ UNCHANGED <<locked, irq, depth, flags, code>>
  BY Zenon, Move DEF StoreOwner, PcValue
<1>2. TypeOK'
  BY Zenon, <1>1 DEF IndInv, TypeOK
<1>3. OwnerInv'
  <2>1. \A d \in Cpu, j \in Level : pc[d][j] \in {"cs", "disown"} => d = c /\ j = k
    BY <1>1 DEF Moved, HolderInv, Holding, IndInv
  <2> QED
    BY Zenon, <1>1, <2>1 DEF Moved, OwnerInv
<1> QED
  BY Zenon, <1>1, <1>2, <1>3, MoveInside DEF IndInv

LEMMA UnlockInd ==
  ASSUME NEW c \in Cpu, NEW k \in Level, IndInv, Unlock(c, k)
  PROVE  IndInv'
<1>1. /\ Moved(c, k, "cs", "disown") /\ pc' \in [Cpu -> [Level -> PcValue]]
      /\ UNCHANGED <<locked, owner, irq, depth, flags, code>>
  BY Zenon, Move DEF Unlock, PcValue
<1>2. TypeOK'
  BY Zenon, <1>1 DEF IndInv, TypeOK
<1>3. OwnerInv'
  BY <1>1 DEF Moved, OwnerInv, IndInv, TypeOK
<1> QED
  BY Zenon, <1>1, <1>2, <1>3, MoveInside DEF IndInv

LEMMA DisownInd ==
  ASSUME NEW c \in Cpu, NEW k \in Level, IndInv, Disown(c, k)
  PROVE  IndInv'
<1>1. /\ Moved(c, k, "disown", "release") /\ pc' \in [Cpu -> [Level -> PcValue]]
      /\ owner' = NoOwner
      /\ UNCHANGED <<locked, irq, depth, flags, code>>
  BY Zenon, Move DEF Disown, PcValue
<1>2. TypeOK'
  BY Zenon, <1>1 DEF IndInv, TypeOK
<1>3. OwnerInv'
  <2>1. \A d \in Cpu, j \in Level : pc[d][j] \in {"cs", "disown"} => d = c /\ j = k
    BY <1>1 DEF Moved, HolderInv, Holding, IndInv
  <2> QED
    BY Zenon, <1>1, <2>1 DEF Moved, OwnerInv
<1> QED
  BY Zenon, <1>1, <1>2, <1>3, MoveInside DEF IndInv

LEMMA ReleaseInd ==
  ASSUME NEW c \in Cpu, NEW k \in Level, IndInv, Release(c, k)
  PROVE  IndInv'
<1>1. /\ Moved(c, k, "release", "restore") /\ pc' \in [Cpu -> [Level -> PcValue]]
      /\ locked' = FALSE
      /\ UNCHANGED <<owner, irq, depth, flags, code>>
  BY Zenon, Move DEF Release, PcValue
<1>2. TypeOK'
  BY ZenonT(30), <1>1 DEF IndInv, TypeOK
<1>3. StackInv' /\ MaskInv' /\ SavedInv'
  BY Zenon, <1>1, MoveStack, MoveMask
<1>4. \A d \in Cpu, j \in Level : ~Holding(d, j)'
  <2>1. \A d \in Cpu, j \in Level : Holding(d, j) => d = c /\ j = k
    BY <1>1 DEF Moved, HolderInv, Holding, IndInv
  <2> QED
    BY Zenon, <1>1, <2>1 DEF Moved, Holding
<1>5. HolderInv' /\ BelowInv'
  BY Zenon, <1>1, <1>4 DEF HolderInv, BelowInv
<1>6. OwnerInv'
  BY <1>1, ZenonT(40) DEF Moved, OwnerInv, IndInv, TypeOK
<1>7. PanicOnlyOnRecursion' /\ NeverWaitsForItself'
  BY <1>1, MoveSafe
<1> QED
  BY Zenon, <1>2, <1>3, <1>5, <1>6, <1>7 DEF IndInv

----------------------------------------------------------------------------
(* Steps that push an activation or pop one.                               *)

\* What Push leaves: one more activation, every other one as it was.
Pushed(c, l, by, k) ==
    /\ pc[c][k] = "none"
    /\ pc' \in [Cpu -> [Level -> PcValue]]
    /\ depth' \in [Cpu -> 0..MaxDepth]
    /\ code' \in [Cpu -> [Level -> {"thread", "handler"}]]
    /\ depth'[c] = k /\ pc'[c][k] = l /\ code'[c][k] = by
    /\ \A d \in Cpu : d # c => depth'[d] = depth[d]
    /\ \A d \in Cpu, j \in Level : d # c \/ j # k =>
           pc'[d][j] = pc[d][j] /\ code'[d][j] = code[d][j]
    /\ \A j \in Level : j \in Nat
    /\ \A d \in Cpu : depth[d] \in Nat

\* Push leaves that.
LEMMA PushFacts ==
  ASSUME NEW c \in Cpu, NEW l \in PcValue, NEW by \in {"thread", "handler"},
         NEW k \in Level, k = depth[c] + 1, IndInv, Push(c, l, by)
  PROVE  Pushed(c, l, by, k)
<1>1. /\ \A j \in Level : j \in Nat
      /\ \A d \in Cpu : depth[d] \in Nat
  BY LockAssumption DEF IndInv, TypeOK, Level
<1>2. pc[c][k] = "none"
  BY <1>1 DEF IndInv, StackInv
<1>4. depth' \in [Cpu -> 0..MaxDepth]
      /\ depth'[c] = k /\ \A d \in Cpu : d # c => depth'[d] = depth[d]
  BY LockAssumption DEF Push, IndInv, TypeOK, Level
<1>5. pc' = [pc EXCEPT ![c][k] = l] /\ code' = [code EXCEPT ![c][k] = by]
  BY Zenon DEF Push
<1>6. /\ pc' \in [Cpu -> [Level -> PcValue]]
      /\ pc'[c][k] = l
      /\ \A d \in Cpu, j \in Level : d # c \/ j # k => pc'[d][j] = pc[d][j]
  BY Zenon, <1>5 DEF IndInv, TypeOK
<1>7. /\ code' \in [Cpu -> [Level -> {"thread", "handler"}]]
      /\ code'[c][k] = by
      /\ \A d \in Cpu, j \in Level : d # c \/ j # k => code'[d][j] = code[d][j]
  BY Zenon, <1>5 DEF IndInv, TypeOK
<1> QED
  BY Zenon, <1>1, <1>2, <1>4, <1>6, <1>7 DEF Pushed

\* The level above a depth.
LEMMA Above ==
  ASSUME NEW n \in Nat
  PROVE  /\ ~(n + 1 > n + 1)
         /\ \A j \in Nat : j # n + 1 => (j > n <=> j > n + 1)
         /\ \A j \in Nat : j < n + 1 /\ j # n => j < n
         /\ \A j \in Nat : ~(j > n) => j < n + 1
  OBVIOUS

\* Pushing is safe when the interrupted holder is in its guarded code, and
\* when a handler finds nothing that masks interrupts.
LEMMA PushInd ==
  ASSUME NEW c \in Cpu, NEW l \in {"save", "isr"},
         NEW by \in {"thread", "handler"}, NEW k \in Level, k = depth[c] + 1,
         IndInv, Push(c, l, by),
         irq' \in [Cpu -> {"on", "off"}],
         \A d \in Cpu : d # c => irq'[d] = irq[d],
         irq[c] = "off" => irq'[c] = "off",
         by = "handler" => irq'[c] = "off" /\ irq[c] = "on",
         l = "isr" => by = "handler",
         \A j \in Level : j = depth[c] /\ Holding(c, j) => pc[c][j] = "cs",
         UNCHANGED <<locked, owner, flags>>
  PROVE  IndInv'
<1>0. Pushed(c, l, by, k)
  <2>1. l \in PcValue
    BY Zenon DEF PcValue
  <2> QED
    BY Zenon, <2>1, PushFacts
<1>1. /\ pc[c][k] = "none"
      /\ depth'[c] = k /\ pc'[c][k] = l /\ code'[c][k] = by
      /\ \A d \in Cpu : d # c => depth'[d] = depth[d]
      /\ \A d \in Cpu, j \in Level : d # c \/ j # k =>
             pc'[d][j] = pc[d][j] /\ code'[d][j] = code[d][j]
      /\ \A j \in Level : j \in Nat
      /\ \A d \in Cpu : depth[d] \in Nat
  BY Zenon, <1>0 DEF Pushed
<1>2. depth[c] \in Nat /\ k \in Nat /\ \A j \in Level : j \in Nat
  BY Zenon, <1>1
<1>3. TypeOK'
  BY Zenon, <1>0 DEF Pushed, IndInv, TypeOK
<1>4. StackInv'
  <2>1. ~(k > k) /\ \A j \in Level : j # k => (j > depth[c] <=> j > k)
    BY Zenon, <1>2, Above
  <2>2. pc'[c][k] # "none"
    BY Zenon, <1>1
  <2>3. \A j \in Level : pc[c][j] = "none" <=> j > depth[c]
    BY Zenon DEF StackInv, IndInv
  <2>4. \A j \in Level : j # k => pc'[c][j] = pc[c][j]
    BY Zenon, <1>1
  <2>5. \A j \in Level : pc'[c][j] = "none" <=> j > depth'[c]
    <3>1. depth'[c] = k
      BY Zenon, <1>1
    <3> QED
      BY Zenon, <2>1, <2>2, <2>3, <2>4, <3>1
  <2>6. ASSUME NEW d \in Cpu, d # c
        PROVE  \A j \in Level : pc'[d][j] = "none" <=> j > depth'[d]
    <3>1. depth'[d] = depth[d] /\ \A j \in Level : pc'[d][j] = pc[d][j]
      BY Zenon, <1>1, <2>6
    <3> QED
      BY ZenonT(40), <3>1 DEF StackInv, IndInv
  <2> QED
    BY Zenon, <2>5, <2>6 DEF StackInv
<1>5. \A d \in Cpu, j \in Level : Holding(d, j)' <=> Holding(d, j)
  BY ZenonT(30), <1>1 DEF Holding
<1>6. HolderInv'
  BY ZenonT(40), <1>5 DEF HolderInv, IndInv
<1>7. OwnerInv'
  <2>1. \A d \in Cpu, j \in Level :
            pc'[d][j] \in {"cs", "disown"} <=> pc[d][j] \in {"cs", "disown"}
    BY ZenonT(30), <1>1
  <2>2. owner # NoOwner => owner \in Cpu
    BY Zenon DEF IndInv, TypeOK
  <2> QED
    BY Zenon, <2>1, <2>2 DEF OwnerInv, IndInv
<1>8. BelowInv'
  <2>1. \A j \in Level : j < k /\ j # depth[c] => j < depth[c]
    BY Zenon, <1>2, Above
  <2>2. \A j \in Level : j < k => j # k
    BY ZenonT(40), <1>2, Order
  <2>3. \A j \in Level : j < k /\ Holding(c, j) => pc[c][j] = "cs"
    BY Zenon, <2>1 DEF BelowInv, IndInv
  <2>4. \A j \in Level : j < depth'[c] /\ Holding(c, j)' => pc'[c][j] = "cs"
    BY Zenon, <1>1, <1>5, <2>2, <2>3
  <2>5. \A d \in Cpu, j \in Level :
            d # c /\ j < depth'[d] /\ Holding(d, j)' => pc'[d][j] = "cs"
    <3> SUFFICES ASSUME NEW d \in Cpu, NEW j \in Level, d # c, j < depth'[d], Holding(d, j)'
                 PROVE  pc'[d][j] = "cs"
      BY Zenon
    <3>1. j < depth[d] /\ pc'[d][j] = pc[d][j] /\ Holding(d, j)
      BY Zenon, <1>1, <1>5
    <3> QED
      BY Zenon, <3>1 DEF BelowInv, IndInv
  <2> QED
    BY ZenonT(40), <2>4, <2>5 DEF BelowInv
<1>9. \A d \in Cpu, j \in Level : d # c \/ j # k => (Masks(d, j)' <=> Masks(d, j))
  BY ZenonT(30), <1>1 DEF Masks
<1>10. \A j \in Level : pc[c][j] # "none" => j < k
  <2>1. \A j \in Level : ~(j > depth[c]) => j < k
    BY Zenon, <1>2, Above
  <2> QED
    BY Zenon, <2>1 DEF StackInv, IndInv
<1>11. Masks(c, k)' <=> by = "handler"
  BY Zenon, <1>1 DEF Masks
<1>12. MaskInv'
  <2>1. by = "handler" => \A j \in Level : ~Masks(c, j)
    BY Zenon DEF MaskInv, IndInv
  <2> QED
    <3>1. ASSUME NEW d \in Cpu, NEW j \in Level, d # c \/ j # k
          PROVE  /\ Masks(d, j)' => irq'[d] = "off"
                 /\ pc'[d][j] = "isr" => code'[d][j] = "handler"
                 /\ code'[d][j] = "handler" /\ pc'[d][j] # "none" =>
                        \A i \in Level : i < j => ~Masks(d, i)'
      <4>1. pc'[d][j] = pc[d][j] /\ code'[d][j] = code[d][j]
        BY Zenon, <1>1, <3>1
      <4>2. d = c /\ pc[d][j] # "none" => j < k
        BY Zenon, <1>10
      <4>3. \A i \in Level : i < j /\ j < k => i # k
        BY ZenonT(40), <1>2, Order
      <4>4. Masks(d, j)' <=> Masks(d, j)
        BY Zenon, <1>9, <3>1
      <4>5. irq[d] = "off" => irq'[d] = "off"
        <5>1. CASE d = c
          BY Zenon, <5>1
        <5>2. CASE d # c
          BY Zenon, <5>2
        <5> QED
          BY Zenon, <5>1, <5>2
      <4>6. pc[d][j] # "none" => \A i \in Level : i < j => (Masks(d, i)' <=> Masks(d, i))
        BY Zenon, <1>9, <4>2, <4>3
      <4>7. /\ Masks(d, j) => irq[d] = "off"
            /\ pc[d][j] = "isr" => code[d][j] = "handler"
            /\ code[d][j] = "handler" /\ pc[d][j] # "none" =>
                   \A i \in Level : i < j => ~Masks(d, i)
        BY Zenon DEF MaskInv, IndInv
      <4>8. /\ Masks(d, j)' => irq'[d] = "off"
            /\ pc'[d][j] = "isr" => code'[d][j] = "handler"
        BY Zenon, <4>1, <4>4, <4>5, <4>7
      <4>9. code'[d][j] = "handler" /\ pc'[d][j] # "none" =>
                \A i \in Level : i < j => ~Masks(d, i)'
        BY Zenon, <4>1, <4>6, <4>7
      <4> QED
        BY Zenon, <4>8, <4>9
    <3>2. /\ Masks(c, k)' => irq'[c] = "off"
          /\ pc'[c][k] = "isr" => code'[c][k] = "handler"
          /\ code'[c][k] = "handler" /\ pc'[c][k] # "none" =>
                 \A i \in Level : i < k => ~Masks(c, i)'
      <4>1. \A i \in Level : i < k => i # k
        BY Zenon, <1>2, Order
      <4>2. pc'[c][k] = l /\ code'[c][k] = by
        BY Zenon, <1>1
      <4> QED
        BY Zenon, <1>9, <1>11, <2>1, <4>1, <4>2
    <3>3. ASSUME NEW d \in Cpu, NEW j \in Level
          PROVE  /\ Masks(d, j)' => irq'[d] = "off"
                 /\ pc'[d][j] = "isr" => code'[d][j] = "handler"
                 /\ code'[d][j] = "handler" /\ pc'[d][j] # "none" =>
                        \A i \in Level : i < j => ~Masks(d, i)'
      <4>1. CASE d = c /\ j = k
        BY Zenon, <3>2, <4>1
      <4>2. CASE d # c \/ j # k
        BY Zenon, <3>1, <4>2
      <4> QED
        BY Zenon, <4>1, <4>2
    <3> QED
      BY Zenon, <3>3 DEF MaskInv
<1>13. SavedInv'
  <2>1. ASSUME NEW d \in Cpu, NEW j \in Level, Saved(d, j)'
        PROVE  /\ Saved(d, j) /\ code'[d][j] = code[d][j]
               /\ \A i \in Level : i < j => (Masks(d, i)' <=> Masks(d, i))
    <3>1. d # c \/ j # k
      BY Zenon, <1>1, <2>1 DEF Saved
    <3>2. Saved(d, j) /\ pc[d][j] # "none" /\ code'[d][j] = code[d][j]
      BY Zenon, <1>1, <2>1, <3>1 DEF Saved
    <3>3. d = c => j < k
      BY Zenon, <1>10, <3>2
    <3>4. \A i \in Level : d = c /\ i < j => i # k
      BY Zenon, <1>2, <3>3, Order
    <3> QED
      BY Zenon, <1>9, <3>2, <3>4
  <2> QED
    BY ZenonT(40), <2>1 DEF SavedInv, IndInv
<1>14. PanicOnlyOnRecursion'
  BY ZenonT(30), <1>1, <1>5 DEF PanicOnlyOnRecursion, IndInv
<1>15. NeverWaitsForItself'
  <2>1. \A d \in Cpu, j \in Level : pc'[d][j] = "spin" => pc[d][j] = "spin"
    BY Zenon, <1>1
  <2> QED
    BY ZenonT(40), <1>5, <2>1 DEF NeverWaitsForItself, IndInv
<1> QED
  BY Zenon, <1>3, <1>4, <1>6, <1>7, <1>8, <1>12, <1>13, <1>14, <1>15 DEF IndInv

LEMMA CallInd ==
  ASSUME NEW c \in Cpu, IndInv, Call(c)
  PROVE  IndInv'
<1>0. PICK k \in Level : k = depth[c] + 1
  BY Zenon DEF Call, Push
<1>1. \A j \in Level : j = depth[c] => pc[c][j] = "cs"
  BY LockAssumption DEF Call, Level
<1>2. irq' \in [Cpu -> {"on", "off"}] /\ UNCHANGED <<irq, locked, owner, flags>>
  BY Zenon DEF Call, IndInv, TypeOK
<1> QED
  BY ZenonT(40), <1>0, <1>1, <1>2, PushInd DEF Call

LEMMA InterruptInd ==
  ASSUME NEW c \in Cpu, IndInv, Interrupt(c)
  PROVE  IndInv'
<1>0. PICK k \in Level : k = depth[c] + 1
  BY Zenon DEF Interrupt, Push
<1>1. /\ irq[c] = "on" /\ irq' \in [Cpu -> {"on", "off"}] /\ irq'[c] = "off"
      /\ \A d \in Cpu : d # c => irq'[d] = irq[d]
      /\ UNCHANGED <<locked, owner, flags>>
  BY Zenon DEF Interrupt, IndInv, TypeOK
<1>2. \A j \in Level : ~Holding(c, j)
  BY Zenon, <1>1 DEF Holding, Masks, MaskInv, IndInv
<1> QED
  BY Zenon, <1>0, <1>1, <1>2, PushInd DEF Interrupt

\* The level below the top.
LEMMA Below ==
  ASSUME NEW k \in Nat, NEW j \in Nat
  PROVE  /\ j > k - 1 <=> j > k \/ j = k
         /\ j < k - 1 => j < k /\ j # k
  OBVIOUS

\* Popping the top activation is safe when it held nothing and the flag comes
\* back on only if nothing below masks it.
LEMMA PopInd ==
  ASSUME NEW c \in Cpu, NEW k \in Level, NEW a, IndInv,
         Moved(c, k, a, "none"), a \in {"isr", "restore"},
         pc' \in [Cpu -> [Level -> PcValue]],
         depth' = [depth EXCEPT ![c] = k - 1],
         irq' \in [Cpu -> {"on", "off"}],
         \A d \in Cpu : d # c => irq'[d] = irq[d],
         irq'[c] = irq[c] \/ \A j \in Level : j < k => ~Masks(c, j),
         UNCHANGED <<locked, owner, flags, code>>
  PROVE  IndInv'
<1>1. depth'[c] = k - 1 /\ \A d \in Cpu : d # c => depth'[d] = depth[d]
  BY Zenon DEF IndInv, TypeOK
<1>2. depth' \in [Cpu -> 0..MaxDepth]
  BY LockAssumption DEF IndInv, TypeOK, Level
<1>3. TypeOK'
  BY ZenonT(40), <1>2 DEF IndInv, TypeOK
<1>4. \A j \in Level : pc[c][j] # "none" => j <= k
  <2>1. \A j \in Level : ~(j > k) => j <= k
    BY Zenon, Order DEF Moved
  <2> QED
    BY Zenon, <2>1 DEF Moved, StackInv, IndInv
<1>5. StackInv'
  <2>1. \A j \in Level : j > k - 1 <=> j > k \/ j = k
    BY Zenon, Below DEF Moved
  <2>2. \A j \in Level : pc[c][j] = "none" <=> j > k
    BY Zenon DEF Moved, StackInv, IndInv
  <2>3. pc'[c][k] = "none" /\ \A j \in Level : j # k => pc'[c][j] = pc[c][j]
    BY Zenon DEF Moved
  <2>4. \A j \in Level : pc'[c][j] = "none" <=> j > depth'[c]
    BY Zenon, <1>1, <2>1, <2>2, <2>3
  <2>5. ASSUME NEW d \in Cpu, d # c
        PROVE  \A j \in Level : pc'[d][j] = "none" <=> j > depth'[d]
    <3>1. depth'[d] = depth[d] /\ \A j \in Level : pc'[d][j] = pc[d][j]
      BY Zenon, <1>1, <2>5 DEF Moved
    <3> QED
      BY Zenon, <3>1 DEF StackInv, IndInv
  <2> QED
    BY Zenon, <2>4, <2>5 DEF StackInv
<1>6. \A d \in Cpu, j \in Level : Holding(d, j)' <=> Holding(d, j)
  BY ZenonT(30) DEF Moved, Holding
<1>7. HolderInv'
  BY Zenon, <1>6 DEF HolderInv, IndInv
<1>8. OwnerInv'
  <2>1. \A d \in Cpu, j \in Level :
            pc'[d][j] \in {"cs", "disown"} <=> pc[d][j] \in {"cs", "disown"}
    BY ZenonT(30) DEF Moved
  <2>2. owner # NoOwner => owner \in Cpu
    BY Zenon DEF IndInv, TypeOK
  <2> QED
    BY Zenon, <2>1, <2>2 DEF OwnerInv, IndInv
<1>9. BelowInv'
  <2> SUFFICES ASSUME NEW d \in Cpu, NEW j \in Level, j < depth'[d], Holding(d, j)'
               PROVE  pc'[d][j] = "cs"
    BY Zenon DEF BelowInv
  <2>1. Holding(d, j)
    BY Zenon, <1>6
  <2>2. j < depth[d] /\ (d # c \/ j # k)
    <3>1. CASE d = c
      <4>1. j < k - 1 => j < k /\ j # k
        BY Zenon, Below DEF Moved
      <4> QED
        BY ZenonT(40), <1>1, <3>1, <4>1 DEF Moved
    <3>2. CASE d # c
      BY Zenon, <1>1, <3>2
    <3> QED
      BY Zenon, <3>1, <3>2
  <2>3. pc[d][j] = "cs"
    BY Zenon, <2>1, <2>2 DEF BelowInv, IndInv
  <2> QED
    BY Zenon, <2>2, <2>3 DEF Moved
<1>10. \A d \in Cpu, j \in Level :
           Masks(d, j)' => Masks(d, j) /\ (d # c \/ j < k)
  <2>1. \A j \in Level : j <= k /\ j # k => j < k
    BY Zenon, Order DEF Moved
  <2> SUFFICES ASSUME NEW d \in Cpu, NEW j \in Level, Masks(d, j)'
               PROVE  Masks(d, j) /\ (d # c \/ j < k)
    BY Zenon
  <2>2. d # c \/ j # k
    BY Zenon DEF Moved, Masks
  <2>3. Masks(d, j) /\ pc[d][j] # "none"
    BY ZenonT(40), <2>2 DEF Moved, Masks
  <2> QED
    BY Zenon, <1>4, <2>1, <2>2, <2>3
<1>11. MaskInv'
  BY <1>10 DEF Moved, MaskInv, IndInv
<1>12. SavedInv'
  <2>1. \A d \in Cpu, j \in Level : Saved(d, j)' => Saved(d, j)
    BY Zenon DEF Moved, Saved
  <2> QED
    BY Zenon, <1>10, <2>1 DEF SavedInv, IndInv
<1>13. PanicOnlyOnRecursion' /\ NeverWaitsForItself'
  BY Zenon, MoveSafe
<1> QED
  BY Zenon, <1>3, <1>5, <1>7, <1>8, <1>9, <1>11, <1>12, <1>13 DEF IndInv

LEMMA IretInd ==
  ASSUME NEW c \in Cpu, NEW k \in Level, IndInv, Iret(c, k)
  PROVE  IndInv'
<1>1. Moved(c, k, "isr", "none") /\ pc' \in [Cpu -> [Level -> PcValue]]
  BY Zenon, Move DEF Iret, PcValue
<1>2. /\ irq' \in [Cpu -> {"on", "off"}]
      /\ \A d \in Cpu : d # c => irq'[d] = irq[d]
  BY Zenon DEF Iret, IndInv, TypeOK
<1>3. \A j \in Level : j < k => ~Masks(c, j)
  BY Zenon, <1>1 DEF Moved, MaskInv, IndInv
<1> QED
  BY ZenonT(30), <1>1, <1>2, <1>3, PopInd DEF Iret

LEMMA RestoreFlagsInd ==
  ASSUME NEW c \in Cpu, NEW k \in Level, IndInv, RestoreFlags(c, k)
  PROVE  IndInv'
<1>1. /\ irq' \in [Cpu -> {"on", "off"}]
      /\ irq'[c] = (IF flags[c][k] = "on" THEN "on" ELSE irq[c])
      /\ \A d \in Cpu : d # c => irq'[d] = irq[d]
      /\ UNCHANGED <<locked, owner, flags, code>>
  BY Zenon DEF RestoreFlags, IndInv, TypeOK
<1>2. Saved(c, k)
  BY Zenon DEF RestoreFlags, At, Saved
<1>3. CASE code[c][k] = "handler"
  <2>1. /\ Moved(c, k, "restore", "isr") /\ pc' \in [Cpu -> [Level -> PcValue]]
        /\ UNCHANGED depth
    BY Zenon, <1>3, Move DEF RestoreFlags, PcValue
  <2>2. irq'[c] = irq[c]
    BY Zenon, <1>1, <1>2, <1>3 DEF SavedInv, IndInv
  <2>3. \A d \in Cpu : irq'[d] = irq[d]
    BY Zenon, <1>1, <2>2
  <2>4. TypeOK'
    BY Zenon, <1>1, <2>1 DEF IndInv, TypeOK
  <2>5. StackInv' /\ HolderInv' /\ OwnerInv' /\ BelowInv'
    BY Zenon, <1>1, <2>1, MoveStack, MoveOutside
  <2>6. \A d \in Cpu, j \in Level : Masks(d, j)' <=> Masks(d, j)
    BY ZenonT(40), <1>1, <1>3, <2>1 DEF Moved, Masks
  <2>7. MaskInv'
    <3>1. \A d \in Cpu, j \in Level : /\ pc'[d][j] = "isr" => pc[d][j] = "isr" \/ code[d][j] = "handler"
                                      /\ pc'[d][j] # "none" => pc[d][j] # "none"
                                      /\ code'[d][j] = code[d][j]
      BY Zenon, <1>1, <1>3, <2>1 DEF Moved
    <3>2. ASSUME NEW d \in Cpu, NEW j \in Level
          PROVE  /\ Masks(d, j)' => irq'[d] = "off"
                 /\ pc'[d][j] = "isr" => code'[d][j] = "handler"
                 /\ code'[d][j] = "handler" /\ pc'[d][j] # "none" =>
                        \A i \in Level : i < j => ~Masks(d, i)'
      <4>1. /\ Masks(d, j) => irq[d] = "off"
            /\ pc[d][j] = "isr" => code[d][j] = "handler"
            /\ code[d][j] = "handler" /\ pc[d][j] # "none" =>
                   \A i \in Level : i < j => ~Masks(d, i)
        BY Zenon DEF MaskInv, IndInv
      <4> QED
        BY Zenon, <2>3, <2>6, <3>1, <4>1
    <3> QED
      BY Zenon, <3>2 DEF MaskInv
  <2>8. SavedInv'
    <3>1. \A d \in Cpu, j \in Level : Saved(d, j)' => Saved(d, j)
      BY Zenon, <2>1 DEF Moved, Saved
    <3> QED
      BY Zenon, <1>1, <2>6, <3>1 DEF SavedInv, IndInv
  <2>9. PanicOnlyOnRecursion' /\ NeverWaitsForItself'
    BY <2>1, MoveSafe
  <2> QED
    BY Zenon, <2>4, <2>5, <2>7, <2>8, <2>9 DEF IndInv
<1>4. CASE code[c][k] # "handler"
  <2>1. /\ Moved(c, k, "restore", "none") /\ pc' \in [Cpu -> [Level -> PcValue]]
        /\ depth' = [depth EXCEPT ![c] = k - 1]
    BY Zenon, <1>4, Move DEF RestoreFlags, PcValue
  <2>2. irq'[c] = irq[c] \/ \A j \in Level : j < k => ~Masks(c, j)
    BY Zenon, <1>1, <1>2 DEF SavedInv, IndInv
  <2> QED
    BY ZenonT(30), <1>1, <2>1, <2>2, PopInd
<1> QED
  BY Zenon, <1>3, <1>4

----------------------------------------------------------------------------
\* The invariant is inductive.
LEMMA NextInd == IndInv /\ [Next]_vars => IndInv'
<1> SUFFICES ASSUME IndInv, [Next]_vars PROVE IndInv'
  BY ZenonT(30)
<1>1. CASE UNCHANGED vars
  BY <1>1 DEF vars, IndInv, TypeOK, StackInv, HolderInv, OwnerInv, MaskInv,
              SavedInv, BelowInv, PanicOnlyOnRecursion, NeverWaitsForItself,
              Masks, Saved, Holding
<1>2. ASSUME NEW c \in Cpu, Call(c) \/ Interrupt(c) PROVE IndInv'
  BY Zenon, <1>2, CallInd, InterruptInd
<1>3. ASSUME NEW c \in Cpu, NEW k \in Level, HandlerCall(c, k) \/ Iret(c, k)
      PROVE  IndInv'
  BY Zenon, <1>3, HandlerCallInd, IretInd
<1>4. ASSUME NEW c \in Cpu, NEW k \in Level, LockStep(c, k) PROVE IndInv'
  BY Zenon, <1>4, SaveFlagsInd, CliInd, CheckHeldInd, CheckOwnerInd, ExchangeInd,
     StoreOwnerInd DEF LockStep
<1>5. ASSUME NEW c \in Cpu, NEW k \in Level, UnlockStep(c, k) PROVE IndInv'
  BY Zenon, <1>5, UnlockInd, DisownInd, ReleaseInd, RestoreFlagsInd DEF UnlockStep
<1> QED
  BY ZenonT(40), <1>1, <1>2, <1>3, <1>4, <1>5 DEF Next

\* The variables of the lock keep their types, for any number of CPUs.
THEOREM TypeCorrect == Spec => []TypeOK
<1>1. IndInv => TypeOK
  BY Zenon DEF IndInv
<1> QED
  BY InitInd, NextInd, <1>1, PTL DEF Spec

\* At most one activation of lock() in the machine is between the exchange
\* and the store that releases, and its CPU takes no interrupts meanwhile.
THEOREM LockExcludes == Spec => []MutualExclusion
  BY InitInd, NextInd, IndInvImplies, PTL DEF Spec

\* lock_recursion_panic() never stops a CPU that does not hold the lock.
THEOREM NoFalsePanic == Spec => []PanicOnlyOnRecursion
<1>1. IndInv => PanicOnlyOnRecursion
  BY Zenon DEF IndInv
<1> QED
  BY InitInd, NextInd, <1>1, PTL DEF Spec

\* No CPU enters the exchange loop for a lock it holds itself.
THEOREM NoSelfDeadlock == Spec => []NeverWaitsForItself
<1>1. IndInv => NeverWaitsForItself
  BY Zenon DEF IndInv
<1> QED
  BY InitInd, NextInd, <1>1, PTL DEF Spec

\* The interrupt flag is off for as long as a handler is on the stack.
THEOREM HandlersMasked == Spec => []HandlersRunMasked
  BY InitInd, NextInd, IndInvImplies, PTL DEF Spec

\* The five together: lock() and unlock() are safe on any number of CPUs and at
\* any depth of nesting.
THEOREM LockStaysSafe == Spec => []LockIsSafe
  BY TypeCorrect, LockExcludes, NoFalsePanic, NoSelfDeadlock, HandlersMasked, PTL
  DEF LockIsSafe
=============================================================================
