------------------------------ MODULE UserMode ------------------------------
(***************************************************************************)
(* What a thread in ring 3 depends on, while the scheduler preempts it and *)
(* moves it between CPUs: the syscall stack and the page tables, set by    *)
(* process_run() (proc/process.cpp), loaded by switch_to()                 *)
(* (sched/scheduler.cpp) and used by syscall_entry and by a tick           *)
(* (proc/syscall_entry.asm).                                               *)
(*                                                                         *)
(* One thread runs one program, as start_init() does; the others are       *)
(* kernel threads.  The run queue is a set: Scheduler.tla models its order.*)
(***************************************************************************)
EXTENDS Integers, FiniteSets

CONSTANTS UserCpus,
          Program,     \* the thread that calls process_run()
          Others,      \* kernel threads
          MaxTicks     \* how often the machine switches threads

Threads == {Program} \cup Others
idle == "idle"

ASSUME ProgramIsAThread == Program \notin Others /\ idle \notin Threads
ASSUME UserBounds == MaxTicks \in Nat

VARIABLES current,            \* [CPU -> current_thread]
          tss_stack_top,      \* [CPU -> kernel_stack_top, where ring 3 enters]
          cr3,                \* [CPU -> the page tables in use]
          user_pc,            \* where the program's thread is in process_run()
          cpu_register,       \* the PerCpu it has read from gs
          self,               \* what current_thread() gave it
          syscall_stack_,     \* [thread -> its field]
          space_root_,        \* [thread -> its field]
          stack_pages,        \* the pages of the syscall stack
          running,            \* the global of process.cpp
          frame,              \* the stack that holds the program's kernel frame
          sleeping,           \* whether the program's thread is in thread_sleep_ms()
          mistaken,           \* history: current_thread() gave it another thread
          ticks

thread == <<user_pc, cpu_register, self, syscall_stack_, space_root_, stack_pages, running, frame, sleeping, mistaken>>
user_vars == <<current, tss_stack_top, cr3, thread, ticks>>

nothing == "none"
Syscall == "syscall_stack"
Stack(t) == IF t = idle THEN nothing ELSE t     \* a thread's own stack, by its name

UserInit ==
    /\ \E home \in [UserCpus -> Threads \cup {idle}] :
        /\ \A c, d \in UserCpus : home[c] = home[d] /\ home[c] # idle => c = d
        /\ current = home
        /\ tss_stack_top = [c \in UserCpus |-> Stack(home[c])]
    /\ cr3 = [c \in UserCpus |-> "kernel"]
    /\ user_pc = "start" /\ cpu_register = nothing /\ self = nothing /\ frame = nothing
    /\ syscall_stack_ = [t \in Threads \cup {idle} |-> nothing]
    /\ space_root_ = [t \in Threads \cup {idle} |-> nothing]
    /\ stack_pages = "free" /\ running = nothing /\ sleeping = "no" /\ mistaken = FALSE /\ ticks = 0

----------------------------------------------------------------------------
\* Steps of the program's thread, on the CPU that runs it
On(c) == current[c] = Program /\ sleeping = "no"

\* alloc_pages() for the syscall stack, or the end of it
AllocateStack(c) ==
    /\ On(c) /\ user_pc = "start"
    /\ \/ stack_pages' = "taken" /\ user_pc' = "self"
       \/ stack_pages' = stack_pages /\ user_pc' = "failed"
    /\ UNCHANGED <<current, tss_stack_top, cr3, cpu_register, self, syscall_stack_,
                   space_root_, running, frame, sleeping, ticks, mistaken>>

\* this_cpu(): gs holds the address of the block
ReadCpu(c) ==
    /\ On(c) /\ user_pc \in {"self", "tss", "self_again"}
    /\ cpu_register' = c
    /\ user_pc' = CASE user_pc = "self" -> "load" [] user_pc = "tss" -> "store" [] OTHER -> "load_again"
    /\ UNCHANGED <<current, tss_stack_top, cr3, self, syscall_stack_, space_root_,
                   stack_pages, running, frame, sleeping, ticks, mistaken>>

\* current_thread(): the second load, from the block read before, which is another
\* thread's by now if a tick moved the program in between
LoadCurrent(c) ==
    /\ On(c) /\ user_pc \in {"load", "load_again"}
    /\ self' = current[cpu_register]
    /\ mistaken' = (mistaken \/ self' # Program)
    /\ user_pc' = IF user_pc = "load" THEN "set_stack" ELSE "clear"
    /\ UNCHANGED <<current, tss_stack_top, cr3, cpu_register, syscall_stack_, space_root_,
                   stack_pages, running, frame, sleeping, ticks>>

SetStack(c) ==
    /\ On(c) /\ user_pc = "set_stack"
    /\ syscall_stack_' = [syscall_stack_ EXCEPT ![self] = Syscall]
    /\ user_pc' = "set_space"
    /\ UNCHANGED <<current, tss_stack_top, cr3, cpu_register, self, space_root_,
                   stack_pages, running, frame, sleeping, ticks, mistaken>>

SetSpace(c) ==
    /\ On(c) /\ user_pc = "set_space"
    /\ space_root_' = [space_root_ EXCEPT ![self] = "process"]
    /\ user_pc' = "tss"
    /\ UNCHANGED <<current, tss_stack_top, cr3, cpu_register, self, syscall_stack_,
                   stack_pages, running, frame, sleeping, ticks, mistaken>>

TssStack == Syscall

\* tss_set_kernel_stack(), into the block it read before
SetTss(c) ==
    /\ On(c) /\ user_pc = "store"
    /\ tss_stack_top' = [tss_stack_top EXCEPT ![cpu_register] = TssStack]
    /\ user_pc' = "activate"
    /\ UNCHANGED <<current, cr3, cpu_register, self, syscall_stack_, space_root_,
                   stack_pages, running, frame, sleeping, ticks, mistaken>>

\* ProcessTable::activate()
Activate(c) ==
    /\ On(c) /\ user_pc = "activate"
    /\ running' = Program
    /\ cr3' = [cr3 EXCEPT ![c] = "process"]
    /\ user_pc' = "enter"
    /\ UNCHANGED <<current, tss_stack_top, cpu_register, self, syscall_stack_, space_root_,
                   stack_pages, frame, sleeping, ticks, mistaken>>

\* enter_user_mode
Enter(c) ==
    /\ On(c) /\ user_pc = "enter"
    /\ user_pc' = "ring_3"
    /\ UNCHANGED <<current, tss_stack_top, cr3, cpu_register, self, syscall_stack_,
                   space_root_, stack_pages, running, frame, sleeping, ticks, mistaken>>

\* syscall, or a fault: the kernel works on the stack the CPU names
EnterKernel(c) ==
    /\ On(c) /\ user_pc = "ring_3"
    /\ frame' = tss_stack_top[c]
    /\ user_pc' = "call"
    /\ UNCHANGED <<current, tss_stack_top, cr3, cpu_register, self, syscall_stack_,
                   space_root_, stack_pages, running, sleeping, ticks, mistaken>>

\* sysret, or the return from a tick that landed in ring 3
Return(c) ==
    /\ On(c) /\ user_pc \in {"call", "tick"}
    /\ frame' = nothing /\ user_pc' = "ring_3"
    /\ UNCHANGED <<current, tss_stack_top, cr3, cpu_register, self, syscall_stack_,
                   space_root_, stack_pages, running, sleeping, ticks, mistaken>>

\* exit, or a fault that kills the program: leave_user_mode, then
\* ProcessTable::release()
Leave(c) ==
    /\ On(c) /\ user_pc = "call"
    /\ running' = nothing /\ frame' = nothing
    /\ cr3' = [cr3 EXCEPT ![c] = "kernel"]
    /\ user_pc' = "self_again"
    /\ UNCHANGED <<current, tss_stack_top, cpu_register, self, syscall_stack_, space_root_,
                   stack_pages, sleeping, ticks, mistaken>>

Cleared == [syscall_stack_ EXCEPT ![self] = nothing]

\* The fields are cleared and the stack freed, with interrupts still off
Clear(c) ==
    /\ On(c) /\ user_pc = "clear"
    /\ syscall_stack_' = Cleared
    /\ space_root_' = [space_root_ EXCEPT ![self] = nothing]
    /\ stack_pages' = "free"
    /\ user_pc' = "done"
    /\ UNCHANGED <<current, tss_stack_top, cr3, cpu_register, self, running, frame,
                   sleeping, ticks, mistaken>>

----------------------------------------------------------------------------
\* A switch that always enters on the thread's own stack.
StackForOwn(t, c) == IF t = idle THEN tss_stack_top[c] ELSE t

\* switch_to(): the stack that the next thread enters the kernel on
StackFor(t, c) ==
    IF syscall_stack_[t] # nothing THEN syscall_stack_[t]
    ELSE IF t = idle THEN tss_stack_top[c] ELSE t

SpaceFor(t, c) == IF space_root_[t] # nothing THEN "process" ELSE "kernel"

SwitchTo(c, t) ==
    /\ ticks < MaxTicks /\ ticks' = ticks + 1
    /\ current' = [current EXCEPT ![c] = t]
    /\ tss_stack_top' = [tss_stack_top EXCEPT ![c] = StackFor(t, c)]
    /\ cr3' = [cr3 EXCEPT ![c] = SpaceFor(t, c)]

Ready(t) ==
    \/ t = idle
    \/ t \in Threads /\ (\A c \in UserCpus : current[c] # t) /\ ~(t = Program /\ sleeping = "yes")

\* From the syscall to the end of process_run() interrupts are off
InterruptsOff == user_pc \in {"call", "self_again", "load_again", "clear"}

\* sched_tick(): in ring 3 the frame goes to the stack that the CPU names
Tick(c, t) ==
    /\ t # current[c] /\ Ready(t)
    /\ current[c] = Program => ~InterruptsOff
    /\ SwitchTo(c, t)
    /\ IF current[c] = Program /\ user_pc = "ring_3"
       THEN frame' = tss_stack_top[c] /\ user_pc' = "tick"
       ELSE UNCHANGED <<frame, user_pc>>
    /\ UNCHANGED <<cpu_register, self, syscall_stack_, space_root_, stack_pages, running, sleeping, mistaken>>

\* The sleep call: the thread leaves its CPU in the middle of the syscall
Sleep(c, t) ==
    /\ On(c) /\ user_pc = "call" /\ t # Program /\ Ready(t)
    /\ sleeping' = "yes"
    /\ SwitchTo(c, t)
    /\ UNCHANGED <<user_pc, cpu_register, self, syscall_stack_, space_root_, stack_pages, running, frame, mistaken>>

Wake ==
    /\ sleeping = "yes"
    /\ sleeping' = "no"
    /\ UNCHANGED <<current, tss_stack_top, cr3, user_pc, cpu_register, self, syscall_stack_,
                   space_root_, stack_pages, running, frame, ticks, mistaken>>

UserNext ==
    \/ \E c \in UserCpus :
        \/ AllocateStack(c) \/ ReadCpu(c) \/ LoadCurrent(c) \/ SetStack(c) \/ SetSpace(c)
        \/ SetTss(c) \/ Activate(c) \/ Enter(c) \/ EnterKernel(c) \/ Return(c) \/ Leave(c)
        \/ Clear(c)
        \/ \E t \in Threads \cup {idle} : Tick(c, t) \/ Sleep(c, t)
    \/ Wake

UserSpec == UserInit /\ [][UserNext]_user_vars

----------------------------------------------------------------------------
\* Whatever core the program runs on, that core enters the kernel on the program's
\* syscall stack and uses the program's page tables: both have followed the thread.
ContextFollows ==
    \A c \in UserCpus : current[c] = Program /\ user_pc = "ring_3" =>
        tss_stack_top[c] = Syscall /\ cr3[c] = "process"

\* The kernel's part of a call, a tick or a fault of the program lies on the syscall
\* stack, and that stack is not given back while it does.
FrameOnLiveStack == frame # nothing => frame = Syscall /\ stack_pages = "taken"

\* When the stack is free no thread is sent to it by a later switch.
NoThreadOnFreedStack ==
    stack_pages = "free" => \A t \in Threads : syscall_stack_[t] = nothing

\* Kernel threads always run on the kernel's page tables.
KernelThreadsOnKernelTables ==
    \A c \in UserCpus : current[c] \in Others => cr3[c] = "kernel"

\* Wherever a tick takes the program and on whichever CPU it goes on, a tick between the
\* loads of this_cpu() and current_thread() included: as long as those loads gave
\* process_run() its own thread, its CPU has the entry stack, page tables and mark of the
\* program, the frame is on a stack that exists, and kernel threads run on the kernel's
\* tables.  A tick there that moves the program to another CPU may give it another thread,
\* and then none of this is promised: ContextFollows alone is not an invariant.
ContextIsItsOwn ==
    ~mistaken =>
        ContextFollows /\ FrameOnLiveStack /\ NoThreadOnFreedStack /\ KernelThreadsOnKernelTables

=============================================================================
