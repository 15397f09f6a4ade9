------------------------------- MODULE Faults -------------------------------
(***************************************************************************)
(* Exceptions in the kernel: which stack they run on (cpu/tss.cpp and      *)
(* ist_for_vector() of cpu/idt.cpp), the guards below the stacks           *)
(* (cpu/stacks.cpp), and what isr_dispatch() and the panic report say of   *)
(* a stack that ran into its guard.  A guard is a pattern until            *)
(* unmap_stack_guards() makes a hole of it.  Processor 1 boots alone on    *)
(* the kernel stack; a thread has a stack with a hole of its own.  The     *)
(* lock that orders the reports is the subject of Panic.  The trace of     *)
(* callers that ends a report has variables of its own, at the end.        *)
(***************************************************************************)
EXTENDS Integers, Sequences, FiniteSets

CONSTANT Processors

ASSUME TheBootProcessor == 1 \in Processors /\ Processors \subseteq Nat \ {0}

VARIABLES guards_unmapped,
          overwritten,   \* the guards whose pattern is gone
          stack,         \* [processor -> the stack it executes on]
          regs,          \* [stack -> the frame of the last exception pushed there]
          cr2,           \* [processor -> the page of the last fault]
          doing,         \* [processor -> "runs", "dispatch", "panic", "halted" or "stopped"]
          halt_sent, nmis, \* smp_halt_others(), and the processors its NMI is on the way to
          named,         \* [processor -> the stacks it reported as overflowed]
          ran_into,      \* {<<processor, stack>> : it ran into the hole below the stack}
          trampled,      \* processors whose frames another one has written over
          reset          \* a triple fault

fault_vars == <<guards_unmapped, overwritten, stack, regs, cr2, doing, halt_sent, nmis, named,
                ran_into, trampled, reset>>

\* The stacks, in the order of guard_of() and stack_names; those of threads follow
double_fault == 1
nmi_stack == 2
machine_check == 3
kernel == 4
Guarded == 1..4
ThreadStack(p) == kernel + p
Stacks == Guarded \cup {ThreadStack(p) : p \in Processors}

\* An address is known by the stack whose guard it is in, or is elsewhere
elsewhere == 0
no_frame == [vector |-> 0, rsp |-> elsewhere]

FaultsInit ==
    /\ guards_unmapped = FALSE /\ overwritten = {}
    /\ stack = [p \in Processors |-> IF p = 1 THEN kernel ELSE ThreadStack(p)]
    /\ regs = [s \in Stacks |-> no_frame]
    /\ cr2 = [p \in Processors |-> elsewhere] /\ doing = [p \in Processors |-> "runs"]
    /\ halt_sent = FALSE /\ nmis = {} /\ named = [p \in Processors |-> {}]
    /\ ran_into = {} /\ trampled = {} /\ reset = FALSE

\* paging_init() calls unmap_stack_guards() before the others are started
unmap_stack_guards ==
    /\ ~guards_unmapped /\ doing[1] = "runs" /\ guards_unmapped' = TRUE
    /\ UNCHANGED <<overwritten, stack, regs, cr2, doing, halt_sent, nmis, named, ran_into, trampled, reset>>

Up(p) == p = 1 \/ guards_unmapped

\* The boot processor goes on in a thread, or in the idle thread that has the boot stack
SwitchThread ==
    /\ guards_unmapped /\ doing[1] = "runs"
    /\ stack' = [stack EXCEPT ![1] = IF @ = kernel THEN ThreadStack(1) ELSE kernel]
    /\ UNCHANGED <<guards_unmapped, overwritten, regs, cr2, doing, halt_sent, nmis, named, ran_into, trampled, reset>>

----------------------------------------------------------------------------
exception_stack_top(ist_index) == ist_index

\* tss_init_cpu() fills the segment of each processor with the same three stacks
tss_init_cpu(p) == [ist_index \in {double_fault, nmi_stack, machine_check} |-> exception_stack_top(ist_index)]

\* The stack for a vector: one of the three, or the one in use
ist_for_vector(p, vector) ==
    CASE vector = 2 -> tss_init_cpu(p)[nmi_stack] [] vector = 8 -> tss_init_cpu(p)[double_fault]
      [] vector = 18 -> tss_init_cpu(p)[machine_check] [] OTHER -> stack[p]

\* The processor pushes the frame of an exception, over whatever is on that stack
PushFrame(p, vector, rsp) ==
    LET s == ist_for_vector(p, vector)
    IN /\ stack' = [stack EXCEPT ![p] = s]
       /\ regs' = [regs EXCEPT ![s] = [vector |-> vector, rsp |-> rsp]]
       /\ doing' = [doing EXCEPT ![p] = "dispatch"]
       /\ trampled' = trampled \cup {q \in Processors \ {p} : stack[q] = s /\ doing[q] # "stopped"}

Executes(p) == Up(p) /\ ~reset /\ doing[p] \in {"runs", "dispatch", "panic"}

\* Code on p runs off the end of its stack.  The pattern is written over, or the hole
\* faults; the frame of that fault cannot be pushed either, so a double fault follows,
\* and after one on the stack of double faults nothing does.  rsp may be in the guard
\* or still above it.
Overflow(p) ==
    LET s == stack[p]
    IN /\ Executes(p)
       /\ \/ /\ s \in Guarded /\ ~guards_unmapped /\ overwritten' = overwritten \cup {s}
             /\ UNCHANGED <<stack, regs, cr2, doing, ran_into, trampled, reset>>
          \/ /\ (s \notin Guarded \/ guards_unmapped) /\ ran_into' = ran_into \cup {<<p, s>>}
             /\ cr2' = [cr2 EXCEPT ![p] = s]
             /\ IF s = double_fault THEN reset' = TRUE /\ UNCHANGED <<stack, regs, doing, trampled>>
                ELSE (\E rsp \in {s, elsewhere} : PushFrame(p, 8, rsp)) /\ UNCHANGED reset
             /\ UNCHANGED overwritten
    /\ UNCHANGED <<guards_unmapped, halt_sent, nmis, named>>

\* A fault of another kind, or a machine check
Exception(p, vector) ==
    /\ Executes(p) /\ doing[p] = "runs" /\ PushFrame(p, vector, elsewhere)
    /\ cr2' = IF vector = 14 THEN [cr2 EXCEPT ![p] = elsewhere] ELSE cr2
    /\ UNCHANGED <<guards_unmapped, overwritten, halt_sent, nmis, named, ran_into, reset>>

TakeNmi(p) ==
    /\ Executes(p) /\ p \in nmis /\ nmis' = nmis \ {p} /\ PushFrame(p, 2, elsewhere)
    /\ UNCHANGED <<guards_unmapped, overwritten, cr2, halt_sent, named, ran_into, reset>>

\* guard_page_owner(), as a set: the stack whose guard the address is in, if it has a name
guard_page_owner(address) == Guarded \cap {address}

\* The stack pointer decides.
report_by_rsp(p, frame) == guard_page_owner(frame.rsp)

report_double_fault(p, frame) ==
    IF guard_page_owner(cr2[p]) # {} THEN guard_page_owner(cr2[p]) ELSE guard_page_owner(frame.rsp)

\* isr_dispatch() for the vectors below 32, with the frame that is on the stack
isr_dispatch(p) ==
    LET frame == regs[stack[p]]
    IN /\ ~reset /\ doing[p] = "dispatch"
       /\ doing' = [doing EXCEPT ![p] = IF frame.vector = 2 /\ halt_sent THEN "stopped" ELSE "panic"]
       /\ named' = [named EXCEPT ![p] =
              CASE frame.vector = 8 -> @ \cup report_double_fault(p, frame)
                [] frame.vector = 14 -> @ \cup guard_page_owner(cr2[p])
                [] OTHER -> @]
       /\ UNCHANGED <<guards_unmapped, overwritten, stack, regs, cr2, halt_sent, nmis, ran_into, trampled, reset>>

guard_intact(s) == guards_unmapped \/ s \notin overwritten

\* overflowed_stack_name(), as a set: the first guard whose pattern is gone
overflowed_stack_name == {s \in Guarded : ~guard_intact(s) /\ \A k \in 1..(s - 1) : guard_intact(k)}

dump_stack_guards == IF \A s \in Guarded : guard_intact(s) THEN {} ELSE overflowed_stack_name

\* panic_with_registers(): the others are stopped and the guards looked at
Panic(p) ==
    /\ ~reset /\ doing[p] = "panic" /\ doing' = [doing EXCEPT ![p] = "halted"]
    /\ halt_sent' = TRUE /\ nmis' = nmis \cup (Processors \ {p})
    /\ named' = [named EXCEPT ![p] = @ \cup dump_stack_guards]
    /\ UNCHANGED <<guards_unmapped, overwritten, stack, regs, cr2, ran_into, trampled, reset>>

FaultsNext ==
    \/ unmap_stack_guards \/ SwitchThread
    \/ \E p \in Processors :
        \/ Overflow(p) \/ (\E vector \in {6, 14, 18} : Exception(p, vector))
        \/ TakeNmi(p) \/ isr_dispatch(p) \/ Panic(p)

FaultsSpec == FaultsInit /\ [][FaultsNext]_fault_vars

----------------------------------------------------------------------------
\* What a report says of a stack is true: the processor that prints it ran into the hole
\* below that stack, or the pattern below it is gone.
NamesAreTrue ==
    \A p \in Processors \ trampled : \A s \in named[p] :
        <<p, s>> \in ran_into \/ s \in overwritten

\* A processor whose last page fault was in the hole below a stack names that stack in
\* its report.
HoleIsNamed ==
    \A p \in Processors \ trampled :
        ~reset /\ doing[p] \in {"panic", "halted"} => guard_page_owner(cr2[p]) \subseteq named[p]

\* A report made while the guards are patterns names a stack if any pattern is gone.
PatternIsNamed ==
    ~guards_unmapped /\ doing[1] = "halted" /\ overwritten # {} => named[1] \cap overwritten # {}

\* The machine resets without a report only when the stack of double faults itself ran
\* into its hole.
ResetOnlyInDoubleFault == reset => \E p \in Processors : <<p, double_fault>> \in ran_into

\* No two processors execute on one stack, as the comment above tss_init_cpu() demands
\* of the interrupt stacks.
StacksNotShared ==
    \A p, q \in Processors : p # q /\ Up(p) /\ Up(q) => stack[p] # stack[q]

----------------------------------------------------------------------------
(* backtrace_from(), at the end of a report, follows the frame pointers of *)
(* a stack that may hold anything.  A frame is known by its place, 0 being *)
(* any address that is no plausible one.                                   *)
CONSTANTS Depth,       \* places in the stack
          max_frames
ASSUME TraceBounds == Depth \in Nat /\ max_frames \in Nat

VARIABLES previous,    \* [place -> the frame pointer saved there]
          returns,     \* the places with a return address that is plausible text
          trace_at,    \* the frame the loop has come to
          printed,     \* the frames whose return address was printed
          trace_pc     \* "walk" or "done"

trace_vars == <<previous, returns, trace_at, printed, trace_pc>>
FramePlaces == 1..Depth

TraceInit ==
    /\ previous \in [FramePlaces -> 0..Depth] /\ returns \in SUBSET FramePlaces
    /\ trace_at \in 0..Depth   \* regs.rbp
    /\ printed = <<>> /\ trace_pc = "walk"

plausible_frame(frame) == frame # 0
plausible_text(frame) == frame \in returns

\* previous <= frame ends the walk
Higher(frame) == previous[frame] > frame

\* One turn of the loop of backtrace_from()
TraceStep ==
    /\ trace_pc = "walk"
    /\ IF Len(printed) < max_frames /\ plausible_frame(trace_at) /\ plausible_text(trace_at)
       THEN /\ printed' = Append(printed, trace_at)
            /\ IF Higher(trace_at) THEN trace_at' = previous[trace_at] /\ UNCHANGED trace_pc
               ELSE trace_pc' = "done" /\ UNCHANGED trace_at
       ELSE trace_pc' = "done" /\ UNCHANGED <<trace_at, printed>>
    /\ UNCHANGED <<previous, returns>>

TraceSpec == TraceInit /\ [][TraceStep]_trace_vars

\* The trace goes up the stack and shows no frame twice, whatever the stack holds, and
\* ends only where the next frame cannot be one or the report is long enough.
TraceIsSound ==
    /\ \A i \in 1..(Len(printed) - 1) :
            printed[i] < printed[i + 1] /\ printed[i + 1] = previous[printed[i]]
    /\ trace_pc = "done" /\ Len(printed) \in 1..(max_frames - 1) =>
            LET last == printed[Len(printed)]
            IN previous[last] <= last \/ previous[last] \notin returns

\* A stack that runs into its guard is reported, by name and by the processor it was
\* on, whichever fault comes first and whatever the other processors report; and the
\* trace that follows is one of callers.
FaultsAreReported ==
    NamesAreTrue /\ HoleIsNamed /\ PatternIsNamed /\ ResetOnlyInDoubleFault /\ TraceIsSound
=============================================================================
