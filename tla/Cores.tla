------------------------------- MODULE Cores -------------------------------
(***************************************************************************)
(* What runs on the CPUs below and beside the scheduler: the spin lock     *)
(* that masks interrupts (IrqSpinLock), the lock of the consoles and the   *)
(* way a panic stops the machine (Panic), the start of the other cores and *)
(* the jobs broadcast to them (Smp), the stacks that exceptions run on and *)
(* the trace in their reports (Faults), and a program: the core and the    *)
(* stack it is on (UserMode), its frames and its handles (Process).  The   *)
(* seven share no variable, so each does beside the others what it does    *)
(* alone, and a behaviour moves one of them, busy.                         *)
(***************************************************************************)
EXTENDS IrqSpinLock, Panic, Smp, Faults, UserMode, Process

VARIABLE busy

\* Only a part that moves is given a choice of initial states.
CoresInit ==
    /\ busy \in {"lock", "panic", "smp", "faults", "trace", "user", "process"}
    /\ Init /\ PanicInit /\ FaultsInit /\ ProcessInit
    /\ busy = "trace" \/ (previous = [f \in FramePlaces |-> 0] /\ returns = {} /\ trace_at = 0)
    /\ TraceInit
    /\ SmpInit /\ (busy # "smp" => machine.slow = {})
    /\ UserInit /\ (busy # "user" => \A c \in UserCpus : current[c] = idle)

CoresNext ==
    /\ UNCHANGED busy
    /\ \/ /\ busy = "lock" /\ Next
          /\ UNCHANGED <<panic_vars, smp_vars, fault_vars, trace_vars, user_vars, process_vars>>
       \/ /\ busy = "panic" /\ PanicNext
          /\ UNCHANGED <<vars, smp_vars, fault_vars, trace_vars, user_vars, process_vars>>
       \/ /\ busy = "smp" /\ SmpNext
          /\ UNCHANGED <<vars, panic_vars, fault_vars, trace_vars, user_vars, process_vars>>
       \/ /\ busy = "faults" /\ FaultsNext
          /\ UNCHANGED <<vars, panic_vars, smp_vars, trace_vars, user_vars, process_vars>>
       \/ /\ busy = "trace" /\ TraceStep
          /\ UNCHANGED <<vars, panic_vars, smp_vars, fault_vars, user_vars, process_vars>>
       \/ /\ busy = "user" /\ UserNext
          /\ UNCHANGED <<vars, panic_vars, smp_vars, fault_vars, trace_vars, process_vars>>
       \/ /\ busy = "process" /\ ProcessNext
          /\ UNCHANGED <<vars, panic_vars, smp_vars, fault_vars, trace_vars, user_vars>>

\* The fairness of each part: a CPU executes the code it is in.
CoresSpec ==
    /\ CoresInit
    /\ [][CoresNext]_<<vars, panic_vars, smp_vars, fault_vars, trace_vars, user_vars, process_vars, busy>>
    /\ \A c \in Cpu : WF_vars(/\ busy = "lock"
                              /\ \E k \in Level : LockStep(c, k) \/ UnlockStep(c, k))
    /\ \A c \in CPUs : WF_panic_vars(busy = "panic" /\ Step(c))
    /\ WF_smp_vars(busy = "smp" /\ BootCpu /\ UNCHANGED machine)
    /\ \A c \in Cores : WF_smp_vars(busy = "smp" /\ Core(c) /\ UNCHANGED machine)

----------------------------------------------------------------------------
\* Three other cores: all come up in time and run two jobs, or one may stall
MCMachines == { [slow |-> {}, jobs |-> 2, timeout |-> FALSE],
                [slow |-> {3}, jobs |-> 0, timeout |-> FALSE] }

\* Two small files for the program to read
MCFiles == [f \in {"motd", "log"} |-> IF f = "motd" THEN 3 ELSE 1]
============================================================================
