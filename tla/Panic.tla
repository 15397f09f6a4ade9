------------------------------- MODULE Panic -------------------------------
(***************************************************************************)
(* The console and the panic path: RecursiveIrqLock of lock.hpp step by    *)
(* step, the writers and the list of consoles behind it (lib/console.cpp), *)
(* panic() and halt() (lib/panic.cpp), smp_halt_others() and the NMI that  *)
(* stops a CPU wherever it is (cpu/smp.cpp, cpu/idt.cpp).                  *)
(***************************************************************************)
EXTENDS Integers, FiniteSets

CONSTANTS CPUs,      \* the CPUs, all online
          Consoles,  \* what a driver may register
          Prints     \* how many calls of the console a CPU makes before it panics

ASSUME ConsolesFit == IsFiniteSet(Consoles) /\ Cardinality(Consoles) <= 4
ASSUME PrintsIsNat == Prints \in Nat
ASSUME NobodyIsNothing == "nobody" \notin CPUs \cup Consoles

VARIABLES console_locked, console_owner, console_depth,   \* console_lock: inner_, owner_, depth_
          console_pc,        \* [CPU -> its next step]
          want,      \* [CPU -> the call it is in]
          left,      \* [CPU -> calls it may still make]
          target,    \* [CPU -> the console whose put() it is in]
          consoles,  \* the registered consoles
          halting, nmi,
          reports    \* the CPUs that began a report, and the ones that finished it

lock == <<console_locked, console_owner, console_depth>>
panic_vars == <<console_locked, console_owner, console_depth, console_pc, want, left, target, consoles, halting, nmi, reports>>

nobody == "nobody"
Ops == {"write", "register", "unregister"}

PanicInit ==
    /\ console_locked = "free" /\ console_owner = nobody /\ console_depth = 0
    /\ console_pc = [c \in CPUs |-> "run"] /\ want = [c \in CPUs |-> "nothing"]
    /\ left = [c \in CPUs |-> Prints] /\ target = [c \in CPUs |-> nobody]
    /\ consoles = {} /\ halting = "no" /\ nmi = {}
    /\ reports = [begun |-> {}, done |-> {}]

Jump(c, where) == console_pc' = [console_pc EXCEPT ![c] = where]

ConsoleCall(c) ==
    /\ console_pc[c] = "run" /\ left[c] > 0
    /\ \E op \in Ops : want' = [want EXCEPT ![c] = op]
    /\ left' = [left EXCEPT ![c] = @ - 1]
    /\ Jump(c, "lock")
    /\ UNCHANGED <<lock, target, consoles, halting, nmi, reports>>

\* panic(), from ordinary code or from a fault in a put(), once on a CPU
Panics(c) ==
    /\ console_pc[c] \in {"run", "put"} /\ want[c] \notin {"panic", "halt"}
    /\ want' = [want EXCEPT ![c] = "panic"]
    /\ target' = [target EXCEPT ![c] = nobody]
    /\ Jump(c, "lock")
    /\ UNCHANGED <<lock, left, consoles, halting, nmi, reports>>

----------------------------------------------------------------------------
\* RecursiveIrqLock::lock() and unlock()

Owns(c) == console_depth > 0 /\ console_owner = c

LockAgain(c) ==
    /\ console_pc[c] = "lock" /\ Owns(c)
    /\ console_depth' = console_depth + 1
    /\ Jump(c, "inside")
    /\ UNCHANGED <<console_locked, console_owner, want, left, target, consoles, halting, nmi, reports>>

LockFirst(c) ==
    /\ console_pc[c] = "lock" /\ ~Owns(c)
    /\ Jump(c, "spin")
    /\ UNCHANGED <<lock, want, left, target, consoles, halting, nmi, reports>>

\* The exchange finds the lock taken and goes on.
SpinEndsAlways == TRUE

SpinEnds == console_locked = "free"

ConsoleExchange(c) ==
    /\ console_pc[c] = "spin" /\ SpinEnds
    /\ console_locked' = "taken"
    /\ Jump(c, "own")
    /\ UNCHANGED <<console_owner, console_depth, want, left, target, consoles, halting, nmi, reports>>

StoreConsoleOwner(c) ==
    /\ console_pc[c] = "own"
    /\ console_owner' = c
    /\ Jump(c, "count")
    /\ UNCHANGED <<console_locked, console_depth, want, left, target, consoles, halting, nmi, reports>>

StoreDepth(c) ==
    /\ console_pc[c] = "count"
    /\ console_depth' = 1
    /\ Jump(c, "inside")
    /\ UNCHANGED <<console_locked, console_owner, want, left, target, consoles, halting, nmi, reports>>

\* Where a CPU goes on when its call has given the lock back
After(c) ==
    CASE want[c] = "panic" -> "halt"
      [] want[c] = "halt" -> "stopped"
      [] OTHER -> "run"

CountDown(c) ==
    /\ console_pc[c] = "leave"
    /\ console_depth' = console_depth - 1
    /\ Jump(c, IF console_depth = 1 THEN "disown" ELSE After(c))
    /\ UNCHANGED <<console_locked, console_owner, want, left, target, consoles, halting, nmi, reports>>

\* The two stores of unlock() in the other order.
UnlockStoresSwapped(step) == IF step = "disown" THEN [locked |-> "free", owner |-> console_owner]
                             ELSE [locked |-> console_locked, owner |-> nobody]

UnlockStores(step) == IF step = "disown" THEN [locked |-> console_locked, owner |-> nobody]
                      ELSE [locked |-> "free", owner |-> console_owner]

ConsoleUnlock(c) ==
    /\ console_pc[c] \in {"disown", "free"}
    /\ console_locked' = UnlockStores(console_pc[c]).locked /\ console_owner' = UnlockStores(console_pc[c]).owner
    /\ Jump(c, IF console_pc[c] = "disown" THEN "free" ELSE After(c))
    /\ UNCHANGED <<console_depth, want, left, target, consoles, halting, nmi, reports>>

----------------------------------------------------------------------------
\* What is done with the lock

\* console_put() and console_write() call put() on every console in turn; one of
\* these calls stands for all of them
Put(c) ==
    /\ console_pc[c] = "inside" /\ want[c] \in {"write", "halt"}
    /\ \E k \in consoles : target' = [target EXCEPT ![c] = k]
    /\ Jump(c, "put")
    /\ UNCHANGED <<lock, want, left, consoles, halting, nmi, reports>>

PutReturns(c) ==
    /\ console_pc[c] = "put"
    /\ target' = [target EXCEPT ![c] = nobody]
    /\ Jump(c, "leave")
    /\ UNCHANGED <<lock, want, left, consoles, halting, nmi, reports>>

\* Nothing is registered yet
PutNowhere(c) ==
    /\ console_pc[c] = "inside" /\ want[c] \in {"write", "halt"} /\ consoles = {}
    /\ Jump(c, "leave")
    /\ UNCHANGED <<lock, want, left, target, consoles, halting, nmi, reports>>

console_register(c) ==
    /\ console_pc[c] = "inside" /\ want[c] = "register"
    /\ \E k \in Consoles : consoles' = consoles \cup {k}
    /\ Jump(c, "leave")
    /\ UNCHANGED <<lock, want, left, target, halting, nmi, reports>>

console_unregister(c) ==
    /\ console_pc[c] = "inside" /\ want[c] = "unregister"
    /\ \E k \in Consoles : consoles' = consoles \ {k}
    /\ Jump(c, "leave")
    /\ UNCHANGED <<lock, want, left, target, halting, nmi, reports>>

\* smp_halt_others(), with the console in hand
HaltOthers(c) ==
    /\ console_pc[c] = "inside" /\ want[c] = "panic"
    /\ halting' = "yes"
    /\ nmi' = nmi \cup (CPUs \ {c})
    /\ reports' = [reports EXCEPT !.begun = @ \cup {c}]
    /\ Jump(c, "report")
    /\ UNCHANGED <<lock, want, left, target, consoles>>

\* The report is many lines long: an NMI that was sent before it has arrived when
\* it ends
Report(c) ==
    /\ console_pc[c] = "report" /\ nmi = {}
    /\ reports' = [reports EXCEPT !.done = @ \cup {c}]
    /\ Jump(c, "leave")
    /\ UNCHANGED <<lock, want, left, target, consoles, halting, nmi>>

\* halt() writes its last line and stops
Halt(c) ==
    /\ console_pc[c] = "halt"
    /\ want' = [want EXCEPT ![c] = "halt"]
    /\ Jump(c, "lock")
    /\ UNCHANGED <<lock, left, target, consoles, halting, nmi, reports>>

\* isr_dispatch(): an NMI while the machine is halting stops the CPU for good
NmiStops(c) ==
    /\ c \in nmi /\ halting = "yes"
    /\ nmi' = nmi \ {c}
    /\ Jump(c, "stopped")
    /\ UNCHANGED <<lock, want, left, target, consoles, halting, reports>>

Step(c) ==
    \/ LockAgain(c) \/ LockFirst(c) \/ ConsoleExchange(c) \/ StoreConsoleOwner(c) \/ StoreDepth(c)
    \/ CountDown(c) \/ ConsoleUnlock(c) \/ Put(c) \/ PutReturns(c) \/ PutNowhere(c)
    \/ console_register(c) \/ console_unregister(c)
    \/ HaltOthers(c) \/ Report(c) \/ Halt(c) \/ NmiStops(c)

PanicNext == \E c \in CPUs : ConsoleCall(c) \/ Panics(c) \/ Step(c)

\* A CPU inside a call goes on; nothing makes a CPU print or panic.
PanicSpec == PanicInit /\ [][PanicNext]_panic_vars /\ \A c \in CPUs : WF_panic_vars(Step(c))

----------------------------------------------------------------------------
Busy == {"own", "count", "inside", "put", "report", "leave", "disown", "free"}

\* The lock is taken by a CPU at a time, its depth counts the calls that CPU is in,
\* and the variables hold what they are declared to hold.
PanicTypeOK ==
    /\ console_locked \in {"free", "taken"} /\ console_owner \in CPUs \cup {nobody} /\ console_depth \in 0..2
    /\ consoles \subseteq Consoles /\ nmi \subseteq CPUs
    /\ \A c \in CPUs : left[c] \in 0..Prints /\ target[c] \in Consoles \cup {nobody}

\* At most one CPU is between the exchange and the last store of unlock(), so that
\* no two write to the consoles at once, a panicking one included.
ConsoleIsExclusive ==
    \A c, d \in CPUs : console_pc[c] \in Busy /\ console_pc[d] \in Busy => c = d

\* A put() runs on a console that is registered: a driver that has unregistered its
\* console may take its memory away (modules/vga).
PutsOnRegistered == \A c \in CPUs : target[c] # nobody => target[c] \in consoles

\* Two CPUs that panic together give one report, not two.
OneReport == \A c, d \in reports.begun : c = d

\* What reaches the screen is whole: one CPU at a time is behind console_lock, also
\* when panic() or an NMI breaks into a write, it prints on consoles that are still
\* registered, and a single CPU reports.
ConsoleStaysWhole == PanicTypeOK /\ ConsoleIsExclusive /\ PutsOnRegistered /\ OneReport

\* A CPU that panics stops the machine with one whole report, whatever the others
\* were doing: no CPU is stopped with the console in its hands.
PanicReports ==
    (\E c \in CPUs : want[c] = "panic")
        ~> (reports.done # {} /\ \A c \in CPUs : console_pc[c] = "stopped")

=============================================================================
