---------------------------- MODULE IrqSpinLock ----------------------------
(***************************************************************************)
(* IrqSpinLock of include/eris/lock.hpp, one step per access to shared     *)
(* memory or to the interrupt flag.  Every CPU runs a stack of activations *)
(* of lock()/unlock(): an activation is pushed by thread code, by the      *)
(* interrupt handler that fires while the interrupt flag is on, or by code *)
(* that already holds the lock and asks for it again.                      *)
(***************************************************************************)
EXTENDS Naturals

CONSTANTS Cpu,       \* indices of the CPUs, this_cpu().index
          NoOwner,   \* no_owner, 0xFFFFFFFF
          MaxDepth   \* bound: activations nested on one CPU

ASSUME LockAssumption ==
    /\ NoOwner \notin Cpu
    /\ MaxDepth \in Nat

VARIABLES locked,    \* inner_.locked_
          owner,     \* owner_
          irq,       \* interrupt flag of each CPU
          depth,     \* activations on each CPU, the top one executes
          pc,        \* where each activation is
          flags,     \* the interrupt flag save_flags() returned to it
          code       \* the code that made it, of a thread or of a handler

vars == <<locked, owner, irq, depth, pc, flags, code>>

Level == 1..MaxDepth
PcValue == {"none", "isr", "save", "cli", "held", "who", "panic", "spin",
            "own", "cs", "disown", "release", "restore"}

Init ==
    /\ locked = FALSE
    /\ owner = NoOwner
    /\ irq = [c \in Cpu |-> "on"]
    /\ depth = [c \in Cpu |-> 0]
    /\ pc = [c \in Cpu |-> [k \in Level |-> "none"]]
    /\ flags = [c \in Cpu |-> [k \in Level |-> "off"]]
    /\ code = [c \in Cpu |-> [k \in Level |-> "thread"]]

----------------------------------------------------------------------------
At(c, k, label) == k = depth[c] /\ pc[c][k] = label
Goto(c, k, label) == pc' = [pc EXCEPT ![c][k] = label]

Push(c, label, caller) ==
    LET k == depth[c] + 1 IN
    /\ k \in Level
    /\ depth' = [depth EXCEPT ![c] = k]
    /\ pc' = [pc EXCEPT ![c][k] = label]
    /\ code' = [code EXCEPT ![c][k] = caller]

\* Thread code calls lock(), or the holder asks for the lock once more.
Call(c) ==
    /\ depth[c] > 0 => pc[c][depth[c]] = "cs"
    /\ Push(c, "save", "thread")
    /\ UNCHANGED <<locked, owner, irq, flags>>

\* An interrupt gate clears the flag and enters the handler.
Interrupt(c) ==
    /\ irq[c] = "on"
    /\ Push(c, "isr", "handler")
    /\ irq' = [irq EXCEPT ![c] = "off"]
    /\ UNCHANGED <<locked, owner, flags>>

\* The handler calls lock(), as often as it likes.
HandlerCall(c, k) ==
    /\ At(c, k, "isr")
    /\ Goto(c, k, "save")
    /\ UNCHANGED <<locked, owner, irq, depth, flags, code>>

\* The handler returns; iret brings back the flag the gate cleared.
Iret(c, k) ==
    /\ At(c, k, "isr")
    /\ irq' = [irq EXCEPT ![c] = "on"]
    /\ depth' = [depth EXCEPT ![c] = k - 1]
    /\ Goto(c, k, "none")
    /\ UNCHANGED <<locked, owner, flags, code>>

\* const u64 flags = save_flags();
SaveFlags(c, k) ==
    /\ At(c, k, "save")
    /\ flags' = [flags EXCEPT ![c][k] = irq[c]]
    /\ Goto(c, k, "cli")
    /\ UNCHANGED <<locked, owner, irq, depth, code>>

\* arch::cli();
Cli(c, k) ==
    /\ At(c, k, "cli")
    /\ irq' = [irq EXCEPT ![c] = "off"]
    /\ Goto(c, k, "held")
    /\ UNCHANGED <<locked, owner, depth, flags, code>>

\* inner_.held()
CheckHeld(c, k) ==
    /\ At(c, k, "held")
    /\ Goto(c, k, IF locked THEN "who" ELSE "spin")
    /\ UNCHANGED <<locked, owner, irq, depth, flags, code>>

\* owner_.load() == self, which ends in lock_recursion_panic()
CheckOwner(c, k) ==
    /\ At(c, k, "who")
    /\ Goto(c, k, IF owner = c THEN "panic" ELSE "spin")
    /\ UNCHANGED <<locked, owner, irq, depth, flags, code>>

\* inner_.lock(): the exchange that finds the lock free ends the loop.
Exchange(c, k) ==
    /\ At(c, k, "spin")
    /\ ~locked
    /\ locked' = TRUE
    /\ Goto(c, k, "own")
    /\ UNCHANGED <<owner, irq, depth, flags, code>>

\* owner_.store(self);
StoreOwner(c, k) ==
    /\ At(c, k, "own")
    /\ owner' = c
    /\ Goto(c, k, "cs")
    /\ UNCHANGED <<locked, irq, depth, flags, code>>

\* The guarded code ends and calls unlock(flags).
Unlock(c, k) ==
    /\ At(c, k, "cs")
    /\ Goto(c, k, "disown")
    /\ UNCHANGED <<locked, owner, irq, depth, flags, code>>

\* owner_.store(no_owner);
Disown(c, k) ==
    /\ At(c, k, "disown")
    /\ owner' = NoOwner
    /\ Goto(c, k, "release")
    /\ UNCHANGED <<locked, irq, depth, flags, code>>

\* The inner lock is never released.
ReleaseSkipped(c, k) ==
    /\ At(c, k, "release")
    /\ Goto(c, k, "restore")
    /\ UNCHANGED <<locked, owner, irq, depth, flags, code>>

\* inner_.unlock();
Release(c, k) ==
    /\ At(c, k, "release")
    /\ locked' = FALSE
    /\ Goto(c, k, "restore")
    /\ UNCHANGED <<owner, irq, depth, flags, code>>

\* Interrupts on whatever they were before.
RestoreFlagsOn(c, k) ==
    /\ At(c, k, "restore")
    /\ irq' = [irq EXCEPT ![c] = "on"]
    /\ IF code[c][k] = "handler"
       THEN Goto(c, k, "isr") /\ UNCHANGED depth
       ELSE Goto(c, k, "none") /\ depth' = [depth EXCEPT ![c] = k - 1]
    /\ UNCHANGED <<locked, owner, flags, code>>

\* restore_flags(flags) and the return, to the handler or to thread code.
RestoreFlags(c, k) ==
    /\ At(c, k, "restore")
    /\ irq' = [irq EXCEPT ![c] = IF flags[c][k] = "on" THEN "on" ELSE irq[c]]
    /\ IF code[c][k] = "handler"
       THEN Goto(c, k, "isr") /\ UNCHANGED depth
       ELSE Goto(c, k, "none") /\ depth' = [depth EXCEPT ![c] = k - 1]
    /\ UNCHANGED <<locked, owner, flags, code>>

LockStep(c, k) ==
    \/ SaveFlags(c, k) \/ Cli(c, k) \/ CheckHeld(c, k) \/ CheckOwner(c, k)
    \/ Exchange(c, k) \/ StoreOwner(c, k)
UnlockStep(c, k) ==
    \/ Unlock(c, k) \/ Disown(c, k) \/ Release(c, k) \/ RestoreFlags(c, k)

Next == \E c \in Cpu :
    \/ Call(c) \/ Interrupt(c)
    \/ \E k \in Level : HandlerCall(c, k) \/ Iret(c, k)
                        \/ LockStep(c, k) \/ UnlockStep(c, k)

Spec == Init /\ [][Next]_vars

\* A CPU keeps executing the lock code it is in; nothing is promised about
\* who wins the exchange.
FairSpec == Spec /\ \A c \in Cpu :
                WF_vars(\E k \in Level : LockStep(c, k) \/ UnlockStep(c, k))

----------------------------------------------------------------------------
Holding(c, k) == pc[c][k] \in {"own", "cs", "disown", "release"}

TypeOK ==
    /\ locked \in BOOLEAN
    /\ owner \in Cpu \cup {NoOwner}
    /\ irq \in [Cpu -> {"on", "off"}]
    /\ depth \in [Cpu -> 0..MaxDepth]
    /\ pc \in [Cpu -> [Level -> PcValue]]
    /\ flags \in [Cpu -> [Level -> {"on", "off"}]]
    /\ code \in [Cpu -> [Level -> {"thread", "handler"}]]

\* Between the exchange in SpinLock::lock() and the store in
\* SpinLock::unlock() there is one activation in the whole machine, and the
\* interrupt flag of its CPU is off.
MutualExclusion ==
    \A c, d \in Cpu : \A j, k \in Level :
        Holding(c, j) /\ Holding(d, k) => c = d /\ j = k /\ irq[c] = "off"

\* lock_recursion_panic() is called only when the CPU really holds the lock:
\* a stale owner_ never accuses a CPU that lost the race for it.
PanicOnlyOnRecursion ==
    \A c \in Cpu : \A k \in Level :
        pc[c][k] = "panic" => \E j \in Level : j < k /\ Holding(c, j)

\* A CPU that asks for a lock it holds never ends in the exchange loop, where
\* it would wait for itself: the check before inner_.lock() always sees it.
NeverWaitsForItself ==
    \A c \in Cpu : \A j, k \in Level :
        j < k /\ Holding(c, j) => pc[c][k] # "spin"

\* restore_flags() puts back what save_flags() read, so the flag stays off
\* for as long as an interrupt handler is on the CPU's stack.
HandlersRunMasked ==
    \A c \in Cpu : \A k \in Level :
        code[c][k] = "handler" /\ pc[c][k] # "none" => irq[c] = "off"

\* What a user of IrqSpinLock relies on, in all nestings of thread code, handlers and
\* recursive requests: lock() lets one activation in at a time, panics only on real
\* recursion, never waits for code it interrupted, and handlers stay masked.
LockIsSafe ==
    /\ TypeOK /\ MutualExclusion /\ PanicOnlyOnRecursion
    /\ NeverWaitsForItself /\ HandlersRunMasked

\* Whenever some activation is in the exchange loop, some activation gets the
\* lock or a recursion panic stops the machine: the CPUs never wait in a ring.
SomeoneGetsIt ==
    (\E c \in Cpu, k \in Level : pc[c][k] = "spin")
        ~> (\E c \in Cpu, k \in Level : pc[c][k] \in {"cs", "panic"})
====
