---------------------------- MODULE SchedulerMC ----------------------------
(* The scheduler on small instances, and its refinement of RoundRobin.     *)
EXTENDS Scheduler, Sequences, TLC

CONSTANT Boot   \* the CPU whose local APIC timer timers_init() started

ASSUME BootAssumption == Boot \in Cpu

Symmetry == Permutations(Worker) \cup Permutations(Cpu \ {Boot})

\* The threads on the list that starts at first, in order; a list whose links
\* never end has Null after as many threads as there are.
RECURSIVE Walk(_, _)
Walk(t, left) ==
    IF t = Null THEN <<>>
    ELSE IF left = 0 THEN <<Null>> ELSE <<t>> \o Walk(rq.next[t], left - 1)
ListFrom(first) == Walk(first, Cardinality(Threads))

\* Every ready thread is on the run queue, every sleeping thread among the
\* sleepers and every blocked one on a wait queue: following the links from
\* the heads reaches each of them.
AllReachable ==
    LET On(first) == LET list == ListFrom(first) IN {list[i] : i \in DOMAIN list}
        In(s) == {t \in Threads : state[t] = s}
    IN /\ In("Ready") = On(rq.head)
       /\ In("Sleeping") = On(sleepers) \cup On(remaining)
       /\ In("Blocked") = UNION {On(head[w]) : w \in Queue}

Promise == INSTANCE RoundRobin WITH
    ready <- ListFrom(rq.head),
    running <- current,
    parked <- {t \in Threads : state[t] \in {"Sleeping", "Blocked"}},
    born <- {t \in Worker : state[t] # "Unborn"}

\* Seen through its lists, which always reach every thread, the scheduler is a
\* round robin over one queue: nothing overtakes, nothing is lost or run twice,
\* and a CPU runs its idle thread only when it found the queue empty.
IsRoundRobin == []AllReachable /\ Promise!Spec

----------------------------------------------------------------------------
\* The timer handler gets to sched_tick() with interrupts off and spins there
\* until it has the lock.
Tick(c) == pc[c] = "isr" /\ Yield(c)

\* A thread that runs with interrupts off is not preempted: it returns to ring 3 or exits.
EndsCall(c) == inIsr[Self(c)] = "call" /\ (ReturnToUser(c) \/ ThreadExit(c))

\* The clock runs.  Code under the lock finishes and a handler, which makes
\* finitely many calls, returns: the CPU executes nothing else.  The periodic
\* timer armed in timers_init() keeps interrupting the boot CPU, and only that
\* one: a pending interrupt is taken as soon as the flag is on, and the exchange
\* loop is assumed to win some time.  Nothing is assumed of what threads do with
\* interrupts on; with them off, a call of a program and the rest of kernel_init()
\* come to their end.
FairSpec ==
    /\ Spec
    /\ WF_vars(ClockTick)
    /\ \A c \in Cpu : WF_vars(Holder(c)) /\ SF_vars(Iret(c) \/ EndsCall(c))
    /\ SF_vars(Interrupt(Boot, "timer")) /\ SF_vars(Tick(Boot))

\* Round robin with preemption: every ready thread gets a CPU, even when no
\* running thread ever yields, sleeps or exits.
EveryReadyThreadRuns ==
    \A t \in Worker : state[t] = "Ready" ~> state[t] = "Running"

\* Every sleeping thread wakes up, though only yield() looks at the sleepers.
EverySleeperWakes ==
    \A t \in Worker : state[t] = "Sleeping" ~> state[t] # "Sleeping"

\* With a periodic timer on the boot CPU only and threads that never yield, every ready
\* thread runs and every sleeper wakes.  It rests on two assumptions: the tick is taken
\* and gets the lock again and again, and code that runs with interrupts off, which no
\* tick preempts, ends.
EveryThreadProgresses == EveryReadyThreadRuns /\ EverySleeperWakes
====
