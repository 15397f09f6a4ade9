----------------------------- MODULE Scheduler -----------------------------
(***************************************************************************)
(* kernel/sched/scheduler.cpp at the level of its links.  The run queue,   *)
(* the sleepers and every WaitQueue thread their lists through one field,  *)
(* Thread::queue_next_, so a thread on two lists ties them together.       *)
(*                                                                         *)
(* sched_lock is taken by the thread that gives up the CPU and released by *)
(* the thread that resumes.  Code under the lock is one step, except that  *)
(* a loop takes one step per iteration and the way out of a switch takes   *)
(* three: set_current, context_switch, and the unlock on the other stack.  *)
(* The idle thread of CPU c is written c.                                  *)
(***************************************************************************)
EXTENDS Integers, FiniteSets

CONSTANTS Cpu,         \* CPUs, each standing for its idle thread as well
          Worker,      \* Thread objects Thread::spawn can create
          Queue,       \* WaitQueue objects
          Null,        \* nullptr
          MaxThreads,  \* max_threads
          MaxTime,     \* bound: last value of the clock
          WakeTargets, \* states of a thread its callers call Thread::wake() in
          Parks,       \* threads whose code may sleep, wait or exit
          Programs     \* threads that may run a program

ASSUME SchedulerAssumption ==
    /\ Cpu \cap Worker = {} /\ IsFiniteSet(Worker)
    /\ Null \notin Cpu \cup Worker \cup Queue
    /\ MaxThreads \in Nat /\ MaxTime \in Nat
    /\ Parks \subseteq Cpu \cup Worker /\ Programs \subseteq Worker

VARIABLES rq,            \* run_queue_head, run_queue_tail and every queue_next_
          sleepers,      \* head of the list of sleeping threads
          remaining,     \* local of wake_expired_sleepers()
          head,          \* WaitQueue::head_
          state,         \* Thread::state_, "Unborn" before spawn allocates it
          wake_at,       \* Thread::wake_at_
          threads_alive, \* threads_alive
          spawning,      \* the Thread a call of spawn() is building, or Null
          exited,        \* history: threads that called thread_exit()
          current,       \* PerCpu::current_thread
          stack,         \* the thread on whose stack each CPU executes
          owner,         \* CPU that holds sched_lock, or Null
          irq,           \* interrupt flag of each CPU
          inIsr,         \* what a thread is in with interrupts off: the "timer" or a
                         \* "device" handler, a "call" of its program, or "no"
          flags,         \* flags the thread unlocks with once it resumes
          pc,            \* where each CPU is
          arg,           \* the queue or thread the lock holder's loop is for
          link,          \* link of detach_from_sleepers(), Null for &sleepers
          clock,         \* monotonic_ns()
          now            \* the sample of it yield() passed on

vars == <<rq, sleepers, remaining, head, state, wake_at, threads_alive,
          spawning, exited, current, stack, owner, irq, inIsr, flags, pc, arg,
          link, clock, now>>

lists == <<rq, sleepers, remaining, head>>
births == <<threads_alive, spawning, exited>>
where == <<current, stack>>
loop == <<arg, link>>
time == <<clock, now>>

Threads == Cpu \cup Worker
ThreadState == {"Unborn", "Ready", "Running", "Sleeping", "Blocked", "Dead"}
PcValue == {"run", "isr", "iret", "waking", "draining", "detaching",
            "switch", "resume", "panic"}
Handlers == {"timer", "device"}
UnderLock == {"waking", "draining", "detaching", "switch", "resume"}

\* sched_init() and sched_start_cpu(): every CPU runs its idle thread.
Init ==
    /\ rq = [head |-> Null, tail |-> Null, next |-> [t \in Threads |-> Null]]
    /\ sleepers = Null /\ remaining = Null
    /\ head = [w \in Queue |-> Null]
    /\ state = [t \in Threads |-> IF t \in Cpu THEN "Running" ELSE "Unborn"]
    /\ wake_at = [t \in Threads |-> 0]
    /\ threads_alive = 0
    /\ spawning = [t \in Threads |-> Null]
    /\ exited = {}
    /\ current = [c \in Cpu |-> c]
    /\ stack = [c \in Cpu |-> c]
    /\ owner = Null
    /\ irq = [c \in Cpu |-> "on"]
    /\ inIsr = [t \in Threads |-> "no"]
    /\ flags = [t \in Threads |-> "on"]
    /\ pc = [c \in Cpu |-> "run"]
    /\ arg = Null /\ link = Null
    /\ clock = 0 /\ now = 0

----------------------------------------------------------------------------
(* The list operations, as functions of the three values they change.      *)

\* Scheduler::enqueue with the new thread in front.
EnqueueFront(q, t) ==
    [head |-> t, tail |-> IF q.tail = Null THEN t ELSE q.tail,
     next |-> [q.next EXCEPT ![t] = q.head]]

\* Scheduler::enqueue, the links
Enqueue(q, t) ==
    LET cut == [q.next EXCEPT ![t] = Null] IN
    IF q.tail = Null
    THEN [head |-> t, tail |-> t, next |-> cut]
    ELSE [head |-> q.head, tail |-> t, next |-> [cut EXCEPT ![q.tail] = t]]

\* Scheduler::dequeue that leaves the tail of a queue it emptied.
DequeueKeepsTail(q) ==
    [q EXCEPT !.head = q.next[q.head], !.next[q.head] = Null]

\* Scheduler::dequeue of a queue that is not empty
Dequeue(q) ==
    LET second == q.next[q.head] IN
    [head |-> second,
     tail |-> IF second = Null THEN Null ELSE q.tail,
     next |-> [q.next EXCEPT ![q.head] = Null]]

\* thread->queue_next_ = first, for a thread pushed in front of a list
Link(q, t, first) == [q EXCEPT !.next[t] = first]

\* take_from(head_) that leaves the thread on the queue.
TakeFromKeeps(w) == head

\* take_from(head_), the head it leaves behind
TakeFrom(w) == [head EXCEPT ![w] = rq.next[head[w]]]

Self(c) == current[c]
InThread(c) == pc[c] = "run" /\ spawning[Self(c)] = Null

\* sched_lock.lock() by the code on c, which saves the interrupt flag
Lock(c) ==
    /\ owner = Null
    /\ owner' = c
    /\ flags' = [flags EXCEPT ![Self(c)] = irq[c]]
    /\ irq' = [irq EXCEPT ![c] = "off"]

Goto(c, label) == pc' = [pc EXCEPT ![c] = label]

\* set_current(next) of switch_to(): where c goes next, the lock still held
SetCurrent(c, next) ==
    /\ current' = [current EXCEPT ![c] = next]
    /\ Goto(c, IF next = Self(c) THEN "resume" ELSE "switch")
    /\ UNCHANGED stack

----------------------------------------------------------------------------
(* yield(), from thread code and from sched_tick()                          *)

\* yield() up to the sample of the clock it passes to wake_expired_sleepers
Yield(c) ==
    /\ InThread(c) \/ (pc[c] = "isr" /\ inIsr[Self(c)] = "timer")
    /\ Lock(c)
    /\ now' = clock
    /\ Goto(c, "waking")
    /\ UNCHANGED <<lists, state, wake_at, births, where, inIsr, loop, clock>>

\* thread->wake_at_ <= now
Expired(t) == wake_at[t] <= now

\* one round of the loop in wake_expired_sleepers()
WakeExpired(c) ==
    LET t == sleepers IN
    /\ pc[c] = "waking" /\ t # Null
    /\ sleepers' = rq.next[t]
    /\ IF Expired(t)
       THEN /\ rq' = Enqueue(rq, t)
            /\ state' = [state EXCEPT ![t] = "Ready"]
            /\ UNCHANGED remaining
       ELSE /\ rq' = Link(rq, t, remaining)
            /\ remaining' = t
            /\ UNCHANGED state
    /\ UNCHANGED <<head, wake_at, births, where, owner, irq, inIsr, flags, pc,
                   loop, time>>

\* The threads that sleep on are forgotten.
StillAsleepLost == Null

\* sleepers = remaining;
StillAsleep == remaining

\* if (self != idle_thread_of(this_cpu())) enqueue(self);
Requeue(c, q) == IF Self(c) = c THEN q ELSE Enqueue(q, Self(c))

\* The rest of yield(): nobody is ready and the caller carries on, or the
\* caller goes to the back of the queue and the front one takes the CPU.
YieldSwitch(c) ==
    LET next == rq.head IN
    /\ pc[c] = "waking" /\ sleepers = Null
    /\ sleepers' = StillAsleep
    /\ remaining' = Null
    /\ now' = 0
    /\ IF next = Null
       THEN /\ Goto(c, "resume")
            /\ UNCHANGED <<rq, state, where>>
       ELSE /\ rq' = Requeue(c, Dequeue(rq))
            /\ state' = [t \in Threads |->
                   IF t = next THEN "Running"
                   ELSE IF t = Self(c) /\ t # c THEN "Ready" ELSE state[t]]
            /\ SetCurrent(c, next)
    /\ UNCHANGED <<head, wake_at, births, owner, irq, inIsr, flags, loop, clock>>

----------------------------------------------------------------------------
(* Giving up the CPU: sleep, wait, exit.  q is the list state the caller   *)
(* left behind and s the state it marked itself with.                      *)

SwitchAway(c, q, s) ==
    LET next == IF q.head = Null THEN c ELSE q.head IN
    /\ rq' = IF q.head = Null THEN q ELSE Dequeue(q)
    /\ state' = [state EXCEPT ![Self(c)] = s, ![next] = "Running"]
    /\ SetCurrent(c, next)

\* thread_sleep_ns(d): park_sleeper_at, then the next thread or the idle one
ThreadSleep(c, d) ==
    /\ InThread(c) /\ Self(c) \in Parks
    /\ clock + d <= MaxTime
    /\ Lock(c)
    /\ wake_at' = [wake_at EXCEPT ![Self(c)] = clock + d]
    /\ sleepers' = Self(c)
    /\ SwitchAway(c, Link(rq, Self(c), sleepers), "Sleeping")
    /\ UNCHANGED <<remaining, head, births, inIsr, loop, time>>

\* WaitQueue::wait: block_on, then the next thread or the idle one
Wait(c, w) ==
    /\ InThread(c) /\ Self(c) \in Parks
    /\ Lock(c)
    /\ head' = [head EXCEPT ![w] = Self(c)]
    /\ SwitchAway(c, Link(rq, Self(c), head[w]), "Blocked")
    /\ UNCHANGED <<sleepers, remaining, wake_at, births, inIsr, loop, time>>

\* --threads_alive;
CountDown == threads_alive' = threads_alive - 1

\* thread_exit: mark_dead, then the next thread or the idle one
ThreadExit(c) ==
    /\ InThread(c) /\ Self(c) \in Parks \cap Worker
    /\ Lock(c)
    /\ exited' = exited \cup {Self(c)}
    /\ CountDown
    /\ SwitchAway(c, rq, "Dead")
    /\ UNCHANGED <<sleepers, remaining, head, wake_at, spawning, inIsr, loop,
                   time>>

\* context_switch(): the registers of one thread go to its stack, the ones of
\* the other come from its own.
ContextSwitch(c) ==
    /\ pc[c] = "switch"
    /\ stack' = [stack EXCEPT ![c] = current[c]]
    /\ Goto(c, "resume")
    /\ UNCHANGED <<lists, state, wake_at, births, current, owner, irq, inIsr,
                   flags, loop, time>>

\* sched_lock.unlock(flags) behind switch_to(), or in thread_entry_start(), by
\* the thread the CPU resumed.  A thread switched out in the timer handler
\* goes on to the iret, any other returns to its code; one that had called
\* thread_exit() panics, "came back from the dead".
Resume(c) ==
    /\ pc[c] = "resume"
    /\ owner' = Null
    /\ irq' = [irq EXCEPT ![c] = flags[Self(c)]]
    /\ Goto(c, CASE Self(c) \in exited -> "panic"
                 [] inIsr[Self(c)] \in Handlers -> "iret"
                 [] OTHER -> "run")
    /\ UNCHANGED <<lists, state, wake_at, births, where, inIsr, flags, loop,
                   time>>

----------------------------------------------------------------------------
(* Waking threads up                                                        *)

\* The IrqGuard of the callers below goes out of scope.
Unlock(c) ==
    /\ owner' = Null
    /\ irq' = [irq EXCEPT ![c] = flags[Self(c)]]
    /\ Goto(c, IF inIsr[Self(c)] \in Handlers THEN "isr" ELSE "run")

\* WaitQueue::wake_one on a queue somebody waits on
WakeOne(c, w) ==
    LET t == head[w] IN
    /\ InThread(c) \/ pc[c] = "isr"
    /\ owner = Null
    /\ t # Null
    /\ head' = TakeFrom(w)
    /\ rq' = Enqueue(rq, t)
    /\ state' = [state EXCEPT ![t] = "Ready"]
    /\ UNCHANGED <<sleepers, remaining, wake_at, births, where, owner, irq,
                   inIsr, flags, pc, loop, time>>

\* WaitQueue::wake_all takes the lock
WakeAll(c, w) ==
    /\ InThread(c) \/ pc[c] = "isr"
    /\ Lock(c)
    /\ arg' = w
    /\ Goto(c, "draining")
    /\ UNCHANGED <<lists, state, wake_at, births, where, inIsr, link, time>>

\* and takes the threads off the queue one by one, until it is empty.
WakeAllStep(c) ==
    LET t == head[arg] IN
    /\ pc[c] = "draining"
    /\ IF t # Null
       THEN /\ head' = TakeFrom(arg)
            /\ rq' = Enqueue(rq, t)
            /\ state' = [state EXCEPT ![t] = "Ready"]
            /\ UNCHANGED <<owner, irq, pc, arg>>
       ELSE /\ Unlock(c)
            /\ arg' = Null
            /\ UNCHANGED <<head, rq, state>>
    /\ UNCHANGED <<sleepers, remaining, wake_at, births, where, inIsr, flags,
                   link, time>>

\* Thread::wake() on a thread that sleeps or is blocked.  In any other state
\* the call changes nothing.
Wake(c, t) ==
    /\ InThread(c)
    /\ state[t] \in WakeTargets \cap {"Blocked", "Sleeping"}
    /\ Lock(c)
    /\ arg' = t
    /\ Goto(c, "detaching")
    /\ UNCHANGED <<lists, state, wake_at, births, where, inIsr, link, time>>

\* What *link = thread->queue_next_ leaves, when the walk found the thread.
Detached(at) ==
    CASE at # arg   -> [queue |-> rq, first |-> sleepers]
      [] link = Null -> [queue |-> rq, first |-> rq.next[arg]]
      [] OTHER      -> [queue |-> Link(rq, link, rq.next[arg]), first |-> sleepers]

\* One round of detach_from_sleepers(), and the enqueue() once it returns.
WakeStep(c) ==
    LET at == IF link = Null THEN sleepers ELSE rq.next[link] IN
    /\ pc[c] = "detaching"
    /\ IF at \notin {Null, arg}
       THEN /\ link' = at
            /\ UNCHANGED <<rq, sleepers, state, owner, irq, pc, arg>>
       ELSE /\ sleepers' = Detached(at).first
            /\ rq' = Enqueue(Detached(at).queue, arg)
            /\ state' = [state EXCEPT ![arg] = "Ready"]
            /\ Unlock(c)
            /\ arg' = Null /\ link' = Null
    /\ UNCHANGED <<remaining, head, wake_at, births, where, inIsr, flags, time>>

----------------------------------------------------------------------------
(* Thread::spawn: the limit is read without the lock, the object and its   *)
(* stack are built, and only then is the thread adopted under the lock.     *)

\* threads_alive < max_threads and the allocations succeed
SpawnCheck(c, t) ==
    /\ InThread(c)
    /\ state[t] = "Unborn" /\ \A u \in Threads : spawning[u] # t
    /\ threads_alive < MaxThreads
    /\ spawning' = [spawning EXCEPT ![Self(c)] = t]
    /\ UNCHANGED <<lists, state, wake_at, threads_alive, exited, where, owner,
                   irq, inIsr, flags, pc, loop, time>>

\* ++threads_alive;
CountUp == threads_alive' = threads_alive + 1

\* sched_lock.unlock(1ULL << 9) in thread_entry_start()
EntryFlags == "on"

\* Scheduler::adopt of a thread that starts in thread_entry_start()
Adopt(c) ==
    LET t == spawning[Self(c)] IN
    /\ pc[c] = "run" /\ t # Null
    /\ owner = Null
    /\ spawning' = [spawning EXCEPT ![Self(c)] = Null]
    /\ CountUp
    /\ rq' = Enqueue(rq, t)
    /\ state' = [state EXCEPT ![t] = "Ready"]
    /\ flags' = [flags EXCEPT ![t] = EntryFlags]
    /\ inIsr' = [inIsr EXCEPT ![t] = "no"]
    /\ UNCHANGED <<sleepers, remaining, head, wake_at, exited, where, owner,
                   irq, pc, loop, time>>

----------------------------------------------------------------------------
(* isr_dispatch: a handler may wake threads; the timer one ends in         *)
(* sched_tick(), which is the Yield above, and any other one returns.       *)

Interrupt(c, vector) ==
    /\ irq[c] = "on" /\ pc[c] = "run"
    /\ irq' = [irq EXCEPT ![c] = "off"]
    /\ inIsr' = [inIsr EXCEPT ![Self(c)] = vector]
    /\ Goto(c, "isr")
    /\ UNCHANGED <<lists, state, wake_at, births, where, owner, flags, loop, time>>

Iret(c) ==
    /\ pc[c] = "iret" \/ (pc[c] = "isr" /\ inIsr[Self(c)] = "device")
    /\ irq' = [irq EXCEPT ![c] = "on"]
    /\ inIsr' = [inIsr EXCEPT ![Self(c)] = "no"]
    /\ Goto(c, "run")
    /\ UNCHANGED <<lists, state, wake_at, births, where, owner, flags, loop, time>>

\* A program makes a call, with the interrupt flag in SFMASK, or takes a fault: its thread
\* runs in the kernel with interrupts off, and may sleep there.  start_init() runs one
\* program at a time.
EnterCall(c) ==
    /\ InThread(c) /\ irq[c] = "on" /\ Self(c) \in Programs
    /\ \A t \in Threads : inIsr[t] # "call"
    /\ irq' = [irq EXCEPT ![c] = "off"]
    /\ inIsr' = [inIsr EXCEPT ![Self(c)] = "call"]
    /\ UNCHANGED <<lists, state, wake_at, births, where, owner, flags, pc, loop, time>>

\* sysret, or the iretq of enter_user_mode for the next program.  leave_user_mode has no such
\* step: the thread that ran the program goes on, yields and sleeps with interrupts off.
ReturnToUser(c) ==
    /\ InThread(c) /\ inIsr[Self(c)] = "call"
    /\ irq' = [irq EXCEPT ![c] = "on"]
    /\ inIsr' = [inIsr EXCEPT ![Self(c)] = "no"]
    /\ UNCHANGED <<lists, state, wake_at, births, where, owner, flags, pc, loop, time>>

\* The clock source moves on by itself.
ClockTick ==
    /\ clock < MaxTime
    /\ clock' = clock + 1
    /\ UNCHANGED <<lists, state, wake_at, births, where, owner, irq, inIsr,
                   flags, pc, loop, now>>

Calls(c) ==
    \/ Yield(c) \/ ThreadExit(c) \/ Adopt(c)
    \/ \E d \in 0..MaxTime : ThreadSleep(c, d)
    \/ \E w \in Queue : Wait(c, w) \/ WakeOne(c, w) \/ WakeAll(c, w)
    \/ \E t \in Worker : Wake(c, t) \/ SpawnCheck(c, t)
Holder(c) ==
    \/ WakeExpired(c) \/ YieldSwitch(c) \/ ContextSwitch(c) \/ Resume(c)
    \/ WakeAllStep(c) \/ WakeStep(c)

Next == ClockTick \/ \E c \in Cpu : Calls(c) \/ Holder(c)
                                    \/ Iret(c) \/ Interrupt(c, "timer")
                                    \/ Interrupt(c, "device")
                                    \/ EnterCall(c) \/ ReturnToUser(c)

Spec == Init /\ [][Next]_vars

----------------------------------------------------------------------------
TypeOK ==
    /\ rq \in [head : Threads \cup {Null}, tail : Threads \cup {Null},
               next : [Threads -> Threads \cup {Null}]]
    /\ sleepers \in Threads \cup {Null} /\ remaining \in Threads \cup {Null}
    /\ head \in [Queue -> Threads \cup {Null}]
    /\ state \in [Threads -> ThreadState]
    /\ wake_at \in [Threads -> Nat]
    /\ threads_alive \in Nat
    /\ spawning \in [Threads -> Worker \cup {Null}]
    /\ exited \in SUBSET Worker
    /\ current \in [Cpu -> Threads] /\ stack \in [Cpu -> Threads]
    /\ owner \in Cpu \cup {Null}
    /\ irq \in [Cpu -> {"on", "off"}]
    /\ inIsr \in [Threads -> Handlers \cup {"no", "call"}]
    /\ flags \in [Threads -> {"on", "off"}]
    /\ pc \in [Cpu -> PcValue]
    /\ arg \in Threads \cup Queue \cup {Null}
    /\ link \in Threads \cup {Null}
    /\ clock \in Nat /\ now \in Nat

\* No thread is current on two CPUs, and no CPU resumes a thread while another
\* still executes on its stack: sched_lock is held from the moment a thread
\* puts itself on a list until context_switch() has saved it.
OneCpuPerThread ==
    \A c, d \in Cpu : c # d => current[c] # current[d] /\ stack[c] # stack[d]

\* The lock taken before a switch is released exactly once, by whoever resumes
\* on that CPU, new threads included; the CPU that holds it runs with
\* interrupts off, so the timer handler can never ask for a lock its own CPU
\* holds; and code outside it finds the interrupt flag it left, on whichever CPU
\* it resumes: off in a handler and in a call of a program, on anywhere else.
LockHandedOver ==
    \A c \in Cpu :
        /\ owner = c <=> pc[c] \in UnderLock
        /\ irq[c] = "on" <=> pc[c] = "run" /\ inIsr[Self(c)] = "no"

\* thread_exit() never returns: scheduler.cpp panics with "thread %s came back
\* from the dead" if it does.
NeverBackFromTheDead ==
    \A c \in Cpu : current[c] \notin exited /\ pc[c] # "panic"

\* At most one link leads to a thread, and a list only links threads that are
\* in the state the list is for.  This is what one queue_next_ per thread asks
\* of every caller: no thread is ever on two lists, and none that runs is on
\* any.
ListsDisjoint ==
    LET next == rq.next
        Heads == {rq.head, sleepers, remaining} \cup {head[w] : w \in Queue}
    IN
    /\ \A t, u \in Threads : next[t] # Null /\ next[t] = next[u] => t = u
    /\ \A t \in Threads : next[t] # Null =>
           /\ next[t] \notin Heads
           /\ state[t] \in {"Ready", "Sleeping", "Blocked"}
           /\ state[next[t]] = state[t]
    /\ rq.head # Null => state[rq.head] = "Ready"
    /\ sleepers # Null => state[sleepers] = "Sleeping" /\ sleepers # remaining
    /\ remaining # Null => state[remaining] = "Sleeping"
    /\ \A w, v \in Queue : head[w] # Null =>
           state[head[w]] = "Blocked" /\ (head[w] = head[v] => w = v)

\* No thread is lost: one that is ready, asleep or blocked is linked from
\* somewhere, one that runs is current on a CPU (an idle thread stays marked
\* running when it is switched out), and the tail the next enqueue() appends
\* to is the last one.
NoThreadLost ==
    LET Linked(t) == \E u \in Threads : rq.next[u] = t IN
    /\ \A t \in Threads :
           /\ state[t] = "Ready" => Linked(t) \/ t = rq.head
           /\ state[t] = "Sleeping" =>
                  Linked(t) \/ t = sleepers \/ t = remaining
           /\ state[t] = "Blocked" => Linked(t) \/ \E w \in Queue : t = head[w]
           /\ state[t] = "Running" <=> t \in Cpu \/ \E c \in Cpu : t = current[c]
    /\ rq.head = Null <=> rq.tail = Null
    /\ rq.tail # Null => state[rq.tail] = "Ready" /\ rq.next[rq.tail] = Null

\* threads_alive counts the threads that were adopted and have not exited, so
\* spawn's limit is on threads that can still run.
AliveCounted ==
    threads_alive = Cardinality({t \in Worker :
                        state[t] \notin {"Unborn", "Dead"} /\ t \notin exited})

\* A sleeping thread leaves the list of sleepers only once the clock has
\* reached its deadline, unless Thread::wake() asks for it.
NotBeforeDeadline ==
    [][\A t \in Threads :
          state[t] = "Sleeping" /\ state'[t] # "Sleeping"
              => wake_at[t] <= clock \/ \E c \in Cpu : pc[c] = "detaching"]_vars

\* Every thread is where its state says after any interleaving of spawn, yield, sleep,
\* wait, wake and exit with the ticks: on one list or one CPU, never lost, never back
\* after exit(), never awake early; the lock and the interrupt flag follow the switch.
ThreadsAccounted ==
    /\ [](/\ TypeOK /\ LockHandedOver /\ NeverBackFromTheDead
          /\ ListsDisjoint /\ NoThreadLost /\ AliveCounted)
    /\ NotBeforeDeadline
====
