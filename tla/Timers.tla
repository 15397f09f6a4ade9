------------------------------- MODULE Timers -------------------------------
(***************************************************************************)
(* kernel/time/timers.cpp: the table of deadlines, the local APIC timer    *)
(* it programs, and timers_run() in the interrupt handler of every CPU.    *)
(*                                                                         *)
(* arm() and timer_cancel() run under timer_lock with interrupts off, and  *)
(* timers_run() takes no lock: arm() writes the fields of a slot one after *)
(* the other, in the order of the code, and timers_run() reads them one    *)
(* after the other and writes the deadline or the flag later, so that with *)
(* several CPUs the two meet in the middle of a slot.  A scan of           *)
(* program_next() is one step: whoever changes a slot meanwhile is about   *)
(* to program a timer itself.                                              *)
(***************************************************************************)
EXTENDS Integers, FiniteSets, FiniteSetsExt

CONSTANTS Cpu, BootCpu,
          MaxTimers,    \* max_timers
          MinDelay,     \* minimum_delay_ns
          MaxDelay,     \* the longest time the 32 bit count of the APIC covers
          FallbackTick, \* fallback_tick_ns, the period of jiffy_tick()
          Delays,       \* delays and periods the callers ask for
          Settings,     \* [cpus, fast, handles, time]: the CPUs that run, whether a
                        \* handler is done before the clock moves on, and bounds on
                        \* the timers armed in a run and on the clock
          MaxHandle     \* the largest bound on the timers

Off == -1
Slot == 1..MaxTimers
Handle == 1..MaxHandle

ASSUME TimersAssumption ==
    /\ BootCpu \in Cpu /\ MaxTimers \in Nat \ {0} /\ MaxHandle \in Nat \ {0}
    /\ MinDelay \in Nat \ {0} /\ MaxDelay \in Nat /\ MaxDelay >= MinDelay
    /\ FallbackTick >= MinDelay
    /\ FallbackTick \in Nat \ {0} /\ Delays \subseteq Nat
    /\ \A m \in Settings : /\ BootCpu \in m.cpus /\ m.cpus \subseteq Cpu
                           /\ m.fast \in BOOLEAN /\ m.handles \in 1..MaxHandle /\ m.time \in Nat

VARIABLES active,       \* the slots whose Timer::active is set
          deadline, period, handle,  \* the other fields of each slot
          next_handle,
          lapic_driven, \* false when the PIT drives the timers
          lapic,        \* when the APIC timer of each CPU expires, or Off
          pending,      \* CPUs with a timer interrupt that was not taken yet
          clock,        \* monotonic_ns()
          arming,       \* arm() in progress, in the CPU that holds timer_lock
          timer_pc, now, at,  \* timers_run() on each CPU: place, sample, slot
          called, interval,   \* and the callback and the period it has read
          asked,        \* history: what the caller of arm() asked for
          fired,        \* history: how often the callback of a handle ran
          cancelled,    \* history: handles whose timer_cancel() returned
          overtaken,    \* history: handles armed in a slot while a handler was in it
          setting       \* the one this run has

timer_vars == <<active, deadline, period, handle, next_handle, lapic_driven, lapic,
                pending, clock, arming, timer_pc, now, at, called, interval, asked, fired,
                cancelled, overtaken, setting>>
table == <<active, deadline, period, handle, next_handle>>
walk == <<timer_pc, now, at, called, interval>>
history == <<asked, fired, cancelled, overtaken, setting>>

NotArming == [at |-> "none", cpu |-> BootCpu, slot |-> 1, from |-> 0, delay |-> 0, period |-> 0]

\* CPU c is inside arm(), with the lock.
Arming(c) == arming.at # "none" /\ arming.cpu = c

\* lapic_timer_oneshot(): when a timer set for delay fires, the count capped
Oneshot(delay) == clock + Min({delay, MaxDelay})

\* program_next() by CPU c: what its timer is set to for the slots on
Programmed(c, on, when) ==
    IF on = {} THEN Off
    ELSE Oneshot(Max({MinDelay, Min({when[s] : s \in on}) - clock}))

\* program_next() that always believes the PIT drives the timers.
ProgramNextNever(c, on, when) == UNCHANGED lapic

ProgramNext(c, on, when) ==
    lapic' = IF lapic_driven THEN [lapic EXCEPT ![c] = Programmed(c, on, when)]
                             ELSE lapic

\* timers_init(): lapic_present() decides, then timer_every(jiffy_tick)
TimersInit ==
    /\ setting \in Settings
    /\ lapic_driven \in BOOLEAN
    /\ active = {1}
    /\ deadline = [s \in Slot |-> IF s = 1 THEN FallbackTick ELSE 0]
    /\ period = [s \in Slot |-> IF s = 1 THEN FallbackTick ELSE 0]
    /\ handle = [s \in Slot |-> IF s = 1 THEN 1 ELSE 0]
    /\ next_handle = 2
    /\ clock = 0
    /\ lapic = [c \in Cpu |-> IF lapic_driven /\ c = BootCpu
                              THEN Oneshot(Max({MinDelay, FallbackTick})) ELSE Off]
    /\ pending = {}
    /\ timer_pc = [c \in Cpu |-> "thread"]
    /\ now = [c \in Cpu |-> 0] /\ at = [c \in Cpu |-> 1]
    /\ called = [c \in Cpu |-> 0] /\ interval = [c \in Cpu |-> 0]
    /\ arming = NotArming
    /\ asked = [h \in Handle |-> [from |-> 0, delay |-> IF h = 1 THEN FallbackTick ELSE 0,
                                  period |-> IF h = 1 THEN FallbackTick ELSE 0]]
    /\ fired = [h \in Handle |-> 0]
    /\ cancelled = {} /\ overtaken = {}

----------------------------------------------------------------------------
(* Calls, from a thread or from a callback                                  *)

\* A caller gets timer_lock, and is not spinning on it with interrupts off.
MayCall(c) == timer_pc[c] \in {"thread", "callback"} /\ arming.at = "none"

\* find_free(): the first slot that is not active, if there is one
FindFree == IF active = Slot THEN {} ELSE {Min(Slot \ active)}

\* A handler that has begun with slot s and has not moved its deadline or its flag
Inside(c, s) == timer_pc[c] \in {"due", "take", "period", "move"} /\ at[c] = s

\* arm(): a full table drops the callback and changes nothing; a free slot gets its
\* deadline first.
Arm(c, d, p) ==
    /\ MayCall(c)
    /\ next_handle <= setting.handles
    /\ \E s \in FindFree :
        /\ deadline' = [deadline EXCEPT ![s] = clock + d]
        /\ arming' = [at |-> "period", cpu |-> c, slot |-> s, from |-> clock, delay |-> d, period |-> p]
        /\ overtaken' = IF \E e \in Cpu : Inside(e, s) THEN overtaken \cup {next_handle} ELSE overtaken
    /\ UNCHANGED <<active, period, handle, next_handle, lapic_driven, lapic, pending, clock, walk,
                   asked, fired, cancelled, setting>>

TimerAfter(c, d) == Arm(c, d, 0)
TimerEvery(c, p) == Arm(c, p, p)

\* timer->period = period_ns
ArmPeriod(c) ==
    /\ Arming(c) /\ arming.at = "period"
    /\ period' = [period EXCEPT ![arming.slot] = arming.period]
    /\ arming' = [arming EXCEPT !.at = "callback"]
    /\ UNCHANGED <<active, deadline, handle, next_handle, lapic_driven, lapic, pending, clock, walk, history>>

\* timer->handle = next_handle++
NewHandle(s) == next_handle

\* timer->callback = callback, and the handle that goes with it
ArmCallback(c) ==
    /\ Arming(c) /\ arming.at = "callback"
    /\ handle' = [handle EXCEPT ![arming.slot] = NewHandle(arming.slot)]
    /\ next_handle' = next_handle + 1
    /\ asked' = [asked EXCEPT ![next_handle] =
                    [from |-> arming.from, delay |-> arming.delay, period |-> arming.period]]
    /\ arming' = [arming EXCEPT !.at = "active"]
    /\ UNCHANGED <<active, deadline, period, lapic_driven, lapic, pending, clock, walk, fired, cancelled,
                   overtaken, setting>>

\* timer->active = true
ArmActive(c) ==
    /\ Arming(c) /\ arming.at = "active"
    /\ active' = active \cup {arming.slot}
    /\ arming' = [arming EXCEPT !.at = "program"]
    /\ UNCHANGED <<deadline, period, handle, next_handle, lapic_driven, lapic, pending, clock, walk, history>>

\* program_next(), and the lock is released
ArmProgram(c) ==
    /\ Arming(c) /\ arming.at = "program"
    /\ ProgramNext(c, active, deadline)
    /\ arming' = NotArming
    /\ UNCHANGED <<table, lapic_driven, pending, clock, walk, history>>

ArmOn(c) == ArmPeriod(c) \/ ArmCallback(c) \/ ArmActive(c) \/ ArmProgram(c)

\* timer_cancel() that forgets the timer is still active.
CancelledKept(h) == active

\* timer.active = false for the timer with that handle
Cancelled(h) == active \ {s \in active : handle[s] = h}

\* timer_cancel(h), of any handle arm() returned
TimerCancel(c, h) ==
    /\ MayCall(c)
    /\ h < next_handle /\ h \notin cancelled
    /\ active' = Cancelled(h)
    /\ cancelled' = cancelled \cup {h}
    /\ IF \E s \in active : handle[s] = h
       THEN ProgramNext(c, active', deadline)
       ELSE UNCHANGED lapic
    /\ UNCHANGED <<deadline, period, handle, next_handle, lapic_driven, pending,
                   clock, arming, walk, asked, fired, overtaken, setting>>

----------------------------------------------------------------------------
(* The interrupt: vector_lapic_timer, or IRQ 0 and pit_tick()               *)

Interrupt(c) ==
    /\ timer_pc[c] = "thread" /\ ~Arming(c)
    /\ c \in pending
    /\ pending' = pending \ {c}
    /\ timer_pc' = [timer_pc EXCEPT ![c] = "scan"]
    /\ now' = [now EXCEPT ![c] = clock]
    /\ at' = [at EXCEPT ![c] = 1]
    /\ UNCHANGED <<table, lapic_driven, lapic, clock, arming, called, interval, history>>

\* What a step of timers_run() within one slot leaves alone
SlotStep == UNCHANGED <<period, handle, next_handle, lapic_driven, lapic, pending, clock, arming, now,
                        asked, cancelled, overtaken, setting>>

\* On to the next slot
NextSlot(c) ==
    /\ timer_pc' = [timer_pc EXCEPT ![c] = "scan"]
    /\ at' = [at EXCEPT ![c] = at[c] + 1]

\* timers_run() looks at the flag of a slot
Scan(c) ==
    /\ timer_pc[c] = "scan" /\ at[c] \in Slot
    /\ IF at[c] \in active
       THEN timer_pc' = [timer_pc EXCEPT ![c] = "due"] /\ UNCHANGED at
       ELSE NextSlot(c)
    /\ UNCHANGED <<active, deadline, called, interval, fired>> /\ SlotStep

\* then at its deadline
TestDeadline(c) ==
    /\ timer_pc[c] = "due"
    /\ IF deadline[at[c]] <= now[c]
       THEN timer_pc' = [timer_pc EXCEPT ![c] = "take"] /\ UNCHANGED at
       ELSE NextSlot(c)
    /\ UNCHANGED <<active, deadline, called, interval, fired>> /\ SlotStep

\* reads the callback
Take(c) ==
    /\ timer_pc[c] = "take"
    /\ called' = [called EXCEPT ![c] = handle[at[c]]]
    /\ timer_pc' = [timer_pc EXCEPT ![c] = "period"]
    /\ UNCHANGED <<active, deadline, at, interval, fired>> /\ SlotStep

\* reads the period
TestPeriod(c) ==
    /\ timer_pc[c] = "period"
    /\ interval' = [interval EXCEPT ![c] = period[at[c]]]
    /\ timer_pc' = [timer_pc EXCEPT ![c] = "move"]
    /\ UNCHANGED <<active, deadline, at, called, fired>> /\ SlotStep

\* timer.active = false unless the timer is periodic
OneShotDone(c, s) == IF interval[c] # 0 THEN active ELSE active \ {s}

\* timer.deadline = now + timer.period
NextDeadline(c, s) == IF interval[c] # 0 THEN now[c] + interval[c] ELSE deadline[s]

\* moves the deadline or clears the flag, and calls back
Move(c) ==
    LET s == at[c] IN
    /\ timer_pc[c] = "move"
    /\ active' = OneShotDone(c, s)
    /\ deadline' = [deadline EXCEPT ![s] = NextDeadline(c, s)]
    /\ fired' = [fired EXCEPT ![called[c]] = @ + 1]
    /\ called' = [called EXCEPT ![c] = 0] /\ interval' = [interval EXCEPT ![c] = 0]
    /\ timer_pc' = [timer_pc EXCEPT ![c] = "callback"]
    /\ UNCHANGED at /\ SlotStep

\* The callback returns.
Return(c) ==
    /\ timer_pc[c] = "callback" /\ ~Arming(c)
    /\ NextSlot(c)
    /\ UNCHANGED <<active, deadline, called, interval, fired>> /\ SlotStep

\* The end of timers_run()
Finish(c) ==
    /\ timer_pc[c] = "scan" /\ at[c] \notin Slot
    /\ ProgramNext(c, active, deadline)
    /\ timer_pc' = [timer_pc EXCEPT ![c] = "thread"]
    /\ UNCHANGED <<table, lapic_driven, pending, clock, arming, now, at, called, interval, history>>

\* Time passes; an APIC timer that expires leaves its interrupt pending, and
\* setting it again does not take the interrupt back.  The PIT beats at 100 Hz,
\* which is fallback_tick_ns.
ClockTick ==
    LET expired == IF lapic_driven
                   THEN {c \in Cpu : lapic[c] = clock + 1}
                   ELSE {c \in {BootCpu} : (clock + 1) % FallbackTick = 0}
    IN
    /\ clock < setting.time
    /\ setting.fast => pending = {} /\ arming.at = "none" /\ \A c \in Cpu : timer_pc[c] = "thread"
    /\ clock' = clock + 1
    /\ pending' = pending \cup expired
    /\ lapic' = [c \in Cpu |-> IF c \in expired THEN Off ELSE lapic[c]]
    /\ UNCHANGED <<table, lapic_driven, arming, walk, history>>

InSlot(c) == Scan(c) \/ TestDeadline(c) \/ Take(c) \/ TestPeriod(c) \/ Return(c)
Handler(c) == Interrupt(c) \/ InSlot(c) \/ Move(c) \/ Finish(c)

TimersNext ==
    \/ ClockTick
    \/ \E c \in setting.cpus :
        \/ Handler(c) \/ ArmOn(c)
        \/ \E d \in Delays : TimerAfter(c, d) \/ TimerEvery(c, d)
        \/ \E h \in Handle : TimerCancel(c, h)

TimersSpec == TimersInit /\ [][TimersNext]_timer_vars

\* The clock moves, a pending interrupt is taken, and a handler and a caller of
\* arm() run on; no caller has to call anything.
RunsOn(c) == Handler(c) \/ ArmOn(c)
TimersFairSpec == TimersSpec /\ WF_timer_vars(ClockTick) /\ \A c \in Cpu : WF_timer_vars(RunsOn(c))

----------------------------------------------------------------------------
TimersTypeOK ==
    /\ active \subseteq Slot
    /\ deadline \in [Slot -> Nat] /\ period \in [Slot -> Nat]
    /\ handle \in [Slot -> Handle \cup {0}]
    /\ \A s \in active : handle[s] # 0
    /\ next_handle \in 1..MaxHandle + 1
    /\ lapic_driven \in BOOLEAN /\ lapic \in [Cpu -> Nat \cup {Off}]
    /\ pending \subseteq Cpu /\ clock \in Nat
    /\ arming \in [at : {"none", "period", "callback", "active", "program"}, cpu : Cpu, slot : Slot,
                   from : Nat, delay : Nat, period : Nat]
    /\ timer_pc \in [Cpu -> {"thread", "scan", "due", "take", "period", "move", "callback"}]
    /\ now \in [Cpu -> Nat] /\ at \in [Cpu -> 1..MaxTimers + 1]
    /\ called \in [Cpu -> Handle \cup {0}] /\ interval \in [Cpu -> Nat]
    /\ fired \in [Handle -> Nat] /\ cancelled \subseteq Handle

\* However callers and callbacks arm and cancel while the handler walks the
\* table, every deadline has an interrupt on its way, no later than the
\* deadline or the shortest delay the hardware is given, unless a handler or a
\* caller of arm() is still to reach program_next().  With any number of CPUs.
DeadlineProgrammed ==
    lapic_driven => \A s \in active :
        \E c \in Cpu :
            \/ timer_pc[c] # "thread" \/ Arming(c) \/ c \in pending
            \/ lapic[c] # Off /\ lapic[c] <= Max({deadline[s], clock + MinDelay})

Alone == setting.cpus = {BootCpu}

\* On a single CPU a callback never runs before the time its timer was armed for.
NeverEarly ==
    Alone => \A h \in Handle : fired'[h] > fired[h] =>
          clock >= asked[h].from + asked[h].delay

\* On a single CPU what timer_after() arms runs once at most, however long its
\* handlers take and whatever they arm and cancel.
OneShotOnce == Alone => \A h \in Handle : asked[h].period = 0 => fired[h] <= 1

\* ROADMAP.md promises "one shot and periodic callbacks" and a timer queue that
\* takes a lock: a one shot timer runs once on any number of CPUs.
OneShotOnceSmp == \A h \in Handle : asked[h].period = 0 => fired[h] <= 1

\* On a single CPU a timer that was cancelled does not run any more once
\* timer_cancel() returned, even when a callback cancels a timer the same run
\* would call.
CancelIsFinal == Alone => \A h \in cancelled : fired'[h] = fired[h]

\* On a single CPU a periodic timer, the one behind ticks() first of all, never
\* counts more periods than have passed since it was armed.
TicksNeverAhead ==
    Alone => \A h \in Handle : fired[h] * asked[h].period <= clock - asked[h].from

\* What timers_run() promises while callbacks arm and cancel under it: nothing is
\* called early, after its cancel, twice, or more often than its period allows, and
\* the next deadline is always programmed.  All but the last is of a machine where one
\* CPU takes the timer interrupt (Alone); with two a timer may run twice.
TimersAreExact ==
    /\ [](TimersTypeOK /\ DeadlineProgrammed /\ OneShotOnce /\ TicksNeverAhead)
    /\ [][NeverEarly /\ CancelIsFinal]_timer_vars

\* No timer is forgotten: one whose deadline the clock reaches runs, unless it is
\* cancelled, with any number of CPUs in timers_run() whose handlers end before the
\* clock moves on.  One armed in a slot that the handler of another CPU is still
\* inside is left out: that handler may clear its flag, see EveryTimerFiresSmp.
EveryTimerFires ==
    \A h \in Handle :
        (/\ setting.fast /\ h < next_handle /\ asked[h].from + asked[h].delay <= clock
         /\ asked[h].from + asked[h].delay + FallbackTick <= setting.time)
            ~> fired[h] > 0 \/ h \in cancelled \cup overtaken

\* What a timer queue promises with several CPUs: what was armed runs, or is cancelled.
EveryTimerFiresSmp ==
    \A h \in Handle :
        (/\ setting.fast /\ h < next_handle /\ asked[h].from + asked[h].delay <= clock
         /\ asked[h].from + asked[h].delay + FallbackTick <= setting.time)
            ~> fired[h] > 0 \/ h \in cancelled

\* ROADMAP.md: "a hundred registered timers fire in order".  A callback runs
\* before the callbacks of later deadlines.
FireInOrder ==
    [][\A h \in Handle : fired'[h] > fired[h] =>
          \A s, u \in active : handle[s] = h => deadline[s] <= deadline[u]]_timer_vars
====
