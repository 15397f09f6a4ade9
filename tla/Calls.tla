------------------------------- MODULE Calls -------------------------------
(***************************************************************************)
(* Work done later: the ring of deferred calls (WorkQueue), the timers     *)
(* (Timers) and the clock their deadlines are read from (Clock).  Timers   *)
(* counts time in steps of its own, so the three share no variable; each   *)
(* does beside the others what it does alone, and a behaviour moves one of *)
(* them, busy.                                                             *)
(***************************************************************************)
EXTENDS WorkQueue, Timers, Clock

VARIABLE busy

CallsInit ==
    /\ busy \in {"work", "timers", "clock"}
    /\ Init
    /\ ClockInit /\ (busy # "clock" => source = "hpet")
    /\ TimersInit /\ (busy # "timers" => setting.fast /\ lapic_driven)

CallsNext ==
    /\ UNCHANGED busy
    /\ \/ busy = "work" /\ Next /\ UNCHANGED <<timer_vars, clock_vars>>
       \/ busy = "timers" /\ TimersNext /\ UNCHANGED <<vars, clock_vars>>
       \/ busy = "clock" /\ ClockNext /\ UNCHANGED <<vars, timer_vars>>

\* The fairness of each part: workers, handlers and arm() run on, counters count.
CallsSpec ==
    /\ CallsInit /\ [][CallsNext]_<<vars, timer_vars, clock_vars, busy>>
    /\ WF_vars(busy = "work" /\ Run(kworker))
    /\ WF_timer_vars(busy = "timers" /\ ClockTick)
    /\ \A c \in Cpu : WF_timer_vars(busy = "timers" /\ RunsOn(c))
    /\ WF_clock_vars(busy = "clock" /\ Tick) /\ WF_clock_vars(busy = "clock" /\ DelayEnds)

----------------------------------------------------------------------------
CONSTANTS c1, c2
\* One CPU whose handlers are slow, and two whose handlers are not
MCSettings == { [cpus |-> {c1}, fast |-> FALSE, handles |-> 3, time |-> 3],
                [cpus |-> {c1, c2}, fast |-> TRUE, handles |-> 2, time |-> 5] }
============================================================================
