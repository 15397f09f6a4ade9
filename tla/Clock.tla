------------------------------- MODULE Clock -------------------------------
(***************************************************************************)
(* kernel/time/clock.cpp: monotonic_ns() computed from the HPET counter or *)
(* the TSC in words of Width bits, and udelay() on top.  Time is measured  *)
(* in ticks of the hardware counter since clock_init().                    *)
(***************************************************************************)
EXTENDS Integers

CONSTANTS Width,     \* bits of a u64
          PeriodFs,  \* hpet_period_fs
          FsPerNs,   \* 1000000
          TscHz,     \* tsc_hz
          NsPerSec,  \* 1000000000
          Origin,    \* what the counter read at clock_init()
          Waits,    \* nanoseconds udelay() is asked for
          MaxTicks   \* bound: ticks in a run

ASSUME ClockAssumption ==
    /\ Width \in Nat /\ PeriodFs \in Nat \ {0} /\ FsPerNs \in Nat \ {0}
    /\ TscHz \in Nat \ {0} /\ NsPerSec \in Nat \ {0} /\ Origin \in Nat
    /\ Waits \subseteq Nat /\ MaxTicks \in Nat
    /\ TscHz * NsPerSec < 2^Width   \* any TSC below 18 GHz

VARIABLES source,   \* "hpet" or "tsc", the one clock_init() found
          ticks,    \* ticks of its counter since then
          began,    \* when the udelay() in progress began, -1 when there is none
          delay_deadline, \* its local
          delay_asked     \* and its argument

clock_vars == <<source, ticks, began, delay_deadline, delay_asked>>

Word(x) == x % 2^Width

\* A TSC read without subtracting the origin.
TscElapsedRaw == Word(Origin + ticks)

\* read_tsc() - tsc_origin
TscElapsed == Word(Word(Origin + ticks) - Origin)

\* (elapsed / tsc_hz) * 1000000000 + ((elapsed % tsc_hz) * 1000000000) / tsc_hz
TscNs(e) ==
    Word(Word((e \div TscHz) * NsPerSec) + Word((e % TscHz) * NsPerSec) \div TscHz)

\* (hpet_read(hpet_counter) * hpet_period_fs) / 1000000, from a counter that
\* the firmware left at Origin
HpetNs == Word((Origin + ticks) * PeriodFs) \div FsPerNs

monotonic_ns == IF source = "hpet" THEN HpetNs ELSE TscNs(TscElapsed)

\* clock_init()
ClockInit ==
    /\ source \in {"hpet", "tsc"}
    /\ ticks = 0 /\ began = -1 /\ delay_deadline = 0 /\ delay_asked = 0

Tick ==
    /\ ticks < MaxTicks
    /\ ticks' = ticks + 1
    /\ UNCHANGED <<source, began, delay_deadline, delay_asked>>

\* udelay() computes its deadline
Delay(d) ==
    /\ began = -1
    /\ began' = ticks
    /\ delay_deadline' = Word(monotonic_ns + d)
    /\ delay_asked' = d
    /\ UNCHANGED <<source, ticks>>

\* A loop that allows for two nanoseconds of overhead.
DelayOverEarly == monotonic_ns + 2 > delay_deadline

\* while (monotonic_ns() < deadline) is over
DelayOver == monotonic_ns >= delay_deadline

DelayEnds ==
    /\ began # -1
    /\ DelayOver
    /\ began' = -1
    /\ UNCHANGED <<source, ticks, delay_deadline, delay_asked>>

ClockNext == Tick \/ (\E d \in Waits : Delay(d)) \/ DelayEnds

ClockSpec == ClockInit /\ [][ClockNext]_clock_vars

ClockFairSpec == ClockSpec /\ WF_clock_vars(Tick) /\ WF_clock_vars(DelayEnds)

----------------------------------------------------------------------------
\* The TSC path loses nothing: split into seconds and a remainder, the sum is
\* the exact conversion rounded down, where one product would overflow first.
TscIsExact ==
    source = "tsc" => monotonic_ns = (ticks * NsPerSec) \div TscHz

\* time.hpp promises "Nanoseconds since the clock came up": the clock never
\* goes backwards.
Monotonic == [][monotonic_ns' >= monotonic_ns]_clock_vars

\* udelay() never returns before the time it was asked to wait has passed, up
\* to the nanosecond its two readings are rounded to.
DelayLasts ==
    DelayEnds => IF source = "hpet"
                 THEN (ticks - began) * PeriodFs > (delay_asked - 1) * FsPerNs
                 ELSE (ticks - began) * NsPerSec > (delay_asked - 1) * TscHz

\* udelay() returns, when the counter runs long enough.
DelayReturns == began \in 0..MaxTicks \div 2 ~> began = -1

\* monotonic_ns() never goes back and, on the TSC, equals the exact product although
\* it is computed in two halves; udelay() lasts as long as asked and comes back.
TimeIsKept == /\ Monotonic /\ [][TscIsExact' /\ DelayLasts]_clock_vars
              /\ DelayReturns
====
