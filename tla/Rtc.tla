--------------------------------- MODULE Rtc ---------------------------------
(***************************************************************************)
(* rtc_read() of modules/rtc/rtc.cpp against a chip that counts on: the    *)
(* registers are read one after another, twice, with interrupts on, so any *)
(* time may pass between two of them.  The date is left out: its registers *)
(* behave as the minutes do.  rtc_unix_time(), which makes days of a date, *)
(* has variables of its own at the end.                                    *)
(***************************************************************************)
EXTENDS Integers, Sequences

CONSTANTS Seconds, Minutes,   \* how many there are, 60 in the chip
          MaxTicks,           \* the seconds a call may last: less than a minute
          Attempts,           \* 8 in the code
          Chips               \* [slow, prompt, twelve]: whether the chip changes its
                              \* registers one at a time, whether both readings fit in
                              \* the notice the bit gives, whether it counts hours to 12

ASSUME RtcBounds ==
    /\ MaxTicks \in Nat /\ MaxTicks < Seconds
    /\ Chips \subseteq [slow : BOOLEAN, prompt : BOOLEAN, twelve : BOOLEAN]

VARIABLES chip,       \* the one in the machine
          now,        \* the time, as the seconds since some midnight
          registers,  \* what the chip shows
          update,     \* the update in progress bit
          bcd,        \* whether it shows decimal digits
          pc, attempt, first, second,   \* the call
          shown,      \* the times the chip has stood for since the call began
          ticks

rtc_vars == <<chip, now, registers, update, bcd, pc, attempt, first, second, shown, ticks>>

Day == 24 * Minutes * Seconds

Digits(v) == IF bcd THEN (v \div 10) * 16 + (v % 10) ELSE v

\* The registers for a time.  The hours count from 12, 1, 2 to 11, twice.
Hours(t) == t \div (Minutes * Seconds)
Shown(t) ==
    [second |-> Digits(t % Seconds), minute |-> Digits((t \div Seconds) % Minutes),
     hour |-> IF ~chip.twelve THEN Digits(Hours(t))
              ELSE Digits(IF Hours(t) % 12 = 0 THEN 12 ELSE Hours(t) % 12)
                   + (IF Hours(t) >= 12 THEN 128 ELSE 0)]

zero == [second |-> 0, minute |-> 0, hour |-> 0]

RtcInit ==
    /\ chip \in Chips
    /\ bcd \in BOOLEAN /\ now \in {t \in 0..(Day - 1) : t % Seconds >= Seconds - 2}
    /\ registers = Shown(now) /\ update = "no"
    /\ pc = "wait" /\ attempt = 1 /\ first = zero /\ second = zero
    /\ shown = {now} /\ ticks = 0

----------------------------------------------------------------------------
call == <<pc, attempt, first, second>>

\* The bit goes up shortly before the registers change
Announce ==
    /\ update = "no" /\ ticks < MaxTicks /\ pc \notin {"true", "false"} /\ update' = "soon"
    /\ UNCHANGED <<now, registers, bcd, call, shown, ticks>>

\* The second passes: the registers change at once, or begin to
Tick ==
    /\ update = "soon" /\ (chip.prompt => pc \in {"wait", "compare", "true", "false"})
    /\ now' = (now + 1) % Day /\ ticks' = ticks + 1 /\ shown' = shown \cup {now'}
    /\ IF chip.slow THEN update' = "minute" /\ registers' = [registers EXCEPT !.second = Shown(now').second]
       ELSE update' = "no" /\ registers' = Shown(now')
    /\ UNCHANGED <<bcd, call>>

Carry ==
    /\ update \in {"minute", "hour"}
    /\ registers' = [registers EXCEPT ![update] = Shown(now)[update]]
    /\ update' = IF update = "minute" THEN "hour" ELSE "no"
    /\ UNCHANGED <<now, bcd, call, shown, ticks>>

----------------------------------------------------------------------------

update_in_progress == update # "no"

\* while (update_in_progress())
Wait ==
    /\ pc = "wait" /\ ~update_in_progress /\ pc' = "hour"
    /\ UNCHANGED <<now, registers, update, bcd, attempt, first, second, shown, ticks>>

\* read_once(): the hour, the second and the minute, and again
After == [hour |-> "second", second |-> "minute", minute |-> "hour again"]
Again == [hour |-> "second again", second |-> "minute again", minute |-> "compare"]
Steps == {<<r, r, 1>> : r \in DOMAIN After}
    \cup {<<"hour again", "hour", 2>>, <<"second again", "second", 2>>, <<"minute again", "minute", 2>>}

ReadRegister(step) ==
    /\ pc = step[1]
    /\ IF step[3] = 1
       THEN first' = [first EXCEPT ![step[2]] = registers[step[2]]] /\ pc' = After[step[2]] /\ UNCHANGED second
       ELSE second' = [second EXCEPT ![step[2]] = registers[step[2]]] /\ pc' = Again[step[2]] /\ UNCHANGED first
    /\ UNCHANGED <<now, registers, update, bcd, attempt, shown, ticks>>

\* The first reading is trusted.
SameAlways(a, b) == TRUE

same(a, b) == a = b

Compare ==
    /\ pc = "compare"
    /\ IF same(first, second) THEN pc' = "true" /\ UNCHANGED attempt
       ELSE IF attempt < Attempts THEN pc' = "wait" /\ attempt' = attempt + 1
       ELSE pc' = "false" /\ UNCHANGED attempt
    /\ UNCHANGED <<now, registers, update, bcd, first, second, shown, ticks>>

Read == Wait \/ (\E step \in Steps : ReadRegister(step)) \/ Compare
RtcNext == (Announce \/ Tick \/ Carry \/ Read) /\ UNCHANGED chip

RtcSpec == RtcInit /\ [][RtcNext]_rtc_vars

----------------------------------------------------------------------------
\* decode()
decode(v) == IF bcd THEN (v % 16) + (v \div 16) * 10 ELSE v

\* The hour of read_once(), from a clock of 12 hours or of 24
DecodedHour(raw) ==
    LET hour == decode(raw % 128)
    IN IF chip.twelve /\ raw >= 128 THEN (hour % 12) + 12 ELSE hour

Answer == (DecodedHour(first.hour) * Minutes + decode(first.minute)) * Seconds + decode(first.second)

\* What rtc_read() returns is a time the clock stood at during the call, never a
\* mix of the registers before and after a second: "read twice and only trust a match".
AnswerWasShown == pc = "true" => Answer \in shown

----------------------------------------------------------------------------
(* The day count of rtc_unix_time(), against a calendar walked a day at a  *)
(* time through every date the two digits of the chip's year can show      *)
CONSTANTS FirstYear, LastYear,   \* 2000 and 2099
          FirstDay               \* the days from 1970 to the first of them

VARIABLES year, month, day,      \* the date
          elapsed                \* how many days it lies after the first of 1970

calendar_vars == <<year, month, day, elapsed>>

\* The Gregorian calendar
Divides(d, n) == n % d = 0
LeapYear(y) == Divides(4, y) /\ (Divides(100, y) => Divides(400, y))
MonthLength(y, m) ==
    IF m = 2 /\ LeapYear(y) THEN 29 ELSE <<31, 28, 31, 30, 31, 30, 31, 31, 30, 31, 30, 31>>[m]

CalendarInit == year = FirstYear /\ month = 1 /\ day = 1 /\ elapsed = FirstDay

Tomorrow ==
    /\ <<year, month, day>> # <<LastYear, 12, 31>> /\ elapsed' = elapsed + 1
    /\ IF day < MonthLength(year, month) THEN day' = day + 1 /\ UNCHANGED <<month, year>>
       ELSE day' = 1 /\ month' = (month % 12) + 1 /\ year' = IF month = 12 THEN year + 1 ELSE year

CalendarNext == Tomorrow
CalendarSpec == CalendarInit /\ [][CalendarNext]_calendar_vars

----------------------------------------------------------------------------
month_days == <<0, 31, 59, 90, 120, 151, 181, 212, 243, 273, 304, 334>>

leap(y) == (y % 4 = 0 /\ y % 100 # 0) \/ y % 400 = 0

\* The year is not counted in, only the years before the last leap year.
LeapDaysBeforeLate(years) == years \div 4

\* The leap days of the years from 1970 before this one
LeapDaysBefore(years) == (years + 1) \div 4

days(y, m, d) ==
    LET years == y - 1970
    IN years * 365 + LeapDaysBefore(years) + month_days[m]
       + (IF leap(y) /\ m > 2 THEN 1 ELSE 0) + d - 1

\* Every date the clock can show becomes the number of days that really passed
\* since the epoch, so that consecutive days are never merged, skipped or swapped.
DaysExact == days(year, month, day) = elapsed

\* rtc_read() returns no mix of two seconds, and rtc_unix_time() counts its days right, with
\* a chip that counts hours to 24 and either changes its registers at once, however long
\* the readings take, or changes them one by one and is read without a pause (Chips).
TimeOfDayExact == AnswerWasShown /\ DaysExact
=============================================================================
