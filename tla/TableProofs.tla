---------------------------- MODULE TableProofs ----------------------------
(***************************************************************************)
(* Two tables of calls to make later, for every size.  The ring of         *)
(* kernel/lib/work.cpp is a FIFO queue and implements DeferredWork, for    *)
(* every queue_size and every set of workers.  The timers of               *)
(* kernel/time/timers.cpp always have their next deadline programmed, for  *)
(* any slots, delays and CPUs, and on a single CPU are called neither      *)
(* early, nor twice, nor after their cancel.                               *)
(***************************************************************************)
EXTENDS WorkQueue, Timers, WellFoundedInduction, TLAPS

IndInv == TypeOK /\ RingIsFifo

\* Stepping an index around the ring.
LEMMA AfterIndex ==
  ASSUME NEW i \in Index
  PROVE  After(i) = IF i = queue_size - 1 THEN 0 ELSE i + 1
<1>1. queue_size \in Nat \ {0, 1}
  BY Zenon, WorkAssumption
<1>2. CASE i = queue_size - 1
  <2>1. queue_size % queue_size = 0
    BY <1>1
  <2> QED
    BY <1>1, <1>2, <2>1 DEF After, Index
<1>3. CASE i # queue_size - 1
  <2>1. i + 1 \in 0..queue_size - 1
    BY <1>1, <1>3 DEF Index
  <2>2. (i + 1) % queue_size = i + 1
    BY <1>1, <2>1
  <2> QED
    BY Zenon, <1>3, <2>2 DEF After
<1> QED
  BY Zenon, <1>2, <1>3

\* An empty ring holds no accepted call.
LEMMA InitInd == Init => IndInv
<1> SUFFICES ASSUME Init PROVE IndInv
  BY Zenon
<1>1. queue_size \in Nat \ {0, 1}
  BY Zenon, WorkAssumption
<1>2. TypeOK
  BY <1>1 DEF Init, TypeOK, Index
<1>3. RingIsFifo
  BY <1>1 DEF Init, RingIsFifo, Pending, Index
<1> QED
  BY Zenon, <1>2, <1>3 DEF IndInv

\* schedule_work() appends behind the youngest call.
LEMMA ScheduleInd == IndInv /\ ScheduleWork => IndInv'
<1> SUFFICES ASSUME IndInv, ScheduleWork PROVE IndInv'
  BY Zenon
<1>1. queue_size \in Nat \ {0, 1}
  BY Zenon, WorkAssumption
<1>2. After(tail) = IF tail = queue_size - 1 THEN 0 ELSE tail + 1
  BY Zenon, AfterIndex DEF IndInv, TypeOK
<1>3. TypeOK'
  <2>1. tail' \in Index
    BY <1>1, <1>2 DEF IndInv, TypeOK, ScheduleWork, Index
  <2>2. queue' \in [Index -> Nat]
    BY DEF IndInv, TypeOK, ScheduleWork
  <2> QED
    BY <2>1, <2>2 DEF IndInv, TypeOK, ScheduleWork
<1>4. RingIsFifo'
  <2>1. CASE Full
    BY Zenon, <2>1 DEF IndInv, ScheduleWork, RingIsFifo, Pending
  <2>2. CASE ~Full
    <3>1. head' = head /\ started' = started /\ accepted' = accepted + 1
          /\ queue' = [queue EXCEPT ![tail] = accepted + 1]
          /\ tail' = IF tail = queue_size - 1 THEN 0 ELSE tail + 1
      BY Zenon, <1>2, <2>2 DEF ScheduleWork
    <3>2. tail' # head
      BY Zenon, <2>2 DEF Full, ScheduleWork
    <3>3. Pending' = Pending + 1
      BY <1>1, <3>1, <3>2 DEF Pending, IndInv, TypeOK, Index
    <3>4. \A i \in Index : i # tail => queue'[i] = queue[i]
      BY Zenon, <3>1 DEF IndInv, TypeOK
    <3>5. queue'[tail] = accepted + 1
      BY Zenon, <3>1 DEF IndInv, TypeOK
    <3>6. accepted' = started' + Pending'
      BY <3>1, <3>3, <1>1 DEF IndInv, TypeOK, RingIsFifo, Pending, Index
    <3>7. ASSUME NEW i \in Index
          PROVE  LET age == IF i >= head THEN i - head ELSE queue_size - head + i
                 IN  age < Pending' => queue'[i] = started + 1 + age
      <4> DEFINE age == IF i >= head THEN i - head ELSE queue_size - head + i
      <4>1. CASE i = tail
        <5>1. age = Pending
          BY Zenon, <1>1, <4>1 DEF Pending, IndInv, TypeOK, Index
        <5>2. accepted = started + Pending /\ Pending \in Nat /\ started \in Nat
          BY <1>1 DEF IndInv, TypeOK, RingIsFifo, Pending, Index
        <5> QED
          BY <3>5, <4>1, <5>1, <5>2
      <4>2. CASE i # tail
        <5>1. age # Pending
          BY <1>1, <4>2 DEF Pending, IndInv, TypeOK, Index
        <5>2. age < Pending => queue[i] = started + 1 + age
          BY Zenon DEF IndInv, RingIsFifo
        <5>3. age \in Nat /\ Pending \in Nat
          BY <1>1 DEF Pending, IndInv, TypeOK, Index
        <5> QED
          BY <3>3, <3>4, <4>2, <5>1, <5>2, <5>3
      <4> QED
        BY Zenon, <4>1, <4>2
    <3> QED
      BY Zenon, <3>1, <3>6, <3>7 DEF RingIsFifo
  <2> QED
    BY Zenon, <2>1, <2>2
<1> QED
  BY Zenon, <1>3, <1>4 DEF IndInv

\* A worker takes the oldest call, and what it leaves is still in order.
LEMMA TakeInd == IndInv /\ (\E w \in Worker : TakeItem(w)) => IndInv'
<1> SUFFICES ASSUME IndInv, NEW w \in Worker, TakeItem(w) PROVE IndInv'
  BY Zenon
<1>1. queue_size \in Nat \ {0, 1}
  BY Zenon, WorkAssumption
<1>2. After(head) = IF head = queue_size - 1 THEN 0 ELSE head + 1
  BY Zenon, AfterIndex DEF IndInv, TypeOK
<1>3. TypeOK'
  <2>1. head' \in Index
    BY <1>1, <1>2 DEF IndInv, TypeOK, TakeItem, Index
  <2>2. item' \in [Worker -> Nat]
    BY ZenonT(30) DEF IndInv, TypeOK, TakeItem
  <2>3. pc' \in [Worker -> {"out", "loop", "call"}]
    BY Zenon DEF IndInv, TypeOK, TakeItem
  <2> QED
    BY <2>1, <2>2, <2>3 DEF IndInv, TypeOK, TakeItem
<1>4. RingIsFifo'
  <2>1. CASE Empty
    BY Zenon, <2>1 DEF IndInv, TakeItem, RingIsFifo, Pending
  <2>2. CASE ~Empty
    <3>1. tail' = tail /\ started' = started + 1 /\ accepted' = accepted
          /\ queue' = queue /\ head # tail
          /\ head' = IF head = queue_size - 1 THEN 0 ELSE head + 1
      BY Zenon, <1>2, <2>2 DEF TakeItem, Empty
    <3>2. Pending' = Pending - 1
      BY <1>1, <3>1 DEF Pending, IndInv, TypeOK, Index
    <3>3. accepted' = started' + Pending'
      BY <3>1, <3>2, <1>1 DEF IndInv, TypeOK, RingIsFifo, Pending, Index
    <3>4. ASSUME NEW i \in Index
          PROVE  LET age == IF i >= head' THEN i - head' ELSE queue_size - head' + i
                 IN  age < Pending' => queue[i] = started' + 1 + age
      <4> DEFINE age == IF i >= head THEN i - head ELSE queue_size - head + i
                 younger == IF i >= head' THEN i - head' ELSE queue_size - head' + i
      <4>1. age < Pending => queue[i] = started + 1 + age
        BY Zenon DEF IndInv, RingIsFifo
      <4>2. younger < Pending' => age = younger + 1
        BY <1>1, <3>1, <3>2 DEF Pending, IndInv, TypeOK, Index
      <4>3. age \in Nat /\ younger \in Nat /\ Pending \in Nat /\ started \in Nat
        BY <1>1, <3>1 DEF Pending, IndInv, TypeOK, Index
      <4> HIDE DEF age, younger
      <4>4. younger < Pending' => queue[i] = started' + 1 + younger
        BY <3>1, <3>2, <4>1, <4>2, <4>3
      <4> QED
        BY Zenon, <4>4 DEF younger
    <3> QED
      BY Zenon, <3>1, <3>3, <3>4 DEF RingIsFifo
  <2> QED
    BY Zenon, <2>1, <2>2
<1> QED
  BY Zenon, <1>3, <1>4 DEF IndInv

\* Every step keeps the ring invariant.
LEMMA NextInd == IndInv /\ [Next]_vars => IndInv'
<1> SUFFICES ASSUME IndInv, [Next]_vars PROVE IndInv'
  BY Zenon
<1>1. CASE ScheduleWork
  BY Zenon, <1>1, ScheduleInd
<1>2. ASSUME NEW w \in Worker, TakeItem(w) PROVE IndInv'
  BY Zenon, <1>2, TakeInd
<1>3. ASSUME NEW w \in Worker, Enter(w) \/ CallReturns(w) PROVE IndInv'
  <2>1. TypeOK'
    BY Zenon, <1>3 DEF IndInv, TypeOK, Enter, CallReturns
  <2>2. RingIsFifo'
    BY Zenon, <1>3 DEF IndInv, RingIsFifo, Pending, Enter, CallReturns
  <2> QED
    BY Zenon, <2>1, <2>2 DEF IndInv
<1>4. CASE UNCHANGED vars
  BY Zenon, <1>4 DEF IndInv, TypeOK, RingIsFifo, Pending, vars
<1> QED
  BY Zenon, <1>1, <1>2, <1>3, <1>4 DEF Next, Run

\* So it always holds.
LEMMA Invariance == Spec => []IndInv
BY InitInd, NextInd, PTL DEF Spec

\* The variables of the work queue stay in their types.
THEOREM TypeCorrect == Spec => []TypeOK
<1>1. IndInv => TypeOK
  BY Zenon DEF IndInv
<1> QED
  BY Invariance, <1>1, PTL

\* For every size of the ring and any number of workers, the ring holds the
\* accepted calls that were not taken yet, in the order they were accepted.
THEOREM RingStaysFifo == Spec => []RingIsFifo
<1>1. IndInv => RingIsFifo
  BY Zenon DEF IndInv
<1> QED
  BY Invariance, <1>1, PTL

----------------------------------------------------------------------------
\* The call each worker is in, as DeferredWork has it.
Busy == [w \in Worker |-> IF pc[w] = "call" THEN item[w] ELSE 0]

\* The empty ring maps to the empty queue.
LEMMA PromiseInit == Init => Promise!Init
<1> SUFFICES ASSUME Init PROVE Promise!Init
  BY Zenon
<1>1. Busy = [w \in Worker |-> 0]
  BY Zenon DEF Init, Busy
<1> QED
  BY Zenon, <1>1 DEF Init, Promise!Init, Busy

\* Each step is a step of DeferredWork or changes nothing it can see.  A call
\* number is never 0, so a worker in a call is busy.
CallsNumbered == \A w \in Worker : pc[w] = "call" => item[w] \in Nat \ {0}

\* Every step keeps calls numbered.
LEMMA CallsNumberedInd ==
  IndInv /\ CallsNumbered /\ [Next]_vars => CallsNumbered'
<1> SUFFICES ASSUME IndInv, CallsNumbered, [Next]_vars, NEW w \in Worker,
                    pc'[w] = "call"
             PROVE  item'[w] \in Nat \ {0}
  BY Zenon DEF CallsNumbered
<1>1. CASE ScheduleWork \/ UNCHANGED vars
  BY Zenon, <1>1 DEF CallsNumbered, ScheduleWork, vars
<1>2. ASSUME NEW v \in Worker, Enter(v) PROVE item'[w] \in Nat \ {0}
  BY Zenon, <1>2 DEF CallsNumbered, Enter, IndInv, TypeOK
<1>3. ASSUME NEW v \in Worker, CallReturns(v) PROVE item'[w] \in Nat \ {0}
  BY Zenon, <1>3 DEF CallsNumbered, CallReturns, IndInv, TypeOK
<1>4. ASSUME NEW v \in Worker, TakeItem(v) PROVE item'[w] \in Nat \ {0}
  <2>1. CASE v = w
    <3>1. ~Empty
      BY Zenon, <1>4, <2>1 DEF TakeItem, IndInv, TypeOK
    <3>2. queue[head] = started + 1
      BY <3>1, WorkAssumption DEF Empty, IndInv, TypeOK, RingIsFifo, Pending, Index
    <3> QED
      BY <1>4, <2>1, <3>1, <3>2 DEF TakeItem, IndInv, TypeOK
  <2>2. CASE v # w
    BY Zenon, <1>4, <2>2 DEF TakeItem, CallsNumbered, IndInv, TypeOK
  <2> QED
    BY Zenon, <2>1, <2>2
<1> QED
  BY Zenon, <1>1, <1>2, <1>3, <1>4 DEF Next, Run

\* Every step of the ring is a step of the queue or leaves it unchanged.
LEMMA PromiseStep ==
  IndInv /\ CallsNumbered /\ [Next]_vars => [Promise!Next]_Promise!vars
<1> SUFFICES ASSUME IndInv, CallsNumbered, [Next]_vars
             PROVE  Promise!Next \/ UNCHANGED Promise!vars
  BY Zenon
<1>0. queue_size \in Nat \ {0, 1} /\ accepted \in Nat /\ started \in Nat
      /\ accepted - started = Pending
  BY WorkAssumption DEF IndInv, TypeOK, RingIsFifo, Pending, Index
<1>1. CASE UNCHANGED vars
  BY Zenon, <1>1 DEF vars, Promise!vars
<1>2. CASE ScheduleWork
  <2>1. After(tail) = IF tail = queue_size - 1 THEN 0 ELSE tail + 1
    BY Zenon, AfterIndex DEF IndInv, TypeOK
  <2>2. Full <=> Pending = queue_size - 1
    BY <1>0, <2>1 DEF Full, Pending, IndInv, TypeOK, Index
  <2>3. ~Full => Pending < queue_size - 1
    BY <1>0, <2>2 DEF Pending, IndInv, TypeOK, Index
  <2>4. Busy' = Busy
    BY Zenon, <1>2 DEF ScheduleWork, Busy
  <2>5. CASE Full
    BY Zenon, <1>0, <1>2, <2>2, <2>4, <2>5
    DEF ScheduleWork, Promise!Next, Promise!Refuse, Busy
  <2>6. CASE ~Full
    BY Zenon, <1>0, <1>2, <2>3, <2>4, <2>6
    DEF ScheduleWork, Promise!Next, Promise!Accept, Busy
  <2> QED
    BY Zenon, <2>5, <2>6
<1>3. ASSUME NEW w \in Worker, Enter(w) PROVE UNCHANGED Promise!vars
  <2>1. Busy' = Busy
    BY Zenon, <1>3 DEF Enter, Busy, IndInv, TypeOK
  <2> QED
    BY Zenon, <1>3, <2>1 DEF Enter, Busy, Promise!vars
<1>4. ASSUME NEW w \in Worker, TakeItem(w)
      PROVE  Promise!Next \/ UNCHANGED Promise!vars
  <2>1. CASE Empty
    <3>1. Busy' = Busy
      BY Zenon, <1>4, <2>1 DEF TakeItem, Busy, IndInv, TypeOK
    <3> QED
      BY Zenon, <1>4, <2>1, <3>1 DEF TakeItem, Busy, Promise!vars
  <2>2. CASE ~Empty
    <3>1. queue[head] = started + 1 /\ started < accepted
      BY <1>0, <2>2 DEF Empty, IndInv, TypeOK, RingIsFifo, Pending, Index
    <3>2. Busy' = [Busy EXCEPT ![w] = started + 1]
      BY ZenonT(30), <1>4, <2>2, <3>1 DEF TakeItem, Busy, IndInv, TypeOK
    <3>3. Busy[w] = 0
      BY Zenon, <1>4 DEF TakeItem, Busy
    <3> QED
      BY ZenonT(30), <1>4, <2>2, <3>1, <3>2, <3>3
      DEF TakeItem, Promise!Next, Promise!Start, Busy
  <2> QED
    BY Zenon, <2>1, <2>2
<1>5. ASSUME NEW w \in Worker, CallReturns(w) PROVE Promise!Next
  <2>1. Busy' = [Busy EXCEPT ![w] = 0]
    BY ZenonT(30), <1>5 DEF CallReturns, Busy, IndInv, TypeOK
  <2>2. Busy[w] # 0
    BY Zenon, <1>5 DEF CallReturns, Busy, CallsNumbered
  <2> QED
    BY ZenonT(30), <1>5, <2>1, <2>2 DEF CallReturns, Promise!Next, Promise!Finish, Busy
<1> QED
  BY Zenon, <1>1, <1>2, <1>3, <1>4, <1>5 DEF Next, Run

\* Every behaviour of the ring is one that DeferredWork allows: calls start in
\* the order they were accepted, each once, and one is dropped only when
\* queue_size - 1 of them wait.
THEOREM RingImplementsDeferredWork == Spec => ImplementsDeferredWork
<1>1. Init => CallsNumbered
  BY Zenon DEF Init, CallsNumbered
<1>2. Spec => []CallsNumbered
  BY <1>1, CallsNumberedInd, Invariance, PTL DEF Spec
<1> QED
  BY <1>2, PromiseInit, PromiseStep, Invariance, PTL
  DEF Spec, ImplementsDeferredWork, Promise!Spec

----------------------------------------------------------------------------
(* kernel/time/timers.cpp                                                   *)

\* What the caller of arm() asked for.
Request == [from : Nat, delay : Nat, period : Nat]

\* The setting is one of the settings, and the requests are requests.
AskedTypes == setting \in Settings /\ asked \in [Handle -> Request]

\* A handler inside a slot is at one that was armed, and what it read of it was a timer.
PlaceInv ==
    \A c \in Cpu :
        /\ timer_pc[c] \in {"due", "take", "period", "move", "callback"} =>
               at[c] \in Slot /\ handle[at[c]] \in Handle
        /\ timer_pc[c] \in {"period", "move"} => called[c] \in Handle /\ called[c] < next_handle
        /\ now[c] <= clock

\* A handle is given once, and the slot of a timer has what its caller asked for.
HandleInv ==
    /\ \A s \in Slot : handle[s] < next_handle
    /\ \A s, u \in Slot : handle[s] = handle[u] /\ handle[s] # 0 => s = u
    /\ \A s \in active : period[s] = asked[handle[s]].period
    /\ \A h \in cancelled : h < next_handle
    /\ \A h \in Handle : h >= next_handle => fired[h] = 0 /\ asked[h].period = 0
    /\ \A h \in Handle : asked[h].from <= clock

\* The caller of arm() that has the lock fills a slot that is not active yet.
ArmingInv ==
    arming.at # "none" =>
        /\ timer_pc[arming.cpu] \in {"thread", "callback"}
        /\ arming.from <= clock /\ (arming.period = 0 \/ arming.period = arming.delay)
        /\ arming.at # "program" => arming.slot \notin active
        /\ arming.at \in {"period", "callback"} => next_handle \in Handle
        /\ arming.at = "callback" => period[arming.slot] = arming.period
        /\ arming.at = "active" => /\ handle[arming.slot] \in Handle
                                   /\ period[arming.slot] = asked[handle[arming.slot]].period

\* What an active slot is known of on a single CPU: its handle h, deadline, period and
\* the calls.
SlotSound(s, h) ==
    /\ h \notin cancelled
    /\ deadline[s] >= asked[h].from + asked[h].delay
    /\ deadline[s] >= asked[h].from + fired[h] * period[s] + period[s]
    /\ period[s] = 0 => fired[h] = 0

\* What is counted of a handle.
Counted(h) ==
    /\ asked[h].period = 0 => fired[h] <= 1
    /\ fired[h] * asked[h].period <= clock - asked[h].from

\* What the handler of the boot CPU has read of a slot is what the slot has.
TakeInv ==
    LET s == at[BootCpu] IN
    /\ timer_pc[BootCpu] \in {"due", "take", "period", "move"} => s \in active
    /\ timer_pc[BootCpu] \in {"take", "period", "move"} => deadline[s] <= now[BootCpu]
    /\ timer_pc[BootCpu] \in {"period", "move"} => called[BootCpu] = handle[s]
    /\ timer_pc[BootCpu] = "move" => interval[BootCpu] = period[s]

\* The slot being armed will be sound when its flag is set.
ArmedInv ==
    /\ arming.at # "none" => arming.cpu = BootCpu
    /\ arming.at \in {"period", "callback"} => deadline[arming.slot] = arming.from + arming.delay
    /\ arming.at = "active" => SlotSound(arming.slot, handle[arming.slot])

\* The facts about a single CPU in one.
AloneAll ==
    /\ \A s \in active : SlotSound(s, handle[s])
    /\ TakeInv /\ ArmedInv
    /\ \A h \in Handle : Counted(h)

TimersInv ==
    /\ TimersTypeOK /\ AskedTypes /\ DeadlineProgrammed /\ PlaceInv /\ HandleInv /\ ArmingInv
    /\ Alone => AloneAll
----------------------------------------------------------------------------
(* The next deadline                                                        *)

\* The larger and the smaller of two numbers.
LEMMA OfTwo ==
  ASSUME NEW a \in Int, NEW b \in Int
  PROVE  /\ Max({a, b}) \in {a, b} /\ Max({a, b}) >= a /\ Max({a, b}) >= b
         /\ Min({a, b}) \in {a, b} /\ Min({a, b}) <= a /\ Min({a, b}) <= b
<1>1. \E x \in {a, b} : \A y \in {a, b} : x >= y
  BY SMT
<1>2. \E x \in {a, b} : \A y \in {a, b} : x <= y
  BY SMT
<1>3. Max({a, b}) \in {a, b} /\ \A y \in {a, b} : Max({a, b}) >= y
  BY Zenon, <1>1 DEF Max
<1>4. Min({a, b}) \in {a, b} /\ \A y \in {a, b} : Min({a, b}) <= y
  BY Zenon, <1>2 DEF Min
<1> QED
  BY Zenon, <1>3, <1>4

\* A set of numbers has a first.
LEMMA LeastOne ==
  ASSUME NEW S, S \subseteq Nat, S # {}
  PROVE  Min(S) \in S /\ \A j \in S : Min(S) <= j
<1> DEFINE R == OpToRel(<, Nat)
<1>1. \E k \in S : \A j \in S : <<j, k>> \notin R
  BY ZenonT(30), NatLessThanWellFounded, WFMin
<1>2. \A j, k \in Nat : <<j, k>> \in R <=> j < k
  BY Zenon DEF OpToRel
<1> HIDE DEF R
<1>3. PICK k \in S : \A j \in S : <<j, k>> \notin R
  BY Zenon, <1>1
<1>4. \A j \in S : ~(j < k) /\ j \in Nat /\ k \in Nat
  BY ZenonT(30), <1>2, <1>3
<1>5. \A j \in S : k <= j
  BY <1>4
<1> QED
  BY Zenon, <1>3, <1>5 DEF Min

\* program_next() sets the timer no later than any deadline, but not closer than the
\* shortest delay.
LEMMA ProgrammedInTime ==
  ASSUME clock \in Nat, NEW c, NEW on, on \subseteq Slot, NEW when \in [Slot -> Nat]
  PROVE  /\ Programmed(c, on, when) \in Nat \cup {Off}
         /\ \A s \in on : /\ Programmed(c, on, when) # Off
                          /\ Programmed(c, on, when) <= Max({when[s], clock + MinDelay})
<1>1. CASE on = {}
  BY Zenon, <1>1 DEF Programmed
<1>2. CASE on # {}
  <2> DEFINE W == {when[s] : s \in on}
             m == Min(W)
             x == Max({MinDelay, m - clock})
             y == Min({x, MaxDelay})
  <2>1. W \subseteq Nat /\ W # {}
    BY Zenon, <1>2
  <2>2. m \in W /\ \A j \in W : m <= j
    BY Zenon, <2>1, LeastOne
  <2>3. m \in Nat /\ \A s \in on : m <= when[s] /\ when[s] \in Nat
    BY Zenon, <2>1, <2>2
  <2> HIDE DEF m
  <2>4. MinDelay \in Nat /\ MaxDelay \in Nat /\ m - clock \in Int /\ MinDelay \in Int /\ MaxDelay \in Int
    BY <2>3, TimersAssumption
  <2>5. x \in {MinDelay, m - clock} /\ x >= MinDelay
    BY Zenon, <2>4, OfTwo
  <2> HIDE DEF x
  <2>6. x \in Nat /\ x \in Int /\ (x = MinDelay \/ x = m - clock)
    BY <2>4, <2>5
  <2>7. y \in {x, MaxDelay} /\ y <= x
    BY Zenon, <2>4, <2>6, OfTwo
  <2> HIDE DEF y
  <2>8. y \in Nat /\ clock + y \in Nat /\ (clock + y <= clock + MinDelay \/ clock + y <= m)
    BY <2>3, <2>4, <2>6, <2>7
  <2>9. Programmed(c, on, when) = clock + y
    BY Zenon, <1>2 DEF Programmed, Oneshot, y, x, m
  <2>10. ASSUME NEW s \in on
         PROVE  clock + y <= Max({when[s], clock + MinDelay})
    <3>1. when[s] \in Int /\ clock + MinDelay \in Int
      BY <2>3, <2>4
    <3>2. /\ Max({when[s], clock + MinDelay}) \in {when[s], clock + MinDelay}
          /\ Max({when[s], clock + MinDelay}) >= when[s]
          /\ Max({when[s], clock + MinDelay}) >= clock + MinDelay
      BY Zenon, <3>1, OfTwo
    <3> DEFINE z == Max({when[s], clock + MinDelay})
    <3>3. z \in Int /\ z >= when[s] /\ z >= clock + MinDelay
      BY Zenon, <3>1, <3>2
    <3> HIDE DEF z
    <3>4. clock + y <= z
      BY <2>3, <2>4, <2>8, <3>3
    <3> QED
      BY Zenon, <3>4 DEF z
  <2>11. clock + y # Off
    BY <2>8 DEF Off
  <2> QED
    BY Zenon, <2>8, <2>9, <2>10, <2>11
<1> QED
  BY Zenon, <1>1, <1>2

\* The CPU that calls program_next() watches every deadline then.
LEMMA ProgramsAll ==
  ASSUME clock \in Nat, lapic \in [Cpu -> Nat \cup {Off}], NEW c \in Cpu,
         NEW on, on \subseteq Slot, NEW when \in [Slot -> Nat], ProgramNext(c, on, when)
  PROVE  /\ lapic' \in [Cpu -> Nat \cup {Off}]
         /\ lapic_driven => \A s \in on : /\ lapic'[c] # Off
                                          /\ lapic'[c] <= Max({when[s], clock + MinDelay})
<1>1. CASE lapic_driven
  <2>1. lapic' = [lapic EXCEPT ![c] = Programmed(c, on, when)]
    BY Zenon, <1>1 DEF ProgramNext
  <2>2. lapic'[c] = Programmed(c, on, when)
    BY Zenon, <2>1
  <2> QED
    BY Zenon, <2>1, <2>2, ProgrammedInTime
<1>2. CASE ~lapic_driven
  BY Zenon, <1>2 DEF ProgramNext
<1> QED
  BY Zenon, <1>1, <1>2

----------------------------------------------------------------------------
(* What the steps do                                                        *)

\* arm() in progress.
ArmRecord == [at : {"none", "period", "callback", "active", "program"}, cpu : Cpu, slot : Slot,
              from : Nat, delay : Nat, period : Nat]

\* The fields of the record of arm().
LEMMA ArmFields ==
  ASSUME NEW a \in ArmRecord
  PROVE  a.cpu \in Cpu /\ a.slot \in Slot /\ a.from \in Nat /\ a.delay \in Nat /\ a.period \in Nat
BY DEF ArmRecord

\* arm() goes on to t.
Staged(t) ==
    /\ arming' \in ArmRecord /\ arming'.at = t /\ arming'.cpu = arming.cpu /\ arming'.slot = arming.slot
    /\ arming'.from = arming.from /\ arming'.delay = arming.delay /\ arming'.period = arming.period

\* Writing the stage leaves the rest of the record.
LEMMA StageWritten ==
  ASSUME arming \in ArmRecord, NEW t \in {"none", "period", "callback", "active", "program"},
         arming' = [arming EXCEPT !.at = t]
  PROVE  Staged(t)
BY DEF ArmRecord, Staged

\* arm() begins with slot s: what it writes, and that everything else stays.
Begun(c, s, d, p) ==
    /\ s \in Slot /\ s \notin active /\ next_handle \in Handle /\ MayCall(c)
    /\ deadline' \in [Slot -> Nat] /\ deadline'[s] = clock + d
    /\ \A u \in Slot \ {s} : deadline'[u] = deadline[u]
    /\ arming' \in ArmRecord /\ arming'.at = "period" /\ arming'.cpu = c /\ arming'.slot = s
    /\ arming'.from = clock /\ arming'.delay = d /\ arming'.period = p
    /\ UNCHANGED <<active, period, handle, next_handle, lapic_driven, lapic, pending, clock, timer_pc, now, at,
                   called, interval, asked, fired, cancelled, setting>>

\* What arm() does when it finds a free slot: it writes the deadline of that slot.
LEMMA ArmWrites ==
  ASSUME TimersTypeOK, AskedTypes, NEW c \in Cpu, NEW d \in Nat, NEW p \in Nat, Arm(c, d, p)
  PROVE  \E s \in Slot : Begun(c, s, d, p)
<1> DEFINE r(s) == [at |-> "period", cpu |-> c, slot |-> s, from |-> clock, delay |-> d, period |-> p]
<1>1. PICK s \in FindFree : deadline' = [deadline EXCEPT ![s] = clock + d] /\ arming' = r(s)
  BY Zenon DEF Arm
<1>2. s \in Slot /\ s \notin active
  <2>1. active # Slot /\ s = Min(Slot \ active)
    BY Zenon, <1>1 DEF FindFree
  <2>2. Slot \ active \subseteq Nat /\ Slot \ active # {}
    <3>1. Slot \subseteq Nat
      BY TimersAssumption DEF Slot
    <3> QED
      BY Zenon, <2>1, <3>1 DEF TimersTypeOK
  <2> QED
    BY Zenon, <2>1, <2>2, LeastOne
<1>3. next_handle \in Handle
  <2>1. /\ setting.handles \in 1..MaxHandle /\ next_handle \in 1..MaxHandle + 1 /\ MaxHandle \in Nat
        /\ next_handle <= setting.handles
    BY Zenon, TimersAssumption DEF AskedTypes, Arm, TimersTypeOK
  <2> QED
    BY <2>1 DEF Handle
<1>4. clock \in Nat /\ clock + d \in Nat
  BY DEF TimersTypeOK
<1>5. deadline' \in [Slot -> Nat] /\ deadline'[s] = clock + d
  BY Zenon, <1>1, <1>2, <1>4 DEF TimersTypeOK
<1>6. ASSUME NEW u \in Slot \ {s} PROVE deadline'[u] = deadline[u]
  BY Zenon, <1>1, <1>2 DEF TimersTypeOK
<1>7. /\ r(s) \in ArmRecord /\ r(s).at = "period" /\ r(s).cpu = c /\ r(s).slot = s
      /\ r(s).from = clock /\ r(s).delay = d /\ r(s).period = p
  BY <1>2, <1>4 DEF ArmRecord
<1> HIDE DEF r
<1>8. UNCHANGED <<active, period, handle, next_handle, lapic_driven, lapic, pending, clock, timer_pc, now, at,
                  called, interval, asked, fired, cancelled, setting>>
  BY Zenon DEF Arm, walk
<1>9. MayCall(c)
  BY Zenon DEF Arm
<1> QED
  BY Zenon, <1>1, <1>2, <1>3, <1>5, <1>6, <1>7, <1>8, <1>9 DEF Begun

\* What is left alone while arm() goes on.
ArmLeaves == UNCHANGED <<lapic_driven, pending, clock, timer_pc, now, at, called, interval, fired, cancelled,
                         setting>>

\* arm() writes the period.
LEMMA ArmPeriodWrites ==
  ASSUME TimersTypeOK, NEW c \in Cpu, ArmPeriod(c)
  PROVE  /\ arming.cpu = c /\ arming.at = "period" /\ arming.slot \in Slot /\ Staged("callback") /\ ArmLeaves
         /\ period' \in [Slot -> Nat] /\ period'[arming.slot] = arming.period
         /\ \A u \in Slot \ {arming.slot} : period'[u] = period[u]
         /\ UNCHANGED <<active, deadline, handle, next_handle, lapic, asked>>
<1>1. arming \in ArmRecord
  BY Zenon DEF TimersTypeOK, ArmRecord
<1>2. Staged("callback")
  BY Zenon, <1>1, StageWritten DEF ArmPeriod
<1>3. arming.slot \in Slot /\ arming.period \in Nat
  BY Zenon, <1>1, ArmFields
<1>4. /\ period' \in [Slot -> Nat] /\ period'[arming.slot] = arming.period
      /\ \A u \in Slot \ {arming.slot} : period'[u] = period[u]
  BY Zenon, <1>3 DEF ArmPeriod, TimersTypeOK
<1> QED
  BY Zenon, <1>2, <1>3, <1>4 DEF ArmPeriod, Arming, ArmLeaves, walk, history

\* arm() writes the callback and gives the handle.
LEMMA ArmCallbackWrites ==
  ASSUME TimersTypeOK, AskedTypes, ArmingInv, NEW c \in Cpu, ArmCallback(c)
  PROVE  /\ arming.cpu = c /\ arming.at = "callback" /\ arming.slot \in Slot /\ Staged("active") /\ ArmLeaves
         /\ next_handle \in Handle /\ next_handle' = next_handle + 1
         /\ handle' \in [Slot -> Handle \cup {0}] /\ handle'[arming.slot] = next_handle
         /\ \A u \in Slot \ {arming.slot} : handle'[u] = handle[u]
         /\ asked' \in [Handle -> Request] /\ asked'[next_handle].from = arming.from
         /\ asked'[next_handle].delay = arming.delay /\ asked'[next_handle].period = arming.period
         /\ \A h \in Handle \ {next_handle} : asked'[h] = asked[h]
         /\ UNCHANGED <<active, deadline, period, lapic>>
<1>1. arming \in ArmRecord
  BY Zenon DEF TimersTypeOK, ArmRecord
<1>2. Staged("active")
  BY Zenon, <1>1, StageWritten DEF ArmCallback
<1>3. /\ arming.slot \in Slot /\ arming.from \in Nat /\ arming.delay \in Nat /\ arming.period \in Nat
      /\ arming.cpu = c /\ arming.at = "callback"
  BY Zenon, <1>1, ArmFields DEF ArmCallback, Arming
<1>4. next_handle \in Handle
  <2>1. "callback" # "none"
    OBVIOUS
  <2> QED
    BY Zenon, <1>3, <2>1 DEF ArmingInv
<1>5. /\ handle' \in [Slot -> Handle \cup {0}] /\ handle'[arming.slot] = next_handle
      /\ \A u \in Slot \ {arming.slot} : handle'[u] = handle[u]
  BY Zenon, <1>3, <1>4 DEF ArmCallback, NewHandle, TimersTypeOK
<1> DEFINE r == [from |-> arming.from, delay |-> arming.delay, period |-> arming.period]
<1>6. r \in Request /\ r.from = arming.from /\ r.delay = arming.delay /\ r.period = arming.period
  BY <1>3 DEF Request
<1>7. asked' = [asked EXCEPT ![next_handle] = r]
  BY Zenon DEF ArmCallback
<1> HIDE DEF r
<1>8. /\ asked' \in [Handle -> Request] /\ asked'[next_handle] = r
      /\ \A h \in Handle \ {next_handle} : asked'[h] = asked[h]
  BY Zenon, <1>4, <1>6, <1>7 DEF AskedTypes
<1>9. next_handle' = next_handle + 1 /\ ArmLeaves /\ UNCHANGED <<active, deadline, period, lapic>>
  BY Zenon DEF ArmCallback, ArmLeaves, walk
<1> QED
  BY Zenon, <1>2, <1>3, <1>4, <1>5, <1>6, <1>8, <1>9

\* arm() sets the flag.
LEMMA ArmActiveWrites ==
  ASSUME TimersTypeOK, NEW c \in Cpu, ArmActive(c)
  PROVE  /\ arming.cpu = c /\ arming.at = "active" /\ arming.slot \in Slot /\ Staged("program") /\ ArmLeaves
         /\ active' = active \cup {arming.slot}
         /\ UNCHANGED <<deadline, period, handle, next_handle, lapic, asked>>
<1>1. arming \in ArmRecord
  BY Zenon DEF TimersTypeOK, ArmRecord
<1>2. Staged("program") /\ arming.slot \in Slot
  BY Zenon, <1>1, StageWritten, ArmFields DEF ArmActive
<1> QED
  BY Zenon, <1>2 DEF ArmActive, Arming, ArmLeaves, walk, history

\* arm() programs the timer and lets go of the lock.
LEMMA ArmProgramWrites ==
  ASSUME TimersTypeOK, NEW c \in Cpu, ArmProgram(c)
  PROVE  /\ ProgramNext(c, active, deadline) /\ ArmLeaves
         /\ arming' \in ArmRecord /\ arming'.at = "none"
         /\ UNCHANGED <<active, deadline, period, handle, next_handle, asked>>
<1>1. NotArming \in ArmRecord /\ NotArming.at = "none"
  BY TimersAssumption DEF NotArming, ArmRecord, Slot
<1> QED
  BY Zenon, <1>1 DEF ArmProgram, ArmLeaves, walk, history, table

\* A step is one of these.
LEMMA StepIs ==
  ASSUME setting \in Settings, TimersNext
  PROVE  \/ ClockTick
         \/ \E c \in setting.cpus : /\ c \in Cpu
                                    /\ \/ Handler(c) \/ ArmOn(c)
                                       \/ \E d, p \in Nat : (p = 0 \/ p = d) /\ Arm(c, d, p)
                                       \/ \E h \in Handle : TimerCancel(c, h)
<1>1. setting.cpus \subseteq Cpu /\ Delays \subseteq Nat /\ 0 \in Nat
  BY Zenon, TimersAssumption
<1> QED
  BY Zenon, <1>1 DEF TimersNext, TimerAfter, TimerEvery

\* A tick writes the clock, the interrupts and the timers that expire.
LEMMA TickWrites ==
  ASSUME TimersTypeOK, ClockTick
  PROVE  /\ clock' = clock + 1 /\ clock' \in Nat /\ pending' \subseteq Cpu
         /\ lapic' \in [Cpu -> Nat \cup {Off}] /\ pending \subseteq pending'
         /\ lapic_driven => \A c \in Cpu : c \in pending' \/ (lapic[c] # clock + 1 /\ lapic'[c] = lapic[c])
         /\ UNCHANGED <<active, deadline, period, handle, next_handle, lapic_driven, arming, timer_pc, now, at, called,
                        interval, asked, fired, cancelled, setting>>
<1> DEFINE expired == IF lapic_driven THEN {c \in Cpu : lapic[c] = clock + 1}
                      ELSE {c \in {BootCpu} : (clock + 1) % FallbackTick = 0}
<1>1. /\ clock' = clock + 1 /\ pending' = pending \cup expired
      /\ lapic' = [c \in Cpu |-> IF c \in expired THEN Off ELSE lapic[c]]
  BY Zenon DEF ClockTick
<1>2. expired \subseteq Cpu
  BY Zenon, TimersAssumption
<1>3. lapic_driven => \A c \in Cpu : lapic[c] = clock + 1 => c \in expired
  BY Zenon
<1> HIDE DEF expired
<1>4. clock' \in Nat
  BY <1>1 DEF TimersTypeOK
<1>5. UNCHANGED <<active, deadline, period, handle, next_handle, lapic_driven, arming, timer_pc, now, at, called,
                  interval, asked, fired, cancelled, setting>>
  BY Zenon DEF ClockTick, table, walk, history
<1>6. \A c \in Cpu : lapic'[c] = IF c \in expired THEN Off ELSE lapic[c]
  BY Zenon, <1>1
<1>7. lapic' \in [Cpu -> Nat \cup {Off}]
  BY Zenon, <1>1 DEF TimersTypeOK
<1>8. \A c \in Cpu : c \in expired \/ lapic'[c] = lapic[c]
  BY Zenon, <1>6
<1> QED
  BY Zenon, <1>1, <1>2, <1>3, <1>4, <1>5, <1>7, <1>8 DEF TimersTypeOK

\* Leaving a slot counts the call of the timer read and moves its deadline or its flag.
Moved(c, s) ==
    /\ s = at[c] /\ s \in Slot /\ called[c] \in Handle /\ timer_pc[c] = "move"
    /\ active' = OneShotDone(c, s)
    /\ deadline' \in [Slot -> Nat] /\ deadline'[s] = NextDeadline(c, s)
    /\ \A u \in Slot \ {s} : deadline'[u] = deadline[u]
    /\ fired' \in [Handle -> Nat] /\ fired'[called[c]] = fired[called[c]] + 1
    /\ \A h \in Handle \ {called[c]} : fired'[h] = fired[h]
    /\ timer_pc' = [timer_pc EXCEPT ![c] = "callback"]
    /\ called' \in [Cpu -> Handle \cup {0}] /\ interval' \in [Cpu -> Nat]
    /\ \A e \in Cpu \ {c} : called'[e] = called[e] /\ interval'[e] = interval[e]
    /\ UNCHANGED <<period, handle, next_handle, lapic_driven, lapic, pending,
                   clock, arming, now, at, asked, cancelled, setting>>

\* What timers_run() does with a slot it found due.
LEMMA MoveWrites ==
  ASSUME TimersTypeOK, PlaceInv, NEW c \in Cpu, Move(c)
  PROVE  Moved(c, at[c])
<1> DEFINE s == at[c]
<1>1. /\ timer_pc[c] = "move" /\ active' = OneShotDone(c, s)
      /\ deadline' = [deadline EXCEPT ![s] = NextDeadline(c, s)]
      /\ fired' = [fired EXCEPT ![called[c]] = fired[called[c]] + 1]
      /\ timer_pc' = [timer_pc EXCEPT ![c] = "callback"]
      /\ called' = [called EXCEPT ![c] = 0] /\ interval' = [interval EXCEPT ![c] = 0]
      /\ UNCHANGED <<period, handle, next_handle, lapic_driven, lapic, pending,
                     clock, arming, now, at, asked, cancelled, setting>>
  BY Zenon DEF Move, SlotStep
<1>2. s \in Slot /\ called[c] \in Handle
  BY Zenon, <1>1 DEF PlaceInv
<1>3. NextDeadline(c, s) \in Nat /\ fired[called[c]] + 1 \in Nat /\ 0 \in Nat
  BY <1>2 DEF NextDeadline, TimersTypeOK
<1>4. /\ deadline' \in [Slot -> Nat] /\ deadline'[s] = NextDeadline(c, s)
      /\ \A u \in Slot \ {s} : deadline'[u] = deadline[u]
  BY Zenon, <1>1, <1>2, <1>3 DEF TimersTypeOK
<1>5. /\ fired' \in [Handle -> Nat] /\ fired'[called[c]] = fired[called[c]] + 1
      /\ \A h \in Handle \ {called[c]} : fired'[h] = fired[h]
  BY Zenon, <1>1, <1>2, <1>3 DEF TimersTypeOK
<1>6. /\ called' \in [Cpu -> Handle \cup {0}] /\ interval' \in [Cpu -> Nat]
      /\ \A e \in Cpu \ {c} : called'[e] = called[e] /\ interval'[e] = interval[e]
  BY Zenon, <1>1, <1>3 DEF TimersTypeOK
<1> QED
  BY Zenon, <1>1, <1>2, <1>4, <1>5, <1>6 DEF Moved

\* The other steps of a handler.
Walks(c) == Interrupt(c) \/ InSlot(c) \/ Finish(c)

Places == {"thread", "scan", "due", "take", "period", "move", "callback"}

\* What CPU c has read where it is now.
ReadOn(c) ==
    /\ timer_pc'[c] = "due" => at[c] \in active
    /\ timer_pc'[c] = "take" => timer_pc[c] = "due" /\ deadline[at[c]] <= now[c]
    /\ timer_pc'[c] = "period" => timer_pc[c] = "take" /\ called'[c] = handle[at[c]]
    /\ timer_pc'[c] = "move" => timer_pc[c] = "period" /\ called'[c] = called[c] /\ interval'[c] = period[at[c]]
    /\ timer_pc'[c] \in {"due", "take", "period", "move"} =>
           at'[c] = at[c] /\ now'[c] = now[c] /\ at[c] \in Slot

\* A handler that only walks leaves the table as it is.
LEMMA WalkWrites ==
  ASSUME TimersTypeOK, PlaceInv, ArmingInv, NEW c \in Cpu, Walks(c)
  PROVE  /\ UNCHANGED <<active, deadline, period, handle, next_handle, lapic_driven, clock, arming, asked, fired,
                        cancelled, setting>>
         /\ timer_pc' \in [Cpu -> Places] /\ pending' \subseteq Cpu
         /\ now' \in [Cpu -> Nat] /\ at' \in [Cpu -> 1..MaxTimers + 1]
         /\ called' \in [Cpu -> Handle \cup {0}] /\ interval' \in [Cpu -> Nat]
         /\ \A e \in Cpu \ {c} : /\ timer_pc'[e] = timer_pc[e] /\ now'[e] = now[e] /\ at'[e] = at[e]
                                 /\ called'[e] = called[e] /\ interval'[e] = interval[e]
         /\ now'[c] = now[c] \/ now'[c] = clock
         /\ timer_pc'[c] # "callback" /\ ReadOn(c) /\ ~Arming(c)
<1>0. /\ at[c] \in Slot => at[c] + 1 \in 1..MaxTimers + 1
      /\ 1 \in 1..MaxTimers + 1
  BY TimersAssumption DEF Slot
<1>1. ASSUME timer_pc[c] \notin {"thread", "callback"} PROVE ~Arming(c)
  BY Zenon, <1>1 DEF ArmingInv, Arming
<1>2. timer_pc \in [Cpu -> Places]
  BY Zenon DEF TimersTypeOK, Places
<1>3. {"thread", "scan", "due", "take", "period", "move"} \subseteq Places
  BY Zenon DEF Places
<1>4. CASE Interrupt(c)
  BY Zenon, <1>0, <1>2, <1>3, <1>4 DEF Interrupt, table, history, TimersTypeOK, ReadOn
<1>5. ASSUME NextSlot(c), at[c] \in Slot
      PROVE  /\ timer_pc' \in [Cpu -> Places] /\ at' \in [Cpu -> 1..MaxTimers + 1] /\ timer_pc'[c] = "scan"
             /\ \A e \in Cpu \ {c} : timer_pc'[e] = timer_pc[e] /\ at'[e] = at[e]
  BY Zenon, <1>0, <1>2, <1>3, <1>5 DEF NextSlot, TimersTypeOK
<1>6. CASE Scan(c)
  <2>1. /\ timer_pc[c] = "scan" /\ at[c] \in Slot /\ pending' = pending /\ now' = now
        /\ UNCHANGED <<active, deadline, period, handle, next_handle, lapic_driven, clock, arming, asked, fired,
                       cancelled, setting, called, interval>>
    BY Zenon, <1>6 DEF Scan, SlotStep
  <2>2. ~Arming(c)
    BY Zenon, <1>1, <2>1
  <2>3. CASE at[c] \in active
    BY Zenon, <1>2, <1>3, <1>6, <2>1, <2>2, <2>3 DEF Scan, TimersTypeOK, ReadOn
  <2>4. CASE at[c] \notin active
    <3>1. NextSlot(c)
      BY Zenon, <1>6, <2>4 DEF Scan
    <3> QED
      BY Zenon, <1>5, <2>1, <2>2, <3>1 DEF TimersTypeOK, ReadOn
  <2> QED
    BY Zenon, <2>3, <2>4
<1>7. CASE TestDeadline(c)
  <2>1. /\ timer_pc[c] = "due" /\ pending' = pending /\ now' = now
        /\ UNCHANGED <<active, deadline, period, handle, next_handle, lapic_driven, clock, arming, asked, fired,
                       cancelled, setting, called, interval>>
    BY Zenon, <1>7 DEF TestDeadline, SlotStep
  <2>2. ~Arming(c) /\ at[c] \in Slot
    BY Zenon, <1>1, <2>1 DEF PlaceInv
  <2>3. CASE deadline[at[c]] <= now[c]
    BY Zenon, <1>2, <1>3, <1>7, <2>1, <2>2, <2>3 DEF TestDeadline, TimersTypeOK, ReadOn
  <2>4. CASE ~(deadline[at[c]] <= now[c])
    <3>1. NextSlot(c)
      BY Zenon, <1>7, <2>4 DEF TestDeadline
    <3> QED
      BY Zenon, <1>5, <2>1, <2>2, <3>1 DEF TimersTypeOK, ReadOn
  <2> QED
    BY Zenon, <2>3, <2>4
<1>8. CASE Take(c)
  <2>1. /\ timer_pc[c] = "take" /\ pending' = pending /\ now' = now /\ at' = at
        /\ UNCHANGED <<active, deadline, period, handle, next_handle, lapic_driven, clock, arming, asked, fired,
                       cancelled, setting, interval>>
        /\ timer_pc' = [timer_pc EXCEPT ![c] = "period"] /\ called' = [called EXCEPT ![c] = handle[at[c]]]
    BY Zenon, <1>8 DEF Take, SlotStep
  <2>2. ~Arming(c) /\ at[c] \in Slot /\ handle[at[c]] \in Handle
    BY Zenon, <1>1, <2>1 DEF PlaceInv
  <2> QED
    BY Zenon, <1>2, <1>3, <2>1, <2>2 DEF TimersTypeOK, ReadOn
<1>9. CASE TestPeriod(c)
  <2>1. /\ timer_pc[c] = "period" /\ pending' = pending /\ now' = now /\ at' = at
        /\ UNCHANGED <<active, deadline, period, handle, next_handle, lapic_driven, clock, arming, asked, fired,
                       cancelled, setting, called>>
        /\ timer_pc' = [timer_pc EXCEPT ![c] = "move"] /\ interval' = [interval EXCEPT ![c] = period[at[c]]]
    BY Zenon, <1>9 DEF TestPeriod, SlotStep
  <2>2. ~Arming(c) /\ at[c] \in Slot /\ period[at[c]] \in Nat
    BY Zenon, <1>1, <2>1 DEF PlaceInv, TimersTypeOK
  <2> QED
    BY Zenon, <1>2, <1>3, <2>1, <2>2 DEF TimersTypeOK, ReadOn
<1>10. CASE Return(c)
  <2>1. /\ timer_pc[c] = "callback" /\ ~Arming(c) /\ NextSlot(c) /\ pending' = pending /\ now' = now
        /\ UNCHANGED <<active, deadline, period, handle, next_handle, lapic_driven, clock, arming, asked, fired,
                       cancelled, setting, called, interval>>
    BY Zenon, <1>10 DEF Return, SlotStep
  <2>2. at[c] \in Slot
    BY Zenon, <2>1 DEF PlaceInv
  <2> QED
    BY Zenon, <1>5, <2>1, <2>2 DEF TimersTypeOK, ReadOn
<1>11. CASE Finish(c)
  <2>1. ~Arming(c)
    BY Zenon, <1>1, <1>11 DEF Finish
  <2> QED
    BY Zenon, <1>2, <1>3, <1>11, <2>1 DEF Finish, table, history, TimersTypeOK, ReadOn
<1> QED
  BY Zenon, <1>4, <1>6, <1>7, <1>8, <1>9, <1>10, <1>11 DEF Walks, InSlot

\* Cancelling clears the flag of the slot of a handle, and nothing else.
LEMMA CancelWrites ==
  ASSUME TimersTypeOK, NEW c \in Cpu, NEW h \in Handle, TimerCancel(c, h)
  PROVE  /\ active' = Cancelled(h) /\ cancelled' = cancelled \cup {h} /\ h < next_handle /\ MayCall(c)
         /\ ProgramNext(c, active', deadline) \/ (active' = active /\ lapic' = lapic)
         /\ UNCHANGED <<deadline, period, handle, next_handle, lapic_driven, pending,
                        clock, arming, timer_pc, now, at, called, interval, asked, fired, setting>>
<1>1. CASE \E s \in active : handle[s] = h
  BY Zenon, <1>1 DEF TimerCancel, walk
<1>2. CASE ~\E s \in active : handle[s] = h
  <2>1. active' = active
    BY Zenon, <1>2 DEF TimerCancel, Cancelled
  <2> QED
    BY Zenon, <1>2, <2>1 DEF TimerCancel, walk
<1> QED
  BY Zenon, <1>1, <1>2

\* program_next() at the end of a step leaves the timers what they are.
LEMMA TimersTyped ==
  ASSUME TimersTypeOK, PlaceInv, NEW c \in Cpu, Handler(c)
  PROVE  lapic' \in [Cpu -> Nat \cup {Off}]
<1>1. CASE Finish(c)
  BY Zenon, <1>1, ProgramsAll DEF Finish, TimersTypeOK
<1>2. CASE Interrupt(c) \/ InSlot(c) \/ Move(c)
  BY Zenon, <1>2 DEF InSlot, Interrupt, Scan, TestDeadline, Take, TestPeriod, Return, Move, SlotStep, TimersTypeOK
<1> QED
  BY Zenon, <1>1, <1>2 DEF Handler

----------------------------------------------------------------------------
(* What holds for any CPUs                                                  *)

\* A step leaves the table, the timers and the requests well formed.
LEMMA TimerTypesKept ==
  ASSUME TimersInv, TimersNext
  PROVE  TimersTypeOK' /\ AskedTypes'
<1>1. TimersTypeOK /\ AskedTypes /\ PlaceInv /\ ArmingInv /\ setting \in Settings
  BY Zenon DEF TimersInv, AskedTypes
<1>2. CASE ClockTick
  BY Zenon, <1>1, <1>2, TickWrites DEF TimersTypeOK, AskedTypes
<1>3. ASSUME NEW c \in Cpu, NEW d \in Nat, NEW p \in Nat, Arm(c, d, p)
      PROVE  TimersTypeOK' /\ AskedTypes'
  <2>1. PICK s \in Slot : Begun(c, s, d, p)
    BY Zenon, <1>1, <1>3, ArmWrites
  <2> QED
    BY Zenon, <1>1, <2>1 DEF Begun, ArmRecord, TimersTypeOK, AskedTypes
<1>4. ASSUME NEW c \in Cpu, NEW h \in Handle, TimerCancel(c, h)
      PROVE  TimersTypeOK' /\ AskedTypes'
  <2>1. active' \subseteq active /\ cancelled' \subseteq Handle
    BY Zenon, <1>1, <1>4, CancelWrites DEF Cancelled, TimersTypeOK
  <2>2. lapic' \in [Cpu -> Nat \cup {Off}]
    <3>1. active' \subseteq Slot
      BY Zenon, <1>1, <2>1 DEF TimersTypeOK
    <3>2. CASE ProgramNext(c, active', deadline)
      BY Zenon, <1>1, <3>1, <3>2, ProgramsAll DEF TimersTypeOK
    <3>3. CASE lapic' = lapic
      BY Zenon, <1>1, <3>3 DEF TimersTypeOK
    <3> QED
      BY Zenon, <1>1, <1>4, <3>2, <3>3, CancelWrites
  <2> QED
    BY Zenon, <1>1, <1>4, <2>1, <2>2, CancelWrites DEF TimersTypeOK, AskedTypes
<1>5. ASSUME NEW c \in Cpu, Handler(c)
      PROVE  TimersTypeOK' /\ AskedTypes'
  <2>1. lapic' \in [Cpu -> Nat \cup {Off}]
    BY Zenon, <1>1, <1>5, TimersTyped
  <2>2. CASE Move(c)
    <3>1. Moved(c, at[c])
      BY Zenon, <1>1, <2>2, MoveWrites
    <3>2. active' \subseteq active
      BY Zenon, <3>1 DEF Moved, OneShotDone
    <3>3. timer_pc' \in [Cpu -> {"thread", "scan", "due", "take", "period", "move", "callback"}]
      BY Zenon, <1>1, <3>1 DEF Moved, TimersTypeOK
    <3> QED
      BY Zenon, <1>1, <2>1, <3>1, <3>2, <3>3 DEF Moved, TimersTypeOK, AskedTypes
  <2>3. CASE Walks(c)
    BY Zenon, <1>1, <2>1, <2>3, WalkWrites DEF TimersTypeOK, AskedTypes, Places
  <2> QED
    BY Zenon, <1>5, <2>2, <2>3 DEF Handler, Walks
<1>6. ASSUME NEW c \in Cpu, ArmPeriod(c)
      PROVE  TimersTypeOK' /\ AskedTypes'
  BY Zenon, <1>1, <1>6, ArmPeriodWrites DEF ArmLeaves, Staged, ArmRecord, TimersTypeOK, AskedTypes
<1>7. ASSUME NEW c \in Cpu, ArmCallback(c)
      PROVE  TimersTypeOK' /\ AskedTypes'
  <2>1. next_handle \in Handle /\ next_handle' = next_handle + 1
    BY Zenon, <1>1, <1>7, ArmCallbackWrites
  <2>2. next_handle' \in 1..MaxHandle + 1 /\ next_handle # 0
    BY <2>1, TimersAssumption DEF Handle
  <2>3. \A u \in active' : handle'[u] # 0
    BY Zenon, <1>1, <1>7, <2>2, ArmCallbackWrites DEF TimersTypeOK
  <2> QED
    BY Zenon, <1>1, <1>7, <2>2, <2>3, ArmCallbackWrites DEF ArmLeaves, Staged, ArmRecord, TimersTypeOK, AskedTypes
<1>8. ASSUME NEW c \in Cpu, ArmActive(c)
      PROVE  TimersTypeOK' /\ AskedTypes'
  <2>1. arming.at = "active" /\ arming.slot \in Slot /\ active' = active \cup {arming.slot}
    BY Zenon, <1>1, <1>8, ArmActiveWrites
  <2>2. handle[arming.slot] \in Handle
    <3>1. "active" # "none"
      OBVIOUS
    <3> QED
      BY Zenon, <1>1, <2>1, <3>1 DEF ArmingInv
  <2>3. handle[arming.slot] # 0
    BY <2>2, TimersAssumption DEF Handle
  <2> QED
    BY Zenon, <1>1, <1>8, <2>1, <2>3, ArmActiveWrites DEF ArmLeaves, Staged, ArmRecord, TimersTypeOK, AskedTypes
<1>9. ASSUME NEW c \in Cpu, ArmProgram(c)
      PROVE  TimersTypeOK' /\ AskedTypes'
  <2>1. lapic' \in [Cpu -> Nat \cup {Off}]
    BY Zenon, <1>1, <1>9, ArmProgramWrites, ProgramsAll DEF TimersTypeOK
  <2> QED
    BY Zenon, <1>1, <1>9, <2>1, ArmProgramWrites DEF ArmLeaves, ArmRecord, TimersTypeOK, AskedTypes
<1> QED
  BY Zenon, <1>1, <1>2, <1>3, <1>4, <1>5, <1>6, <1>7, <1>8, <1>9, StepIs DEF ArmOn

\* A CPU that looks after the slot s.
Watches(c, s) ==
    \/ timer_pc[c] # "thread" \/ Arming(c) \/ c \in pending
    \/ lapic[c] # Off /\ lapic[c] <= Max({deadline[s], clock + MinDelay})

\* Whoever changes the table programs its own timer for all of it, and a handler has yet
\* to do so.
LEMMA ProgrammedKept ==
  ASSUME TimersInv, TimersNext
  PROVE  DeadlineProgrammed'
<1>1. TimersTypeOK /\ AskedTypes /\ PlaceInv /\ ArmingInv /\ setting \in Settings /\ DeadlineProgrammed
  BY Zenon DEF TimersInv, AskedTypes
<1>2. /\ TimersTypeOK' /\ clock \in Nat /\ lapic \in [Cpu -> Nat \cup {Off}] /\ active' \subseteq Slot
      /\ deadline' \in [Slot -> Nat]
  BY Zenon, <1>1, TimerTypesKept DEF TimersTypeOK
<1> SUFFICES ASSUME lapic_driven', NEW s \in active' PROVE \E c \in Cpu : Watches(c, s)'
  BY Zenon DEF DeadlineProgrammed, Watches
<1>3. ASSUME NEW c \in Cpu, ProgramNext(c, active', deadline'), lapic_driven, clock' = clock
      PROVE  Watches(c, s)'
  BY Zenon, <1>2, <1>3, ProgramsAll DEF Watches
<1>4. CASE ClockTick
  <2>1. s \in active /\ lapic_driven
    BY Zenon, <1>1, <1>4, TickWrites
  <2>2. PICK c \in Cpu : Watches(c, s)
    BY Zenon, <1>1, <2>1 DEF DeadlineProgrammed, Watches
  <2>3. CASE timer_pc[c] # "thread" \/ Arming(c) \/ c \in pending \/ c \in pending'
    BY Zenon, <1>1, <1>4, <2>3, TickWrites DEF Watches, Arming
  <2>4. CASE c \notin pending' /\ lapic[c] # Off /\ lapic[c] <= Max({deadline[s], clock + MinDelay})
    <3>1. lapic'[c] = lapic[c] /\ deadline'[s] = deadline[s] /\ clock' = clock + 1
      BY Zenon, <1>1, <1>4, <2>1, <2>4, TickWrites
    <3>2. deadline[s] \in Nat /\ clock \in Nat /\ lapic[c] \in Nat \cup {Off} /\ MinDelay \in Nat
      BY Zenon, <1>1, <2>1, TimersAssumption DEF TimersTypeOK
    <3> DEFINE x == Max({deadline[s], clock + MinDelay})
               y == Max({deadline[s], clock + 1 + MinDelay})
    <3>3. deadline[s] \in Int /\ clock + MinDelay \in Int /\ clock + 1 + MinDelay \in Int
      BY <3>2
    <3>4. /\ x \in {deadline[s], clock + MinDelay}
          /\ y \in {deadline[s], clock + 1 + MinDelay} /\ y >= deadline[s] /\ y >= clock + 1 + MinDelay
      BY Zenon, <3>3, OfTwo
    <3> HIDE DEF x, y
    <3>5. lapic[c] <= x => lapic[c] <= y
      BY <2>4, <3>2, <3>4
    <3>6. lapic'[c] <= Max({deadline'[s], clock' + MinDelay})
      BY Zenon, <2>4, <3>1, <3>5 DEF x, y
    <3> QED
      BY Zenon, <2>4, <3>1, <3>6 DEF Watches
  <2> QED
    BY Zenon, <2>2, <2>3, <2>4 DEF Watches
<1>5. ASSUME NEW c \in Cpu, Arming(c)' PROVE \E e \in Cpu : Watches(e, s)'
  BY Zenon, <1>5 DEF Watches
<1>6. ASSUME NEW c \in Cpu, NEW d \in Nat, NEW p \in Nat, Arm(c, d, p)
      PROVE  Arming(c)'
  <2>1. PICK u \in Slot : Begun(c, u, d, p)
    BY Zenon, <1>1, <1>6, ArmWrites
  <2>2. "period" # "none"
    OBVIOUS
  <2> QED
    BY Zenon, <2>1, <2>2 DEF Begun, Arming
<1>7. ASSUME NEW c \in Cpu, ArmPeriod(c) \/ ArmCallback(c) \/ ArmActive(c)
      PROVE  Arming(c)'
  <2>1. "callback" # "none" /\ "active" # "none" /\ "program" # "none"
    OBVIOUS
  <2> QED
    BY Zenon, <1>1, <1>7, <2>1, ArmPeriodWrites, ArmCallbackWrites, ArmActiveWrites DEF Staged, Arming
<1>8. ASSUME NEW c \in Cpu, ArmProgram(c)
      PROVE  \E e \in Cpu : Watches(e, s)'
  <2>1. ProgramNext(c, active, deadline) /\ UNCHANGED <<active, deadline, lapic_driven, clock>>
    BY Zenon, <1>1, <1>8, ArmProgramWrites DEF ArmLeaves
  <2>2. ProgramNext(c, active', deadline') /\ lapic_driven /\ clock' = clock
    BY Zenon, <2>1
  <2> QED
    BY Zenon, <1>3, <2>2
<1>9. ASSUME NEW c \in Cpu, NEW h \in Handle, TimerCancel(c, h)
      PROVE  \E e \in Cpu : Watches(e, s)'
  <2>1. /\ ProgramNext(c, active', deadline) \/ (active' = active /\ lapic' = lapic)
        /\ deadline' = deadline /\ lapic_driven /\ clock' = clock /\ timer_pc' = timer_pc /\ pending' = pending
        /\ arming' = arming
    BY Zenon, <1>1, <1>9, CancelWrites
  <2>2. CASE ProgramNext(c, active', deadline)
    BY Zenon, <1>3, <2>1, <2>2
  <2>3. CASE active' = active /\ lapic' = lapic
    BY Zenon, <1>1, <2>1, <2>3 DEF DeadlineProgrammed, Watches, Arming
  <2> QED
    BY Zenon, <2>1, <2>2, <2>3
<1>10. ASSUME NEW c \in Cpu, Handler(c)
       PROVE  \E e \in Cpu : Watches(e, s)'
  <2>1. CASE Finish(c)
    <3>1. ProgramNext(c, active, deadline) /\ UNCHANGED <<active, deadline, lapic_driven, clock>>
      BY Zenon, <2>1 DEF Finish, table
    <3>2. ProgramNext(c, active', deadline') /\ lapic_driven /\ clock' = clock
      BY Zenon, <3>1
    <3> QED
      BY Zenon, <1>3, <3>2
  <2>2. CASE Interrupt(c) \/ InSlot(c) \/ Move(c)
    <3>1. timer_pc'[c] # "thread"
      BY Zenon, <1>1, <2>2 DEF InSlot, Interrupt, Scan, TestDeadline, Take, TestPeriod, Return, Move, NextSlot,
                               TimersTypeOK
    <3> QED
      BY Zenon, <3>1 DEF Watches
  <2> QED
    BY Zenon, <1>10, <2>1, <2>2 DEF Handler
<1> QED
  BY Zenon, <1>1, <1>4, <1>5, <1>6, <1>7, <1>8, <1>9, <1>10, StepIs DEF ArmOn
\* What is true of two numbers stays true when one of them grows by one.
LEMMA OneMore ==
  ASSUME NEW a \in Nat, NEW b \in Nat
  PROVE  /\ a <= a /\ a < a + 1 /\ (a < b => a # b /\ a < b + 1 /\ ~(a >= b))
         /\ (a <= b => a <= b + 1) /\ (a >= b + 1 => a >= b /\ a # b)
OBVIOUS

\* The fields of a request.
LEMMA RequestFields ==
  ASSUME NEW r \in Request
  PROVE  r.from \in Nat /\ r.delay \in Nat /\ r.period \in Nat
BY DEF Request

\* The slot a handler is at keeps a handle, and its sample is not ahead of the clock.
LEMMA PlaceKept ==
  ASSUME TimersInv, TimersNext
  PROVE  PlaceInv'
<1>1. TimersTypeOK /\ AskedTypes /\ PlaceInv /\ HandleInv /\ ArmingInv /\ setting \in Settings
  BY Zenon DEF TimersInv, AskedTypes
<1>2. /\ clock \in Nat /\ clock <= clock /\ \A c \in Cpu : now[c] \in Nat /\ now[c] <= clock
      /\ next_handle \in Nat /\ \A h \in Handle : h \in Nat
  <2>1. next_handle \in Nat /\ \A h \in Handle : h \in Nat
    BY <1>1 DEF TimersTypeOK, Handle
  <2> QED
    BY Zenon, <1>1, <2>1, OneMore DEF TimersTypeOK, PlaceInv
<1>3. CASE ClockTick
  <2>1. \A c \in Cpu : now[c] <= clock + 1
    BY Zenon, <1>2, OneMore
  <2> QED
    BY Zenon, <1>1, <1>3, <2>1, TickWrites DEF PlaceInv
<1>4. ASSUME NEW c \in Cpu, NEW d \in Nat, NEW p \in Nat, Arm(c, d, p)
      PROVE  PlaceInv'
  <2>1. PICK s \in Slot : Begun(c, s, d, p)
    BY Zenon, <1>1, <1>4, ArmWrites
  <2> QED
    BY Zenon, <1>1, <2>1 DEF Begun, PlaceInv
<1>5. ASSUME NEW c \in Cpu, NEW h \in Handle, TimerCancel(c, h)
      PROVE  PlaceInv'
  BY Zenon, <1>1, <1>5, CancelWrites DEF PlaceInv
<1>6. ASSUME NEW c \in Cpu, ArmPeriod(c) \/ ArmActive(c) \/ ArmProgram(c)
      PROVE  PlaceInv'
  BY Zenon, <1>1, <1>6, ArmPeriodWrites, ArmActiveWrites, ArmProgramWrites DEF ArmLeaves, PlaceInv
<1>7. ASSUME NEW c \in Cpu, ArmCallback(c)
      PROVE  PlaceInv'
  <2>1. /\ next_handle \in Handle /\ next_handle' = next_handle + 1 /\ ArmLeaves
        /\ \A u \in Slot : handle'[u] = handle[u] \/ handle'[u] = next_handle
    BY Zenon, <1>1, <1>7, ArmCallbackWrites
  <2>2. \A h \in Handle : h < next_handle => h < next_handle + 1
    BY Zenon, <1>2, OneMore
  <2> QED
    BY Zenon, <1>1, <2>1, <2>2 DEF ArmLeaves, PlaceInv
<1>8. ASSUME NEW c \in Cpu, Handler(c)
      PROVE  PlaceInv'
  <2>1. CASE Move(c)
    <3>1. Moved(c, at[c])
      BY Zenon, <1>1, <2>1, MoveWrites
    <3>2. timer_pc'[c] = "callback" /\ \A e \in Cpu \ {c} : timer_pc'[e] = timer_pc[e] /\ called'[e] = called[e]
      BY Zenon, <1>1, <3>1 DEF Moved, TimersTypeOK
    <3>3. at[c] \in Slot /\ handle[at[c]] \in Handle /\ "callback" \notin {"period", "move"}
      BY Zenon, <1>1, <3>1 DEF Moved, PlaceInv
    <3>4. UNCHANGED <<handle, next_handle, clock, now, at>>
      BY Zenon, <3>1 DEF Moved
    <3> QED
      BY Zenon, <1>1, <3>2, <3>3, <3>4 DEF PlaceInv
  <2>2. CASE Walks(c)
    <3>1. at[c] \in active => handle[at[c]] \in Handle
      BY Zenon, <1>1 DEF TimersTypeOK
    <3>2. now'[c] <= clock
      BY Zenon, <1>1, <1>2, <2>2, WalkWrites
    <3>3. ReadOn(c) /\ timer_pc'[c] # "callback" /\ UNCHANGED <<handle, next_handle, clock>>
      BY Zenon, <1>1, <2>2, WalkWrites
    <3>4. timer_pc'[c] \in {"due", "take", "period", "move"} => at'[c] \in Slot /\ handle[at'[c]] \in Handle
      <4>1. CASE timer_pc'[c] = "due"
        BY Zenon, <3>1, <3>3, <4>1 DEF ReadOn
      <4>2. CASE timer_pc'[c] \in {"take", "period", "move"}
        BY Zenon, <1>1, <3>3, <4>2 DEF ReadOn, PlaceInv
      <4> QED
        BY Zenon, <4>1, <4>2
    <3>5. timer_pc'[c] \in {"period", "move"} => called'[c] \in Handle /\ called'[c] < next_handle
      <4>1. CASE timer_pc'[c] = "period"
        BY Zenon, <1>1, <3>3, <4>1 DEF ReadOn, PlaceInv, HandleInv
      <4>2. CASE timer_pc'[c] = "move"
        BY Zenon, <1>1, <3>3, <4>2 DEF ReadOn, PlaceInv
      <4> QED
        BY Zenon, <4>1, <4>2
    <3>6. ASSUME NEW e \in Cpu \ {c}
          PROVE  timer_pc'[e] = timer_pc[e] /\ now'[e] = now[e] /\ at'[e] = at[e] /\ called'[e] = called[e]
      BY Zenon, <1>1, <2>2, WalkWrites
    <3> QED
      BY Zenon, <1>1, <3>2, <3>3, <3>4, <3>5, <3>6 DEF PlaceInv
  <2> QED
    BY Zenon, <1>8, <2>1, <2>2 DEF Handler, Walks
<1> QED
  BY Zenon, <1>1, <1>3, <1>4, <1>5, <1>6, <1>7, <1>8, StepIs DEF ArmOn

\* next_handle only grows, so that a handle is given once.
LEMMA HandleKept ==
  ASSUME TimersInv, TimersNext
  PROVE  HandleInv'
<1>1. /\ TimersTypeOK /\ AskedTypes /\ PlaceInv /\ setting \in Settings /\ HandleInv /\ ArmingInv
      /\ clock \in Nat /\ next_handle \in Nat /\ \A s \in Slot : handle[s] \in Nat
      /\ Handle \subseteq Nat /\ cancelled \subseteq Nat /\ active \subseteq Slot
  <2>1. TimersTypeOK /\ AskedTypes /\ PlaceInv /\ setting \in Settings /\ HandleInv /\ ArmingInv
    BY Zenon DEF TimersInv, AskedTypes
  <2>2. Handle \subseteq Nat /\ 0 \in Nat /\ 1..MaxHandle + 1 \subseteq Nat
    BY TimersAssumption DEF Handle
  <2> QED
    BY Zenon, <2>1, <2>2 DEF TimersTypeOK
<1>2. \A h \in Handle : asked[h].from \in Nat /\ asked[h].from <= clock
  BY Zenon, <1>1, RequestFields DEF AskedTypes, HandleInv
<1>3. CASE ClockTick
  <2>1. \A h \in Handle : asked[h].from <= clock + 1
    BY Zenon, <1>1, <1>2, OneMore
  <2>2. clock' = clock + 1 /\ UNCHANGED <<active, handle, next_handle, period, asked, fired, cancelled>>
    BY Zenon, <1>1, <1>3, TickWrites
  <2>3. HandleInv
    BY Zenon, <1>1
  <2> QED
    BY Zenon, <2>1, <2>2, <2>3 DEF HandleInv
<1>4. ASSUME NEW c \in Cpu, NEW d \in Nat, NEW p \in Nat, Arm(c, d, p)
      PROVE  HandleInv'
  <2>1. PICK s \in Slot : Begun(c, s, d, p)
    BY Zenon, <1>1, <1>4, ArmWrites
  <2>2. UNCHANGED <<active, handle, next_handle, period, asked, fired, cancelled, clock>>
    BY Zenon, <2>1 DEF Begun
  <2>3. HandleInv
    BY Zenon, <1>1
  <2> QED
    BY Zenon, <2>2, <2>3 DEF HandleInv
<1>5. ASSUME NEW c \in Cpu, NEW h \in Handle, TimerCancel(c, h)
      PROVE  HandleInv'
  <2>1. /\ active' \subseteq active /\ cancelled' = cancelled \cup {h} /\ h < next_handle
        /\ UNCHANGED <<handle, next_handle, period, asked, fired, clock>>
    BY Zenon, <1>1, <1>5, CancelWrites DEF Cancelled
  <2>2. HandleInv
    BY Zenon, <1>1
  <2> QED
    BY Zenon, <2>1, <2>2 DEF HandleInv
<1>6. ASSUME NEW c \in Cpu, Handler(c)
      PROVE  HandleInv'
  <2>1. CASE Move(c)
    <3>1. Moved(c, at[c])
      BY Zenon, <1>1, <2>1, MoveWrites
    <3>2. ~(called[c] >= next_handle)
      BY Zenon, <1>1, <3>1, OneMore DEF Moved, PlaceInv
    <3>3. \A h \in Handle : h >= next_handle => fired'[h] = fired[h]
      BY Zenon, <3>1, <3>2 DEF Moved
    <3>4. active' \subseteq active /\ UNCHANGED <<handle, next_handle, period, asked, cancelled, clock>>
      BY Zenon, <3>1 DEF Moved, OneShotDone
    <3>5. HandleInv
      BY Zenon, <1>1
    <3> QED
      BY Zenon, <3>3, <3>4, <3>5 DEF HandleInv
  <2>2. CASE Walks(c)
    <3>1. UNCHANGED <<active, handle, next_handle, period, asked, fired, cancelled, clock>>
      BY Zenon, <1>1, <2>2, WalkWrites
    <3>2. HandleInv
      BY Zenon, <1>1
    <3> QED
      BY Zenon, <3>1, <3>2 DEF HandleInv
  <2> QED
    BY Zenon, <1>6, <2>1, <2>2 DEF Handler, Walks
<1>7. ASSUME NEW c \in Cpu, ArmPeriod(c)
      PROVE  HandleInv'
  <2>1. /\ arming.at = "period" /\ arming.slot \in Slot
        /\ \A u \in Slot \ {arming.slot} : period'[u] = period[u]
        /\ UNCHANGED <<active, handle, next_handle, asked, fired, cancelled, clock>>
    BY Zenon, <1>1, <1>7, ArmPeriodWrites DEF ArmLeaves
  <2>2. arming.slot \notin active
    <3>1. "period" # "none" /\ "period" # "program"
      OBVIOUS
    <3> QED
      BY Zenon, <1>1, <2>1, <3>1 DEF ArmingInv
  <2>3. \A u \in active : period'[u] = period[u]
    BY Zenon, <1>1, <2>1, <2>2
  <2>4. HandleInv
    BY Zenon, <1>1
  <2> QED
    BY Zenon, <2>1, <2>3, <2>4 DEF HandleInv
<1>8. ASSUME NEW c \in Cpu, ArmActive(c)
      PROVE  HandleInv'
  <2>1. /\ arming.at = "active" /\ active' = active \cup {arming.slot}
        /\ UNCHANGED <<handle, period, next_handle, asked, fired, cancelled, clock>>
    BY Zenon, <1>1, <1>8, ArmActiveWrites DEF ArmLeaves
  <2>2. period[arming.slot] = asked[handle[arming.slot]].period
    <3>1. "active" # "none"
      OBVIOUS
    <3> QED
      BY Zenon, <1>1, <2>1, <3>1 DEF ArmingInv
  <2>3. HandleInv
    BY Zenon, <1>1
  <2> QED
    BY Zenon, <2>1, <2>2, <2>3 DEF HandleInv
<1>9. ASSUME NEW c \in Cpu, ArmProgram(c)
      PROVE  HandleInv'
  <2>1. UNCHANGED <<active, handle, next_handle, period, asked, fired, cancelled, clock>>
    BY Zenon, <1>1, <1>9, ArmProgramWrites DEF ArmLeaves
  <2>2. HandleInv
    BY Zenon, <1>1
  <2> QED
    BY Zenon, <2>1, <2>2 DEF HandleInv
<1>10. ASSUME NEW c \in Cpu, ArmCallback(c)
       PROVE  HandleInv'
  <2>0. PICK s, h0 : s = arming.slot /\ h0 = next_handle
    BY Zenon
  <2>1. /\ s \in Slot /\ h0 \in Handle /\ next_handle' = h0 + 1 /\ handle'[s] = h0
        /\ \A u \in Slot \ {s} : handle'[u] = handle[u]
        /\ asked'[h0].from = arming.from /\ \A h \in Handle \ {h0} : asked'[h] = asked[h]
        /\ arming.at = "callback"
        /\ UNCHANGED <<active, period, fired, cancelled, clock>>
    BY Zenon, <1>1, <1>10, <2>0, ArmCallbackWrites DEF ArmLeaves
  <2>2. arming.from <= clock /\ s \notin active
    <3>1. "callback" # "none" /\ "callback" # "program"
      OBVIOUS
    <3> QED
      BY Zenon, <1>1, <2>0, <2>1, <3>1 DEF ArmingInv
  <2>3. h0 < h0 + 1 /\ \A u \in Slot \ {s} : handle'[u] < h0 + 1 /\ handle'[u] # h0
    <3>1. h0 \in Nat /\ \A u \in Slot : handle[u] \in Nat /\ handle[u] < h0
      BY Zenon, <1>1, <2>0 DEF HandleInv
    <3>2. h0 < h0 + 1 /\ \A u \in Slot : handle[u] < h0 + 1 /\ handle[u] # h0
      BY Zenon, <3>1, OneMore
    <3> QED
      BY Zenon, <2>1, <3>2
  <2>4. \A u \in Slot : handle'[u] < next_handle'
    BY Zenon, <2>1, <2>3
  <2>5. ASSUME NEW u \in Slot, NEW v \in Slot, handle'[u] = handle'[v], handle'[u] # 0
        PROVE  u = v
    <3>1. \A w, x \in Slot : handle[w] = handle[x] /\ handle[w] # 0 => w = x
      BY Zenon, <1>1 DEF HandleInv
    <3>2. CASE u = s \/ v = s
      BY Zenon, <2>1, <2>3, <2>5, <3>2
    <3>3. CASE u # s /\ v # s
      BY Zenon, <2>1, <2>5, <3>1, <3>3
    <3> QED
      BY Zenon, <3>2, <3>3
  <2>6. ASSUME NEW u \in active
        PROVE  period'[u] = asked'[handle'[u]].period
    <3>1. u # s /\ u \in Slot /\ handle[u] # 0
      BY Zenon, <1>1, <2>2 DEF TimersTypeOK
    <3>2. handle'[u] = handle[u] /\ handle[u] \in Handle \ {h0} /\ period'[u] = period[u]
      BY Zenon, <1>1, <2>1, <2>3, <3>1 DEF TimersTypeOK
    <3>3. asked'[handle[u]] = asked[handle[u]] /\ period[u] = asked[handle[u]].period
      BY Zenon, <1>1, <2>1, <3>2 DEF HandleInv
    <3> QED
      BY Zenon, <3>2, <3>3
  <2>7. \A h \in cancelled : h < h0 + 1
    BY Zenon, <1>1, <2>0, OneMore DEF HandleInv
  <2>8. ASSUME NEW h \in Handle, h >= h0 + 1
        PROVE  fired[h] = 0 /\ asked'[h].period = 0
    <3>1. h >= h0 /\ h # h0
      BY Zenon, <1>1, <2>0, <2>8, OneMore
    <3> QED
      BY Zenon, <1>1, <2>0, <2>1, <3>1 DEF HandleInv
  <2>9. ASSUME NEW h \in Handle
        PROVE  asked'[h].from <= clock
    BY Zenon, <1>2, <2>1, <2>2
  <2> QED
    BY Zenon, <2>1, <2>4, <2>5, <2>6, <2>7, <2>8, <2>9 DEF HandleInv
<1> QED
  BY Zenon, <1>1, <1>3, <1>4, <1>5, <1>6, <1>7, <1>8, <1>9, <1>10, StepIs DEF ArmOn

\* The lock keeps the slot being armed for its caller, whose CPU takes no interrupt.
LEMMA ArmingKept ==
  ASSUME TimersInv, TimersNext
  PROVE  ArmingInv'
<1>1. /\ TimersTypeOK /\ AskedTypes /\ PlaceInv /\ setting \in Settings /\ HandleInv /\ ArmingInv
      /\ clock \in Nat /\ arming \in ArmRecord
  BY Zenon DEF TimersInv, AskedTypes, TimersTypeOK, ArmRecord
<1>2. arming.cpu \in Cpu /\ arming.slot \in Slot /\ arming.from \in Nat
  BY Zenon, <1>1, ArmFields
<1>3. CASE ClockTick
  <2>1. clock' = clock + 1 /\ UNCHANGED <<active, handle, next_handle, period, asked, arming, timer_pc>>
    BY Zenon, <1>1, <1>3, TickWrites
  <2>2. arming.from <= clock => arming.from <= clock + 1
    BY Zenon, <1>1, <1>2, OneMore
  <2> QED
    BY Zenon, <1>1, <2>1, <2>2 DEF ArmingInv
<1>4. ASSUME NEW c \in Cpu, NEW d \in Nat, NEW p \in Nat, p = 0 \/ p = d, Arm(c, d, p)
      PROVE  ArmingInv'
  <2>1. PICK s \in Slot : Begun(c, s, d, p)
    BY Zenon, <1>1, <1>4, ArmWrites
  <2>2. clock <= clock
    BY Zenon, <1>1, OneMore
  <2>3. "period" # "callback" /\ "period" # "active"
    OBVIOUS
  <2> QED
    BY Zenon, <1>4, <2>1, <2>2, <2>3 DEF Begun, MayCall, ArmingInv
<1>5. ASSUME NEW c \in Cpu, NEW h \in Handle, TimerCancel(c, h)
      PROVE  ArmingInv'
  BY Zenon, <1>1, <1>5, CancelWrites DEF MayCall, ArmingInv
<1>6. ASSUME NEW c \in Cpu, Handler(c)
      PROVE  ArmingInv'
  <2>1. CASE Move(c)
    <3>1. Moved(c, at[c])
      BY Zenon, <1>1, <2>1, MoveWrites
    <3>2. active' \subseteq active /\ UNCHANGED <<arming, clock, handle, next_handle, period, asked>>
      BY Zenon, <3>1 DEF Moved, OneShotDone
    <3>3. \A e \in Cpu : timer_pc[e] \in {"thread", "callback"} => timer_pc'[e] = timer_pc[e]
      BY Zenon, <1>1, <3>1 DEF Moved, TimersTypeOK
    <3> QED
      BY Zenon, <1>1, <1>2, <3>2, <3>3 DEF ArmingInv
  <2>2. CASE Walks(c)
    <3>1. /\ UNCHANGED <<active, arming, clock, handle, next_handle, period, asked>> /\ ~Arming(c)
          /\ \A e \in Cpu \ {c} : timer_pc'[e] = timer_pc[e]
      BY Zenon, <1>1, <2>2, WalkWrites
    <3> QED
      BY Zenon, <1>1, <1>2, <3>1 DEF ArmingInv, Arming
  <2> QED
    BY Zenon, <1>6, <2>1, <2>2 DEF Handler, Walks
<1>7. ASSUME NEW c \in Cpu, ArmPeriod(c)
      PROVE  ArmingInv'
  <2>1. /\ arming.at = "period" /\ Staged("callback") /\ period'[arming.slot] = arming.period
        /\ UNCHANGED <<active, handle, next_handle, clock, timer_pc>>
    BY Zenon, <1>1, <1>7, ArmPeriodWrites DEF ArmLeaves
  <2>2. "period" # "none" /\ "period" # "program" /\ "callback" # "active"
    OBVIOUS
  <2>3. /\ timer_pc[arming.cpu] \in {"thread", "callback"} /\ arming.from <= clock /\ arming.slot \notin active
        /\ arming.period = 0 \/ arming.period = arming.delay
        /\ next_handle \in Handle
    BY Zenon, <1>1, <2>1, <2>2 DEF ArmingInv
  <2> QED
    BY Zenon, <2>1, <2>2, <2>3 DEF ArmingInv, Staged
<1>8. ASSUME NEW c \in Cpu, ArmCallback(c)
      PROVE  ArmingInv'
  <2>0. PICK s, h0 : s = arming.slot /\ h0 = next_handle
    BY Zenon
  <2>1. /\ arming.at = "callback" /\ Staged("active") /\ handle'[s] = h0 /\ h0 \in Handle
        /\ asked'[h0].period = arming.period
        /\ UNCHANGED <<active, period, clock, timer_pc>>
    BY Zenon, <1>1, <1>8, <2>0, ArmCallbackWrites DEF ArmLeaves
  <2>2. "callback" # "none" /\ "callback" # "program" /\ "active" \notin {"period", "callback"} /\ "active" # "callback"
    OBVIOUS
  <2>3. /\ timer_pc[arming.cpu] \in {"thread", "callback"} /\ arming.from <= clock /\ arming.slot \notin active
        /\ arming.period = 0 \/ arming.period = arming.delay
        /\ period[s] = arming.period
    BY Zenon, <1>1, <2>0, <2>1, <2>2 DEF ArmingInv
  <2>4. /\ arming'.at = "active" /\ arming'.cpu = arming.cpu /\ arming'.slot = s /\ arming'.from = arming.from
        /\ arming'.period = arming.period /\ arming'.delay = arming.delay
    BY Zenon, <2>0, <2>1 DEF Staged
  <2>5. handle'[arming'.slot] \in Handle /\ period'[arming'.slot] = asked'[handle'[arming'.slot]].period
    BY Zenon, <2>1, <2>3, <2>4
  <2> QED
    BY Zenon, <2>0, <2>1, <2>2, <2>3, <2>4, <2>5 DEF ArmingInv
<1>9. ASSUME NEW c \in Cpu, ArmActive(c)
      PROVE  ArmingInv'
  <2>1. arming.at = "active" /\ Staged("program") /\ UNCHANGED <<clock, timer_pc>>
    BY Zenon, <1>1, <1>9, ArmActiveWrites DEF ArmLeaves
  <2>2. "active" # "none" /\ "program" \notin {"period", "callback"} /\ "program" # "callback" /\ "program" # "active"
    OBVIOUS
  <2>3. /\ timer_pc[arming.cpu] \in {"thread", "callback"} /\ arming.from <= clock
        /\ arming.period = 0 \/ arming.period = arming.delay
    BY Zenon, <1>1, <2>1, <2>2 DEF ArmingInv
  <2> QED
    BY Zenon, <2>1, <2>2, <2>3 DEF ArmingInv, Staged
<1>10. ASSUME NEW c \in Cpu, ArmProgram(c)
       PROVE  ArmingInv'
  BY Zenon, <1>1, <1>10, ArmProgramWrites DEF ArmingInv
<1> QED
  BY Zenon, <1>1, <1>3, <1>4, <1>5, <1>6, <1>7, <1>8, <1>9, <1>10, StepIs DEF ArmOn
----------------------------------------------------------------------------
(* What holds on a single CPU                                               *)

\* A timer just armed is not due before what was asked, and has counted nothing.
LEMMA NoneYet ==
  ASSUME NEW t \in Nat, NEW d \in Nat, NEW p \in Nat, NEW k \in Nat, t <= k, p = 0 \/ p = d
  PROVE  t + d >= t + d /\ t + d >= t + 0 * p + p /\ 0 * p <= k - t /\ 0 <= 1
OBVIOUS

\* A count that has not passed the clock does not when the clock moves on.
LEMMA Later ==
  ASSUME NEW a \in Int, NEW t \in Nat, NEW from \in Nat, a <= t - from
  PROVE  a <= (t + 1) - from
OBVIOUS

\* Leaving the slot s on a single CPU: it is due, and its count is right after it.
LEMMA MoveIsDue ==
  ASSUME TimersTypeOK, AskedTypes, PlaceInv, HandleInv, AloneAll, Move(BootCpu),
         NEW s, s = at[BootCpu], NEW h, h = handle[s]
  PROVE  /\ Moved(BootCpu, s) /\ called[BootCpu] = h /\ s \in active /\ h \notin cancelled
         /\ clock >= asked[h].from + asked[h].delay
         /\ Counted(h)' /\ (s \in active' => SlotSound(s, h)')
<1> DEFINE p == period[s]
           r == asked[h]
           n == now[BootCpu]
<1>0. BootCpu \in Cpu
  BY Zenon, TimersAssumption
<1>1. Moved(BootCpu, s)
  BY Zenon, <1>0, MoveWrites
<1>2. /\ s \in active /\ s \in Slot /\ h \in Handle /\ deadline[s] <= n /\ n <= clock
      /\ called[BootCpu] = h /\ interval[BootCpu] = p
  BY Zenon, <1>0, <1>1 DEF Moved, AloneAll, TakeInv, PlaceInv
<1>3. SlotSound(s, h) /\ r.period = p
  BY Zenon, <1>2 DEF AloneAll, HandleInv
<1>4. /\ p \in Nat /\ n \in Nat /\ deadline[s] \in Nat /\ fired[h] \in Nat /\ clock \in Nat
      /\ r.from \in Nat /\ r.delay \in Nat
  BY Zenon, <1>0, <1>2, RequestFields DEF TimersTypeOK, AskedTypes
<1>5. deadline[s] >= r.from + r.delay /\ deadline[s] >= r.from + fired[h] * p + p
  BY Zenon, <1>3 DEF SlotSound
<1>6. /\ (fired[h] + 1) * p <= clock - r.from /\ clock >= r.from + r.delay
      /\ n + p >= r.from + r.delay /\ n + p >= r.from + (fired[h] + 1) * p + p
  <2> DEFINE f == fired[h]
             q == f * p
             from == r.from
             delay == r.delay
             when == deadline[s]
  <2>1. (f + 1) * p = q + p /\ q \in Nat
    <3> HIDE DEF f, p
    <3>1. f \in Nat /\ p \in Nat
      BY Zenon, <1>4 DEF f, p
    <3> QED
      BY <3>1
  <2>2. /\ q \in Nat /\ p \in Nat /\ n \in Nat /\ when \in Nat /\ clock \in Nat /\ from \in Nat /\ delay \in Nat
        /\ when >= from + delay /\ when >= from + q + p /\ when <= n /\ n <= clock
    BY Zenon, <1>2, <1>4, <1>5, <2>1
  <2> HIDE DEF q, when, from, delay, n, p
  <2>3. q + p <= clock - from /\ clock >= from + delay /\ n + p >= from + delay /\ n + p >= from + (q + p) + p
    BY <2>2
  <2> QED
    BY Zenon, <2>1, <2>3 DEF from, delay
<1>7. /\ handle' = handle /\ period' = period /\ asked' = asked /\ clock' = clock /\ now' = now
      /\ cancelled' = cancelled /\ at' = at /\ fired'[h] = fired[h] + 1
      /\ deadline'[s] = NextDeadline(BootCpu, s) /\ active' = OneShotDone(BootCpu, s)
  BY Zenon, <1>1, <1>2 DEF Moved
<1>8. Counted(h)'
  <2>1. p = 0 => fired[h] + 1 <= 1
    <3>1. p = 0 => fired[h] = 0
      BY Zenon, <1>3 DEF SlotSound
    <3> QED
      BY <3>1
  <2> QED
    BY Zenon, <1>3, <1>6, <1>7, <2>1 DEF Counted
<1>9. ASSUME s \in active' PROVE SlotSound(s, h)'
  <2>1. p # 0
    BY Zenon, <1>2, <1>7, <1>9 DEF OneShotDone
  <2>2. deadline'[s] = n + p
    BY Zenon, <1>2, <1>7, <2>1 DEF NextDeadline
  <2>3. h \notin cancelled
    BY Zenon, <1>3 DEF SlotSound
  <2> QED
    BY Zenon, <1>6, <1>7, <2>1, <2>2, <2>3 DEF SlotSound
<1> QED
  BY Zenon, <1>1, <1>2, <1>3, <1>6, <1>8, <1>9 DEF SlotSound
\* A single CPU runs its handler to the end of a slot before anyone changes the table.
LEMMA AloneKept ==
  ASSUME TimersInv, TimersNext, Alone
  PROVE  AloneAll'
<1>1. TimersTypeOK /\ AskedTypes /\ PlaceInv /\ HandleInv /\ ArmingInv /\ setting \in Settings /\ AloneAll
  BY Zenon DEF TimersInv, AskedTypes
<1>2. BootCpu \in Cpu /\ setting.cpus = {BootCpu}
  BY Zenon, TimersAssumption DEF Alone
<1>3. arming \in ArmRecord /\ arming.slot \in Slot /\ arming.cpu \in Cpu
  BY Zenon, <1>1, ArmFields DEF TimersTypeOK, ArmRecord
\* A CPU that calls is not inside a slot.
<1>4. ASSUME timer_pc'[BootCpu] \in {"thread", "callback"} PROVE TakeInv'
  <2>1. /\ timer_pc'[BootCpu] \notin {"due", "take", "period", "move"}
        /\ timer_pc'[BootCpu] \notin {"take", "period", "move"}
        /\ timer_pc'[BootCpu] \notin {"period", "move"} /\ timer_pc'[BootCpu] # "move"
    BY Zenon, <1>4
  <2> QED
    BY Zenon, <2>1 DEF TakeInv
<1>5. CASE ClockTick
  <2>1. /\ clock' = clock + 1
        /\ UNCHANGED <<active, deadline, period, handle, arming, timer_pc, now, at, called, interval, asked, fired,
                       cancelled>>
    BY Zenon, <1>1, <1>5, TickWrites
  <2>2. \A s \in active' : SlotSound(s, handle[s])'
    BY Zenon, <1>1, <2>1 DEF AloneAll, SlotSound
  <2>3. ASSUME NEW h \in Handle PROVE Counted(h)'
    <3>1. Counted(h) /\ fired[h] \in Nat /\ asked[h].period \in Nat /\ asked[h].from \in Nat /\ clock \in Nat
      BY Zenon, <1>1, RequestFields DEF AloneAll, TimersTypeOK, AskedTypes
    <3>2. fired[h] * asked[h].period \in Int
      BY <3>1
    <3>3. fired[h] * asked[h].period <= (clock + 1) - asked[h].from
      BY Zenon, <3>1, <3>2, Later DEF Counted
    <3> QED
      BY Zenon, <2>1, <3>1, <3>3 DEF Counted
  <2>4. TakeInv' /\ ArmedInv'
    BY Zenon, <1>1, <2>1 DEF AloneAll, TakeInv, ArmedInv, SlotSound
  <2> QED
    BY Zenon, <2>2, <2>3, <2>4 DEF AloneAll
<1>6. ASSUME NEW d \in Nat, NEW p \in Nat, Arm(BootCpu, d, p)
      PROVE  AloneAll'
  <2>1. PICK s \in Slot : Begun(BootCpu, s, d, p)
    BY Zenon, <1>1, <1>2, <1>6, ArmWrites
  <2>2. TakeInv'
    BY Zenon, <1>4, <2>1 DEF Begun, MayCall
  <2>3. ASSUME NEW u \in active PROVE SlotSound(u, handle[u])'
    <3>1. /\ deadline'[u] = deadline[u]
          /\ UNCHANGED <<active, period, handle, asked, fired, cancelled>>
      BY Zenon, <1>1, <2>1 DEF Begun, TimersTypeOK
    <3>2. SlotSound(u, handle[u])
      BY Zenon, <1>1 DEF AloneAll
    <3> QED
      BY Zenon, <3>1, <3>2 DEF SlotSound
  <2>4. ArmedInv'
    <3>1. "period" # "active"
      OBVIOUS
    <3> QED
      BY Zenon, <2>1, <3>1 DEF Begun, ArmedInv
  <2>5. ASSUME NEW h \in Handle PROVE Counted(h)'
    BY Zenon, <1>1, <2>1 DEF AloneAll, Counted, Begun
  <2>6. active' = active /\ handle' = handle
    BY Zenon, <2>1 DEF Begun
  <2> QED
    BY Zenon, <2>2, <2>3, <2>4, <2>5, <2>6 DEF AloneAll
<1>7. ASSUME NEW h \in Handle, TimerCancel(BootCpu, h)
      PROVE  AloneAll'
  <2>1. /\ active' = Cancelled(h) /\ cancelled' = cancelled \cup {h} /\ MayCall(BootCpu)
        /\ UNCHANGED <<deadline, period, handle, clock, arming, timer_pc, asked, fired>>
    BY Zenon, <1>1, <1>2, <1>7, CancelWrites
  <2>2. ASSUME NEW s \in active' PROVE SlotSound(s, handle[s])'
    BY Zenon, <1>1, <2>1 DEF AloneAll, SlotSound, Cancelled
  <2>3. TakeInv'
    BY Zenon, <1>4, <2>1 DEF MayCall
  <2>4. ArmedInv'
    <3>1. "none" # "active" /\ "none" \notin {"period", "callback"}
      OBVIOUS
    <3> QED
      BY Zenon, <2>1, <3>1 DEF MayCall, ArmedInv
  <2> QED
    BY Zenon, <1>1, <2>1, <2>2, <2>3, <2>4 DEF AloneAll, Counted
<1>8. ASSUME Handler(BootCpu)
      PROVE  AloneAll'
  <2>1. CASE Move(BootCpu)
    <3>0. PICK s, h0 : s = at[BootCpu] /\ h0 = handle[s]
      BY Zenon
    <3>1. /\ Moved(BootCpu, s) /\ s \in active /\ Counted(h0)' /\ (s \in active' => SlotSound(s, h0)')
          /\ called[BootCpu] = h0
      BY Zenon, <1>1, <2>1, <3>0, MoveIsDue
    <3>2. /\ active' \subseteq active /\ timer_pc'[BootCpu] = "callback"
          /\ UNCHANGED <<period, handle, clock, arming, asked, cancelled>>
      BY Zenon, <1>1, <1>2, <3>0, <3>1 DEF Moved, OneShotDone, TimersTypeOK
    <3>3. ASSUME NEW u \in active', u # s PROVE SlotSound(u, handle[u])'
      <4>1. u \in active /\ u \in Slot /\ handle[u] # 0 /\ handle[u] \in Handle
        BY Zenon, <1>1, <3>2 DEF TimersTypeOK
      <4>2. handle[u] # h0
        <5>1. s \in Slot /\ \A v, w \in Slot : handle[v] = handle[w] /\ handle[v] # 0 => v = w
          BY Zenon, <1>1, <3>1 DEF HandleInv, Moved
        <5> QED
          BY Zenon, <3>0, <3>3, <4>1, <5>1
      <4>3. deadline'[u] = deadline[u] /\ fired'[handle[u]] = fired[handle[u]]
        BY Zenon, <3>0, <3>1, <3>3, <4>1, <4>2 DEF Moved
      <4>4. SlotSound(u, handle[u])
        BY Zenon, <1>1, <4>1 DEF AloneAll
      <4> QED
        BY Zenon, <3>2, <4>3, <4>4 DEF SlotSound
    <3>4. ASSUME NEW h \in Handle, h # h0 PROVE Counted(h)'
      <4>1. fired'[h] = fired[h] /\ Counted(h)
        BY Zenon, <1>1, <3>0, <3>1, <3>4 DEF Moved, AloneAll
      <4> QED
        BY Zenon, <3>2, <4>1 DEF Counted
    <3>5. TakeInv'
      BY Zenon, <1>4, <3>2
    <3>6. ArmedInv'
      <4>1. ~Arming(BootCpu)
        <5>1. timer_pc[BootCpu] = "move" /\ "move" \notin {"thread", "callback"}
          BY Zenon, <3>1 DEF Moved
        <5> QED
          BY Zenon, <1>1, <5>1 DEF ArmingInv, Arming
      <4>2. arming.at = "none" /\ "none" # "active" /\ "none" \notin {"period", "callback"}
        BY Zenon, <1>1, <4>1 DEF AloneAll, ArmedInv, Arming
      <4> QED
        BY Zenon, <3>2, <4>2 DEF ArmedInv
    <3> QED
      BY Zenon, <3>0, <3>1, <3>2, <3>3, <3>4, <3>5, <3>6 DEF AloneAll
  <2>2. CASE Walks(BootCpu)
    <3>1. UNCHANGED <<active, deadline, period, handle, clock, arming, asked, fired, cancelled>> /\ ReadOn(BootCpu)
      BY Zenon, <1>1, <1>2, <2>2, WalkWrites
    <3>2. TakeInv'
      <4>1. CASE timer_pc'[BootCpu] = "due"
        BY Zenon, <3>1, <4>1 DEF ReadOn, TakeInv
      <4>2. CASE timer_pc'[BootCpu] = "take"
        BY Zenon, <1>1, <3>1, <4>2 DEF ReadOn, AloneAll, TakeInv
      <4>3. CASE timer_pc'[BootCpu] = "period"
        BY Zenon, <1>1, <3>1, <4>3 DEF ReadOn, AloneAll, TakeInv
      <4>4. CASE timer_pc'[BootCpu] = "move"
        BY Zenon, <1>1, <3>1, <4>4 DEF ReadOn, AloneAll, TakeInv
      <4>5. CASE timer_pc'[BootCpu] \notin {"due", "take", "period", "move"}
        BY Zenon, <4>5 DEF TakeInv
      <4> QED
        BY Zenon, <4>1, <4>2, <4>3, <4>4, <4>5
    <3>3. ArmedInv'
      BY Zenon, <1>1, <3>1 DEF AloneAll, ArmedInv, SlotSound
    <3> QED
      BY Zenon, <1>1, <3>1, <3>2, <3>3 DEF AloneAll, SlotSound, Counted
  <2> QED
    BY Zenon, <1>8, <2>1, <2>2 DEF Handler, Walks
<1>9. ASSUME ArmOn(BootCpu) PROVE TakeInv'
  <2>1. timer_pc[BootCpu] \in {"thread", "callback"}
    BY Zenon, <1>1, <1>9 DEF ArmOn, ArmPeriod, ArmCallback, ArmActive, ArmProgram, Arming, ArmingInv
  <2>2. timer_pc' = timer_pc
    BY Zenon, <1>9 DEF ArmOn, ArmPeriod, ArmCallback, ArmActive, ArmProgram, walk
  <2> QED
    BY Zenon, <1>4, <2>1, <2>2
<1>10. ASSUME ArmPeriod(BootCpu) PROVE AloneAll'
  <2>1. /\ arming.cpu = BootCpu /\ arming.at = "period" /\ Staged("callback")
        /\ \A u \in Slot \ {arming.slot} : period'[u] = period[u]
        /\ UNCHANGED <<active, deadline, handle, asked, fired, cancelled, clock>>
    BY Zenon, <1>1, <1>2, <1>10, ArmPeriodWrites DEF ArmLeaves
  <2>2. "period" # "none" /\ "period" # "program" /\ "callback" # "active"
    OBVIOUS
  <2>3. arming.slot \notin active /\ deadline[arming.slot] = arming.from + arming.delay
    BY Zenon, <1>1, <2>1, <2>2 DEF ArmingInv, AloneAll, ArmedInv
  <2>4. ASSUME NEW u \in active PROVE SlotSound(u, handle[u])'
    <3>1. period'[u] = period[u] /\ SlotSound(u, handle[u])
      BY Zenon, <1>1, <2>1, <2>3 DEF AloneAll, TimersTypeOK
    <3> QED
      BY Zenon, <2>1, <3>1 DEF SlotSound
  <2>5. ArmedInv'
    BY Zenon, <2>1, <2>2, <2>3 DEF ArmedInv, Staged
  <2> QED
    BY Zenon, <1>1, <1>9, <1>10, <2>1, <2>4, <2>5 DEF AloneAll, Counted, ArmOn
<1>11. ASSUME ArmCallback(BootCpu) PROVE AloneAll'
  <2>0. PICK s, h0 : s = arming.slot /\ h0 = next_handle
    BY Zenon
  <2>1. /\ arming.cpu = BootCpu /\ arming.at = "callback" /\ Staged("active") /\ s \in Slot /\ h0 \in Handle /\ handle'[s] = h0
        /\ \A u \in Slot \ {s} : handle'[u] = handle[u]
        /\ asked'[h0].from = arming.from /\ asked'[h0].delay = arming.delay /\ asked'[h0].period = arming.period
        /\ \A h \in Handle \ {h0} : asked'[h] = asked[h]
        /\ UNCHANGED <<active, deadline, period, fired, cancelled, clock>>
    BY Zenon, <1>1, <1>2, <1>11, <2>0, ArmCallbackWrites DEF ArmLeaves
  <2>2. "callback" # "none" /\ "callback" # "program" /\ "active" \notin {"period", "callback"}
    OBVIOUS
  <2>3. /\ s \notin active /\ deadline[s] = arming.from + arming.delay /\ period[s] = arming.period
        /\ arming.from <= clock /\ (arming.period = 0 \/ arming.period = arming.delay)
    BY Zenon, <1>1, <2>0, <2>1, <2>2 DEF ArmingInv, AloneAll, ArmedInv
  <2>4. fired[h0] = 0 /\ h0 \notin cancelled /\ \A u \in active : handle[u] \in Handle \ {h0}
    <3>1. h0 \in Nat /\ h0 >= h0 /\ ~(h0 < h0)
      BY <2>1, TimersAssumption DEF Handle
    <3>2. /\ \A u \in Slot : handle[u] < h0
          /\ \A h \in cancelled : h < h0
          /\ \A h \in Handle : h >= h0 => fired[h] = 0
      BY Zenon, <1>1, <2>0 DEF HandleInv
    <3>3. \A u \in active : u \in Slot /\ handle[u] \in Handle
      BY Zenon, <1>1 DEF TimersTypeOK
    <3>4. \A u \in active : handle[u] # h0
      BY Zenon, <3>1, <3>2, <3>3
    <3> QED
      BY Zenon, <2>1, <3>1, <3>2, <3>3, <3>4
  <2>5. SlotSound(s, h0)' /\ Counted(h0)'
    <3>1. arming.from \in Nat /\ arming.delay \in Nat /\ arming.period \in Nat /\ clock \in Nat
      BY Zenon, <1>1, <1>3, ArmFields DEF TimersTypeOK
    <3>2. PICK f, d, p \in Nat : f = arming.from /\ d = arming.delay /\ p = arming.period
      BY Zenon, <3>1
    <3>3. f + d >= f + d /\ f + d >= f + 0 * p + p /\ 0 * p <= clock - f /\ 0 <= 1
      <4>1. f <= clock /\ (p = 0 \/ p = d)
        BY Zenon, <2>3, <3>2
      <4> QED
        BY Zenon, <3>1, <3>2, <4>1, NoneYet
    <3>4. SlotSound(s, h0)'
      BY Zenon, <2>1, <2>3, <2>4, <3>2, <3>3 DEF SlotSound
    <3>5. Counted(h0)'
      BY Zenon, <2>1, <2>4, <3>2, <3>3 DEF Counted
    <3> QED
      BY Zenon, <3>4, <3>5
  <2>6. ASSUME NEW u \in active PROVE SlotSound(u, handle[u])' /\ handle'[u] = handle[u]
    <3>1. /\ u # s /\ u \in Slot /\ handle'[u] = handle[u] /\ asked'[handle[u]] = asked[handle[u]]
      BY Zenon, <1>1, <2>1, <2>3, <2>4 DEF TimersTypeOK
    <3>2. SlotSound(u, handle[u])
      BY Zenon, <1>1 DEF AloneAll
    <3> QED
      BY Zenon, <2>1, <3>1, <3>2 DEF SlotSound
  <2>7. ASSUME NEW h \in Handle, h # h0 PROVE Counted(h)'
    BY Zenon, <1>1, <2>1, <2>7 DEF AloneAll, Counted
  <2>8. ArmedInv'
    <3>1. arming'.at = "active" /\ arming'.slot = s /\ arming'.cpu = BootCpu
      BY Zenon, <2>0, <2>1 DEF Staged
    <3> QED
      BY Zenon, <2>1, <2>2, <2>5, <3>1 DEF ArmedInv
  <2>9. TakeInv' /\ active' = active
    BY Zenon, <1>9, <1>11, <2>1 DEF ArmOn
  <2> QED
    BY Zenon, <2>5, <2>6, <2>7, <2>8, <2>9 DEF AloneAll
<1>12. ASSUME ArmActive(BootCpu) PROVE AloneAll'
  <2>1. /\ arming.cpu = BootCpu /\ arming.at = "active" /\ Staged("program") /\ active' = active \cup {arming.slot}
        /\ UNCHANGED <<deadline, period, handle, asked, fired, cancelled, clock>>
    BY Zenon, <1>1, <1>2, <1>12, ArmActiveWrites DEF ArmLeaves
  <2>2. \A u \in active' : SlotSound(u, handle[u])
    BY Zenon, <1>1, <2>1 DEF AloneAll, ArmedInv
  <2>3. \A u \in active' : SlotSound(u, handle[u])'
    BY Zenon, <2>1, <2>2 DEF SlotSound
  <2>4. ArmedInv'
    <3>1. "program" \notin {"period", "callback"} /\ "program" # "active"
      OBVIOUS
    <3> QED
      BY Zenon, <2>1, <3>1 DEF ArmedInv, Staged
  <2> QED
    BY Zenon, <1>1, <1>9, <1>12, <2>1, <2>3, <2>4 DEF AloneAll, Counted, ArmOn
<1>13. ASSUME ArmProgram(BootCpu) PROVE AloneAll'
  <2>1. /\ arming'.at = "none"
        /\ UNCHANGED <<active, deadline, period, handle, asked, fired, cancelled, clock>>
    BY Zenon, <1>1, <1>2, <1>13, ArmProgramWrites DEF ArmLeaves
  <2>2. "none" \notin {"period", "callback"} /\ "none" # "active"
    OBVIOUS
  <2> QED
    BY Zenon, <1>1, <1>9, <1>13, <2>1, <2>2 DEF AloneAll, Counted, SlotSound, ArmedInv, ArmOn
<1> QED
  BY Zenon, <1>1, <1>2, <1>5, <1>6, <1>7, <1>8, <1>10, <1>11, <1>12, <1>13, StepIs DEF ArmOn
\* A call counts only for a timer that is due and was not cancelled.
LEMMA CallsAreSound ==
  ASSUME TimersInv, TimersNext
  PROVE  NeverEarly /\ CancelIsFinal
<1> SUFFICES ASSUME Alone PROVE NeverEarly /\ CancelIsFinal
  BY Zenon DEF NeverEarly, CancelIsFinal
<1>1. TimersTypeOK /\ AskedTypes /\ PlaceInv /\ HandleInv /\ setting \in Settings /\ AloneAll
  BY Zenon DEF TimersInv, AskedTypes
<1>2. BootCpu \in Cpu /\ setting.cpus = {BootCpu} /\ cancelled \subseteq Handle
  BY Zenon, <1>1, TimersAssumption DEF Alone, TimersTypeOK
<1>3. CASE fired' = fired
  <2>1. \A h \in Handle : fired[h] \in Nat
    BY Zenon, <1>1 DEF TimersTypeOK
  <2>2. \A h \in Handle : ~(fired[h] > fired[h])
    BY <2>1
  <2> QED
    BY Zenon, <1>3, <2>2 DEF NeverEarly, CancelIsFinal
<1>4. CASE Move(BootCpu)
  <2>0. PICK s, h0 : s = at[BootCpu] /\ h0 = handle[s]
    BY Zenon
  <2>1. /\ Moved(BootCpu, s) /\ called[BootCpu] = h0 /\ h0 \notin cancelled
        /\ clock >= asked[h0].from + asked[h0].delay
    BY Zenon, <1>1, <1>4, <2>0, MoveIsDue
  <2>2. \A h \in Handle \ {h0} : fired'[h] = fired[h]
    BY Zenon, <2>0, <2>1 DEF Moved
  <2>3. \A h \in Handle : fired[h] \in Nat
    BY Zenon, <1>1 DEF TimersTypeOK
  <2>4. \A h \in Handle : ~(fired[h] > fired[h])
    BY <2>3
  <2>5. NeverEarly
    BY Zenon, <2>1, <2>2, <2>4 DEF NeverEarly
  <2>6. CancelIsFinal
    BY Zenon, <1>2, <2>1, <2>2 DEF CancelIsFinal
  <2> QED
    BY Zenon, <2>5, <2>6
<1>5. ASSUME ClockTick PROVE fired' = fired
  BY Zenon, <1>5 DEF ClockTick, history
<1>6. ASSUME NEW d \in Nat, NEW p \in Nat, Arm(BootCpu, d, p) PROVE fired' = fired
  BY Zenon, <1>6 DEF Arm
<1>7. ASSUME NEW h \in Handle, TimerCancel(BootCpu, h) PROVE fired' = fired
  BY Zenon, <1>7 DEF TimerCancel
<1>8. ASSUME Handler(BootCpu) PROVE fired' = fired \/ Move(BootCpu)
  BY Zenon, <1>8 DEF Handler, InSlot, Interrupt, Scan, TestDeadline, Take, TestPeriod, Return, Finish, history
<1>9. ASSUME ArmOn(BootCpu) PROVE fired' = fired
  BY Zenon, <1>9 DEF ArmOn, ArmPeriod, ArmCallback, ArmActive, ArmProgram, history
<1> QED
  BY Zenon, <1>1, <1>2, <1>3, <1>4, <1>5, <1>6, <1>7, <1>8, <1>9, StepIs

----------------------------------------------------------------------------
(* Together                                                                 *)

\* timers_init() arms jiffy_tick() and programs the boot CPU for it.
LEMMA TimersStart ==
  ASSUME TimersInit
  PROVE  TimersInv
<1>1. /\ setting \in Settings /\ lapic_driven \in BOOLEAN /\ active = {1} /\ next_handle = 2
      /\ clock = 0 /\ pending = {} /\ cancelled = {}
      /\ deadline = [s \in Slot |-> IF s = 1 THEN FallbackTick ELSE 0]
      /\ period = [s \in Slot |-> IF s = 1 THEN FallbackTick ELSE 0]
      /\ handle = [s \in Slot |-> IF s = 1 THEN 1 ELSE 0]
      /\ timer_pc = [c \in Cpu |-> "thread"] /\ now = [c \in Cpu |-> 0] /\ at = [c \in Cpu |-> 1]
      /\ called = [c \in Cpu |-> 0] /\ interval = [c \in Cpu |-> 0] /\ arming = NotArming
      /\ fired = [h \in Handle |-> 0]
  BY Zenon DEF TimersInit
<1>2. /\ 1 \in Slot /\ 1 \in Handle /\ FallbackTick \in Nat /\ 0 \in Nat /\ 1 # 0 /\ 2 \in 1..MaxHandle + 1
      /\ 1 \in 1..MaxTimers + 1 /\ 0 <= 0 /\ 0 < 2 /\ 1 < 2 /\ FallbackTick # 0
      /\ FallbackTick \in Int /\ MinDelay \in Int /\ MaxDelay \in Int /\ BootCpu \in Cpu
  BY TimersAssumption DEF Slot, Handle
<1>3. /\ \A s \in Slot : deadline[s] = (IF s = 1 THEN FallbackTick ELSE 0)
      /\ \A s \in Slot : period[s] = (IF s = 1 THEN FallbackTick ELSE 0)
      /\ \A s \in Slot : handle[s] = (IF s = 1 THEN 1 ELSE 0)
      /\ \A h \in Handle : fired[h] = 0
      /\ \A c \in Cpu : timer_pc[c] = "thread" /\ now[c] = 0
  BY Zenon, <1>1
<1>4. /\ lapic \in [Cpu -> Nat \cup {Off}]
      /\ lapic_driven => lapic[BootCpu] # Off /\ lapic[BootCpu] <= Max({deadline[1], clock + MinDelay})
  <2> DEFINE x == Max({MinDelay, FallbackTick})
             y == Min({x, MaxDelay})
  <2>1. x \in {MinDelay, FallbackTick} /\ x >= MinDelay /\ x >= FallbackTick
    BY Zenon, <1>2, OfTwo
  <2>2. x \in Int /\ x = FallbackTick
    BY <2>1, TimersAssumption
  <2> HIDE DEF x
  <2>3. y \in {x, MaxDelay} /\ y <= x
    BY Zenon, <1>2, <2>2, OfTwo
  <2> HIDE DEF y
  <2>4. clock + y \in Nat /\ clock + y # Off /\ clock + y <= FallbackTick /\ clock + MinDelay \in Int
    BY <1>1, <2>2, <2>3, TimersAssumption DEF Off
  <2>5. Oneshot(Max({MinDelay, FallbackTick})) = clock + y
    BY Zenon DEF Oneshot, y, x
  <2>6. lapic = [c \in Cpu |-> IF lapic_driven /\ c = BootCpu THEN clock + y ELSE Off]
    BY Zenon, <2>5 DEF TimersInit
  <2>7. lapic \in [Cpu -> Nat \cup {Off}] /\ (lapic_driven => lapic[BootCpu] = clock + y)
    BY Zenon, <1>2, <2>4, <2>6
  <2> DEFINE z == Max({deadline[1], clock + MinDelay})
  <2>8. deadline[1] = FallbackTick
    BY Zenon, <1>2, <1>3
  <2>9. z \in {FallbackTick, clock + MinDelay} /\ z >= FallbackTick
    BY Zenon, <1>2, <2>4, <2>8, OfTwo
  <2> HIDE DEF z
  <2>10. clock + y <= z
    BY <1>2, <2>4, <2>9
  <2> QED
    BY Zenon, <2>4, <2>7, <2>10 DEF z
<1>5. TimersTypeOK
  <2>1. active \subseteq Slot /\ \A s \in active : handle[s] # 0
    BY Zenon, <1>1, <1>2, <1>3
  <2>2. /\ deadline \in [Slot -> Nat] /\ period \in [Slot -> Nat] /\ handle \in [Slot -> Handle \cup {0}]
        /\ timer_pc \in [Cpu -> {"thread", "scan", "due", "take", "period", "move", "callback"}]
        /\ called \in [Cpu -> Handle \cup {0}] /\ interval \in [Cpu -> Nat]
        /\ now \in [Cpu -> Nat] /\ at \in [Cpu -> 1..MaxTimers + 1] /\ fired \in [Handle -> Nat]
    BY Zenon, <1>1, <1>2
  <2>3. arming \in ArmRecord
    BY <1>1, <1>2 DEF ArmRecord, NotArming
  <2> QED
    BY Zenon, <1>1, <1>2, <1>4, <2>1, <2>2, <2>3 DEF TimersTypeOK, ArmRecord
<1> DEFINE r(h) == [from |-> 0, delay |-> IF h = 1 THEN FallbackTick ELSE 0,
                    period |-> IF h = 1 THEN FallbackTick ELSE 0]
<1>6. /\ asked \in [Handle -> Request]
      /\ \A h \in Handle : /\ asked[h].from = 0 /\ asked[h].delay = (IF h = 1 THEN FallbackTick ELSE 0)
                           /\ asked[h].period = (IF h = 1 THEN FallbackTick ELSE 0)
  <2>1. \A h \in Handle : /\ r(h) \in Request /\ r(h).from = 0
                          /\ r(h).delay = (IF h = 1 THEN FallbackTick ELSE 0)
                          /\ r(h).period = (IF h = 1 THEN FallbackTick ELSE 0)
    BY <1>2 DEF Request
  <2>2. asked = [h \in Handle |-> r(h)]
    BY Zenon DEF TimersInit
  <2> HIDE DEF r
  <2> QED
    BY Zenon, <2>1, <2>2
<1> HIDE DEF r
<1>7. AskedTypes
  BY Zenon, <1>1, <1>6 DEF AskedTypes
<1>8. DeadlineProgrammed
  BY Zenon, <1>1, <1>2, <1>4 DEF DeadlineProgrammed
<1>9. PlaceInv
  <2>1. "thread" \notin {"due", "take", "period", "move", "callback"} /\ "thread" \notin {"period", "move"}
    OBVIOUS
  <2> QED
    BY Zenon, <1>1, <1>2, <1>3, <2>1 DEF PlaceInv
<1>10. HandleInv
  <2>1. \A s, u \in Slot : handle[s] = handle[u] /\ handle[s] # 0 => s = u
    BY Zenon, <1>2, <1>3
  <2>2. \A s \in Slot : handle[s] < 2
    BY Zenon, <1>2, <1>3
  <2>3. \A s \in active : period[s] = asked[handle[s]].period
    BY Zenon, <1>1, <1>2, <1>3, <1>6
  <2>4. \A h \in Handle : h >= 2 => h # 1
    BY DEF Handle
  <2>5. \A h \in Handle : h >= 2 => fired[h] = 0 /\ asked[h].period = 0
    BY Zenon, <1>3, <1>6, <2>4
  <2>6. \A h \in Handle : asked[h].from <= clock
    BY Zenon, <1>1, <1>2, <1>6
  <2> QED
    BY Zenon, <1>1, <2>1, <2>2, <2>3, <2>5, <2>6 DEF HandleInv
<1>12. arming.at = "none" /\ "none" # "active" /\ "none" \notin {"period", "callback"}
  BY <1>1 DEF NotArming
<1>11. AloneAll
  <2>1. SlotSound(1, handle[1])
    <3>1. /\ handle[1] = 1 /\ fired[1] = 0 /\ asked[1].from = 0 /\ asked[1].delay = FallbackTick
          /\ deadline[1] = FallbackTick /\ period[1] = FallbackTick /\ 1 \notin cancelled
      BY Zenon, <1>1, <1>2, <1>3, <1>6
    <3>2. FallbackTick >= 0 + FallbackTick /\ FallbackTick >= 0 + 0 * FallbackTick + FallbackTick
      BY <1>2
    <3> QED
      BY Zenon, <1>2, <3>1, <3>2 DEF SlotSound
  <2>2. ASSUME NEW h \in Handle PROVE Counted(h)
    <3>1. fired[h] = 0 /\ asked[h].from = 0 /\ asked[h].period \in Nat
      BY Zenon, <1>3, <1>6, RequestFields
    <3> DEFINE p == asked[h].period
    <3>2. p \in Nat
      BY Zenon, <3>1
    <3> HIDE DEF p
    <3>3. 0 <= 1 /\ 0 * p <= 0 - 0
      BY <3>2
    <3> QED
      BY Zenon, <1>1, <3>1, <3>3 DEF Counted, p
  <2>3. TakeInv
    <3>1. /\ "thread" \notin {"due", "take", "period", "move"} /\ "thread" \notin {"take", "period", "move"}
          /\ "thread" \notin {"period", "move"} /\ "thread" # "move"
      OBVIOUS
    <3> QED
      BY Zenon, <1>2, <1>3, <3>1 DEF TakeInv
  <2>4. ArmedInv
    BY Zenon, <1>12 DEF ArmedInv
  <2> QED
    BY Zenon, <1>1, <2>1, <2>2, <2>3, <2>4 DEF AloneAll
<1>13. ArmingInv
  BY Zenon, <1>12 DEF ArmingInv
<1> QED
  BY Zenon, <1>5, <1>7, <1>8, <1>9, <1>10, <1>11, <1>13 DEF TimersInv

\* No step of anyone breaks the invariant.
LEMMA TimersInductive ==
  ASSUME TimersInv, [TimersNext]_timer_vars
  PROVE  TimersInv'
<1>1. CASE TimersNext
  <2>1. TimersTypeOK' /\ AskedTypes' /\ DeadlineProgrammed' /\ PlaceInv' /\ HandleInv' /\ ArmingInv'
    BY Zenon, <1>1, TimerTypesKept, ProgrammedKept, PlaceKept, HandleKept, ArmingKept
  <2>2. setting' = setting
    BY Zenon, <1>1 DEF TimersNext, TimerAfter, TimerEvery, Arm, TimerCancel, Handler, InSlot, Interrupt, Scan,
                       TestDeadline, Take, TestPeriod, Move, Return, Finish, ArmOn, ArmPeriod, ArmCallback,
                       ArmActive, ArmProgram, SlotStep, ClockTick, history
  <2>3. Alone' => Alone
    BY Zenon, <2>2 DEF Alone
  <2>4. Alone => AloneAll'
    BY Zenon, <1>1, AloneKept
  <2> QED
    BY Zenon, <2>1, <2>3, <2>4 DEF TimersInv
<1>2. CASE UNCHANGED timer_vars
  <2>1. UNCHANGED <<active, deadline, period, handle, next_handle, lapic_driven, lapic, pending, clock, arming,
                    timer_pc, now, at, called, interval, asked, fired, cancelled, setting>>
    BY Zenon, <1>2 DEF timer_vars
  <2>2. TimersTypeOK' /\ AskedTypes' /\ PlaceInv'
    BY Zenon, <2>1 DEF TimersInv, TimersTypeOK, AskedTypes, PlaceInv
  <2>3. DeadlineProgrammed' /\ ArmingInv'
    BY Zenon, <2>1 DEF TimersInv, DeadlineProgrammed, Arming, ArmingInv
  <2>4. HandleInv'
    BY Zenon, <2>1 DEF TimersInv, HandleInv
  <2>5. (Alone => AloneAll)'
    BY Zenon, <2>1 DEF TimersInv, Alone, AloneAll, SlotSound, Counted, TakeInv, ArmedInv
  <2> QED
    BY Zenon, <2>2, <2>3, <2>4, <2>5 DEF TimersInv
<1> QED
  BY Zenon, <1>1, <1>2

\* kernel/time/timers.cpp, for any number of slots, timers and CPUs and any delays: every
\* deadline has an interrupt on its way or a handler that is still to reach program_next(),
\* whatever is armed and cancelled while the handlers walk the table; and on a single CPU
\* nothing is called early, after its cancel, twice, or more often than its period allows.
THEOREM TimersStayExact == TimersSpec => TimersAreExact
<1>1. TimersInit => TimersInv
  BY Zenon, TimersStart
<1>2. TimersInv /\ [TimersNext]_timer_vars => TimersInv'
  BY Zenon, TimersInductive
<1>3. TimersInv => TimersTypeOK /\ DeadlineProgrammed /\ OneShotOnce /\ TicksNeverAhead
  BY Zenon DEF TimersInv, AloneAll, Counted, OneShotOnce, TicksNeverAhead
<1>4. TimersInv /\ [TimersNext]_timer_vars => [NeverEarly /\ CancelIsFinal]_timer_vars
  BY Zenon, CallsAreSound
<1> QED
  BY <1>1, <1>2, <1>3, <1>4, PTL DEF TimersSpec, TimersAreExact
============================================================================
