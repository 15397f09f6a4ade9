----------------------------- MODULE WorkQueue -----------------------------
(***************************************************************************)
(* kernel/lib/work.cpp: the ring of deferred calls behind queue_lock, and  *)
(* the threads in work_run_pending(): kworker and the idle thread of every *)
(* CPU.  A call is written as the number of calls accepted up to it.       *)
(***************************************************************************)
EXTENDS Naturals

CONSTANTS Worker,     \* threads that call work_run_pending()
          kworker,    \* the thread of them that work_start() spawns
          queue_size, \* slots of the ring
          MaxCalls    \* bound: calls of schedule_work()

ASSUME WorkAssumption ==
    kworker \in Worker /\ queue_size \in Nat \ {0, 1} /\ MaxCalls \in Nat

VARIABLES queue,    \* the ring, 0 in a slot that was never used
          head, tail, dropped,
          pc,       \* per worker: "out", "loop" or "call"
          item,     \* the local item of work_run_pending()
          accepted, \* history: calls schedule_work() returned true for
          started   \* history: calls taken out of the ring

vars == <<queue, head, tail, dropped, pc, item, accepted, started>>

Index == 0..queue_size - 1

Init ==
    /\ queue = [i \in Index |-> 0]
    /\ head = 0 /\ tail = 0 /\ dropped = 0
    /\ pc = [w \in Worker |-> "out"]
    /\ item = [w \in Worker |-> 0]
    /\ accepted = 0 /\ started = 0

\* (i + 1) % queue_size
After(i) == (i + 1) % queue_size

\* schedule_work() that overwrites the oldest call.
FullNever == FALSE

\* next == head
Full == After(tail) = head

\* schedule_work(), from any thread, handler or deferred call: wake_all() finds
\* nobody, as nothing ever waits on this queue.
ScheduleWork ==
    /\ accepted + dropped < MaxCalls
    /\ IF Full
       THEN dropped' = dropped + 1 /\ UNCHANGED <<queue, tail, accepted>>
       ELSE /\ queue' = [queue EXCEPT ![tail] = accepted + 1]
            /\ tail' = After(tail)
            /\ accepted' = accepted + 1
            /\ UNCHANGED dropped
    /\ UNCHANGED <<head, pc, item, started>>

\* A worker calls work_run_pending(): work_thread() after every sleep, the idle
\* loop whenever its CPU has nothing to run.
Enter(w) ==
    /\ pc[w] = "out"
    /\ pc' = [pc EXCEPT ![w] = "loop"]
    /\ UNCHANGED <<queue, head, tail, dropped, item, accepted, started>>

\* An emptiness test that compares against the slot behind the head.
EmptyEarly == After(head) = tail \/ head = tail

\* head == tail
Empty == head = tail

\* One round of the loop under queue_lock: returns, or takes the oldest item.
TakeItem(w) ==
    /\ pc[w] = "loop"
    /\ IF Empty
       THEN /\ pc' = [pc EXCEPT ![w] = "out"]
            /\ UNCHANGED <<head, item, started>>
       ELSE /\ item' = [item EXCEPT ![w] = queue[head]]
            /\ head' = After(head)
            /\ started' = started + 1
            /\ pc' = [pc EXCEPT ![w] = "call"]
    /\ UNCHANGED <<queue, tail, dropped, accepted>>

\* item.function(item.context) returns.
CallReturns(w) ==
    /\ pc[w] = "call"
    /\ pc' = [pc EXCEPT ![w] = "loop"]
    /\ UNCHANGED <<queue, head, tail, dropped, item, accepted, started>>

Run(w) == Enter(w) \/ TakeItem(w) \/ CallReturns(w)

Next == ScheduleWork \/ \E w \in Worker : Run(w)

Spec == Init /\ [][Next]_vars

\* The scheduler keeps giving kworker its turn and the calls it makes return.
\* An idle thread may never run again on a CPU that is always busy.
FairSpec == Spec /\ WF_vars(Run(kworker))

----------------------------------------------------------------------------
\* work_pending()
Pending == IF tail >= head THEN tail - head ELSE queue_size - head + tail

TypeOK ==
    /\ queue \in [Index -> Nat]
    /\ head \in Index /\ tail \in Index
    /\ dropped \in Nat /\ accepted \in Nat /\ started \in Nat
    /\ pc \in [Worker -> {"out", "loop", "call"}]
    /\ item \in [Worker -> Nat]

\* The calls waiting in the ring are exactly those accepted and not yet taken,
\* oldest first: none is lost, run twice or overtaken while several workers
\* drain the ring and it wraps around.
RingIsFifo ==
    /\ accepted = started + Pending
    /\ \A i \in Index :
           LET age == IF i >= head THEN i - head ELSE queue_size - head + i IN
           age < Pending => queue[i] = started + 1 + age

\* The ring implements the promise of work.hpp, with one slot always unused.
Promise == INSTANCE DeferredWork WITH
    Capacity <- queue_size - 1, Idle <- 0, refused <- dropped,
    busy <- [w \in Worker |-> IF pc[w] = "call" THEN item[w] ELSE 0]

ImplementsDeferredWork == Promise!Spec

\* Every accepted call is taken by a worker.
EveryCallRuns ==
    \A n \in 1..MaxCalls : accepted >= n ~> started >= n
====
