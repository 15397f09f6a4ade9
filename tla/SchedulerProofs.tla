-------------------------- MODULE SchedulerProofs --------------------------
(***************************************************************************)
(* The invariant of the scheduler as the kernel uses it: nobody calls      *)
(* Thread::wake(), and the idle threads neither sleep, wait nor exit.      *)
(* First what the operations on its lists preserve: a list state is well   *)
(* formed when every link is owned by one list, and each lemma takes one   *)
(* thread off a list or puts one on; the states between the two exist only *)
(* inside an action.  Then the invariant, and a lemma for every step: the  *)
(* calls and the steps that give a CPU up, the pass of yield() over the    *)
(* sleepers, the choice of the next thread, the switch, the unlock on the  *)
(* other side, interrupts, waking and spawning.                            *)
(***************************************************************************)
EXTENDS Scheduler, TLAPS

Link0 == Threads \cup {Null}
Queued == {"Ready", "Sleeping", "Blocked"}

ListType(q, s, r, h, st) ==
    /\ q \in [head : Link0, tail : Link0, next : [Threads -> Link0]]
    /\ s \in Link0 /\ r \in Link0
    /\ h \in [Queue -> Link0]
    /\ st \in [Threads -> ThreadState]

\* One link at most leads to a thread, none to the front of a list, and a link
\* joins threads in the same state.
Links(q, s, r, h, st) ==
    /\ \A t, u \in Threads : q.next[t] # Null /\ q.next[t] = q.next[u] => t = u
    /\ \A t \in Threads : q.next[t] # Null =>
           /\ st[t] \in Queued /\ st[q.next[t]] = st[t]
           /\ q.next[t] # q.head /\ q.next[t] # s /\ q.next[t] # r
           /\ \A w \in Queue : q.next[t] # h[w]

\* The front of a list is in the state the list is for.
Fronts(q, s, r, h, st) ==
    /\ q.head # Null => st[q.head] = "Ready"
    /\ s # Null => st[s] = "Sleeping" /\ s # r
    /\ r # Null => st[r] = "Sleeping"
    /\ \A w \in Queue : h[w] # Null => st[h[w]] = "Blocked"
    /\ \A w, v \in Queue : h[w] # Null /\ h[w] = h[v] => w = v

\* A thread in one of these states is on a list.
Kept(q, s, r, h, st) ==
    \A t \in Threads :
        /\ st[t] = "Ready" => t = q.head \/ \E u \in Threads : q.next[u] = t
        /\ st[t] = "Sleeping" =>
               t = s \/ t = r \/ \E u \in Threads : q.next[u] = t
        /\ st[t] = "Blocked" =>
               (\E w \in Queue : t = h[w]) \/ \E u \in Threads : q.next[u] = t

\* The tail is where the next thread is linked.
TailOk(q, st) ==
    /\ q.head = Null <=> q.tail = Null
    /\ q.tail # Null => st[q.tail] = "Ready" /\ q.next[q.tail] = Null

WellFormed(q, s, r, h, st) ==
    /\ ListType(q, s, r, h, st) /\ Links(q, s, r, h, st)
    /\ Fronts(q, s, r, h, st) /\ Kept(q, s, r, h, st) /\ TailOk(q, st)

\* nullptr is not a thread.
LEMMA NullNotThread == \A t \in Threads : t # Null
  BY Zenon, SchedulerAssumption DEF Threads

\* A thread that is in none of the three states is on no list.
LEMMA OffLists ==
  ASSUME NEW q, NEW s, NEW r, NEW h, NEW st, WellFormed(q, s, r, h, st),
         NEW t \in Threads, st[t] \notin Queued
  PROVE  /\ q.next[t] = Null /\ \A u \in Threads : q.next[u] # t
         /\ t # q.head /\ t # s /\ t # r /\ \A w \in Queue : t # h[w]
         /\ t # q.tail /\ t # Null
<1>1. t # Null
  BY Zenon, NullNotThread
<1>2. q.next[t] = Null /\ \A u \in Threads : q.next[u] # t
  BY Zenon, <1>1 DEF WellFormed, Links
<1>3. t # q.head /\ t # s /\ t # r /\ \A w \in Queue : t # h[w]
  BY <1>1 DEF WellFormed, Fronts, Queued
<1>4. t # q.tail
  BY Zenon, <1>1 DEF WellFormed, TailOk, Queued
<1> QED
  BY Zenon, <1>1, <1>2, <1>3, <1>4

\* enqueue() of a thread that is on no list.
LEMMA PutReady ==
  ASSUME NEW q, NEW s, NEW r, NEW h, NEW st, WellFormed(q, s, r, h, st),
         NEW t \in Threads, st[t] \notin Queued
  PROVE  WellFormed(Enqueue(q, t), s, r, h, [st EXCEPT ![t] = "Ready"])
<1> DEFINE q2 == Enqueue(q, t)
           st2 == [st EXCEPT ![t] = "Ready"]
<1>1. /\ q.next[t] = Null /\ \A u \in Threads : q.next[u] # t
      /\ t # q.head /\ t # s /\ t # r /\ \A w \in Queue : t # h[w]
      /\ t # q.tail /\ t # Null
  BY Zenon, OffLists
<1>2. /\ q.next \in [Threads -> Link0] /\ q.head \in Link0 /\ q.tail \in Link0
      /\ st \in [Threads -> ThreadState]
  BY Zenon DEF WellFormed, ListType
<1>3. ListType(q2, s, r, h, st2)
  BY Zenon, <1>2 DEF WellFormed, ListType, Enqueue, Link0, ThreadState
<1>4. /\ q2.head = (IF q.tail = Null THEN t ELSE q.head) /\ q2.tail = t
      /\ \A u \in Threads : q2.next[u] = IF u = q.tail THEN t ELSE q.next[u]
  <2>1. CASE q.tail = Null
    BY Zenon, <1>1, <1>2, <2>1, NullNotThread DEF Enqueue
  <2>2. CASE q.tail # Null
    BY Zenon, <1>1, <1>2, <2>2 DEF Enqueue
  <2> QED
    BY Zenon, <2>1, <2>2
<1>5. st2[t] = "Ready" /\ \A u \in Threads : u # t => st2[u] = st[u]
  BY Zenon, <1>2
<1> HIDE DEF q2, st2
<1>6. Links(q2, s, r, h, st2)
  <2>1. \A u, v \in Threads : q2.next[u] # Null /\ q2.next[u] = q2.next[v] => u = v
    BY <1>1, <1>4 DEF WellFormed, Links
  <2>2. ASSUME NEW u \in Threads, q2.next[u] # Null
        PROVE  st2[u] \in Queued /\ st2[q2.next[u]] = st2[u]
    <3>1. CASE u = q.tail
      BY Zenon, <1>1, <1>4, <1>5, <3>1, NullNotThread DEF WellFormed, TailOk, Queued
    <3>2. CASE u # q.tail
      BY <1>1, <1>2, <1>4, <1>5, <2>2, <3>2 DEF WellFormed, Links, Link0
    <3> QED
      BY Zenon, <3>1, <3>2
  <2>3. ASSUME NEW u \in Threads, q2.next[u] # Null
        PROVE  /\ q2.next[u] # q2.head /\ q2.next[u] # s /\ q2.next[u] # r
               /\ \A w \in Queue : q2.next[u] # h[w]
    BY <1>1, <1>4, <2>3, NullNotThread DEF WellFormed, Links, TailOk
  <2> QED
    BY Zenon, <2>1, <2>2, <2>3 DEF Links
<1>7. Fronts(q2, s, r, h, st2)
  BY <1>1, <1>2, <1>4, <1>5 DEF WellFormed, Fronts, TailOk, ListType, Link0
<1>8. Kept(q2, s, r, h, st2)
  <2>1. q2.head = t \/ \E u \in Threads : q2.next[u] = t
    BY Zenon, <1>2, <1>4 DEF Link0
  <2>2. \A u, v \in Threads : q.next[u] = v => q2.next[u] = v
    BY Zenon, <1>4, NullNotThread DEF WellFormed, TailOk
  <2>3. q.head # Null => q2.head = q.head
    BY Zenon, <1>4 DEF WellFormed, TailOk
  <2> QED
    BY <1>5, <2>1, <2>2, <2>3, NullNotThread DEF WellFormed, Kept
<1>9. TailOk(q2, st2)
  BY Zenon, <1>1, <1>2, <1>4, <1>5 DEF WellFormed, TailOk
<1> QED
  BY Zenon, <1>3, <1>6, <1>7, <1>8, <1>9 DEF WellFormed, q2, st2

\* The list being built by wake_expired_sleepers() is a list of sleepers too.
LEMMA SwapSleepers ==
  ASSUME NEW q, NEW s, NEW r, NEW h, NEW st, WellFormed(q, s, r, h, st)
  PROVE  WellFormed(q, r, s, h, st)
<1>1. ListType(q, r, s, h, st) /\ TailOk(q, st)
  BY Zenon DEF WellFormed, ListType
<1>2. Links(q, r, s, h, st)
  BY Zenon DEF WellFormed, Links
<1>3. Fronts(q, r, s, h, st) /\ Kept(q, r, s, h, st)
  BY Zenon DEF WellFormed, Fronts, Kept
<1> QED
  BY Zenon, <1>1, <1>2, <1>3 DEF WellFormed

\* park_sleeper_at() of a thread that is on no list.
LEMMA PutSleeper ==
  ASSUME NEW q, NEW s, NEW r, NEW h, NEW st, WellFormed(q, s, r, h, st),
         NEW t \in Threads, st[t] \notin Queued
  PROVE  WellFormed(Link(q, t, s), t, r, h, [st EXCEPT ![t] = "Sleeping"])
<1> DEFINE q2 == Link(q, t, s)
           st2 == [st EXCEPT ![t] = "Sleeping"]
<1>1. /\ q.next[t] = Null /\ \A u \in Threads : q.next[u] # t
      /\ t # q.head /\ t # s /\ t # r /\ \A w \in Queue : t # h[w]
      /\ t # q.tail /\ t # Null
  BY Zenon, OffLists
<1>2. /\ q \in [head : Link0, tail : Link0, next : [Threads -> Link0]]
      /\ s \in Link0 /\ st \in [Threads -> ThreadState]
  BY Zenon DEF WellFormed, ListType
<1>3. ListType(q2, t, r, h, st2)
  BY Zenon, <1>2 DEF WellFormed, ListType, Link, Link0, ThreadState
<1>4. /\ q2.head = q.head /\ q2.tail = q.tail
      /\ \A u \in Threads : q2.next[u] = IF u = t THEN s ELSE q.next[u]
  BY Zenon, <1>2 DEF Link
<1>5. st2[t] = "Sleeping" /\ \A u \in Threads : u # t => st2[u] = st[u]
  BY Zenon, <1>2
<1> HIDE DEF q2, st2
<1>6. Links(q2, t, r, h, st2)
  <2>1. \A u, v \in Threads : q2.next[u] # Null /\ q2.next[u] = q2.next[v] => u = v
    BY <1>4 DEF WellFormed, Links
  <2>2. ASSUME NEW u \in Threads, q2.next[u] # Null
        PROVE  st2[u] \in Queued /\ st2[q2.next[u]] = st2[u]
    BY <1>1, <1>2, <1>4, <1>5, <2>2 DEF WellFormed, Links, Fronts, Link0, Queued
  <2>3. ASSUME NEW u \in Threads, q2.next[u] # Null
        PROVE  /\ q2.next[u] # q2.head /\ q2.next[u] # t /\ q2.next[u] # r
               /\ \A w \in Queue : q2.next[u] # h[w]
    BY <1>1, <1>2, <1>4, <2>3 DEF WellFormed, Links, Fronts
  <2> QED
    BY Zenon, <2>1, <2>2, <2>3 DEF Links
<1>7. Fronts(q2, t, r, h, st2)
  BY <1>1, <1>2, <1>4, <1>5 DEF WellFormed, Fronts, ListType, Link0
<1>8. Kept(q2, t, r, h, st2)
  <2>1. \A u, v \in Threads : q.next[u] = v => q2.next[u] = v
    BY Zenon, <1>1, <1>4, NullNotThread
  <2>2. s # Null => q2.next[t] = s
    BY Zenon, <1>4
  <2> QED
    BY <1>4, <1>5, <2>1, <2>2, NullNotThread DEF WellFormed, Kept
<1>9. TailOk(q2, st2)
  BY ZenonT(30), <1>1, <1>2, <1>4, <1>5 DEF WellFormed, TailOk, Link0
<1> QED
  BY Zenon, <1>3, <1>6, <1>7, <1>8, <1>9 DEF WellFormed, q2, st2

\* block_on() of a thread that is on no list.
LEMMA PutBlocked ==
  ASSUME NEW q, NEW s, NEW r, NEW h, NEW st, WellFormed(q, s, r, h, st),
         NEW t \in Threads, st[t] \notin Queued, NEW w \in Queue
  PROVE  WellFormed(Link(q, t, h[w]), s, r, [h EXCEPT ![w] = t],
                    [st EXCEPT ![t] = "Blocked"])
<1> DEFINE q2 == Link(q, t, h[w])
           h2 == [h EXCEPT ![w] = t]
           st2 == [st EXCEPT ![t] = "Blocked"]
<1>1. /\ q.next[t] = Null /\ \A u \in Threads : q.next[u] # t
      /\ t # q.head /\ t # s /\ t # r /\ \A v \in Queue : t # h[v]
      /\ t # q.tail /\ t # Null
  BY Zenon, OffLists
<1>2. /\ q \in [head : Link0, tail : Link0, next : [Threads -> Link0]]
      /\ h \in [Queue -> Link0] /\ st \in [Threads -> ThreadState]
  BY Zenon DEF WellFormed, ListType
<1>3. ListType(q2, s, r, h2, st2)
  BY Zenon, <1>2 DEF WellFormed, ListType, Link, Link0, ThreadState
<1>4. /\ q2.head = q.head /\ q2.tail = q.tail
      /\ \A u \in Threads : q2.next[u] = IF u = t THEN h[w] ELSE q.next[u]
      /\ h2[w] = t /\ \A v \in Queue : v # w => h2[v] = h[v]
  BY Zenon, <1>2 DEF Link
<1>5. st2[t] = "Blocked" /\ \A u \in Threads : u # t => st2[u] = st[u]
  BY Zenon, <1>2
<1> HIDE DEF q2, h2, st2
<1>6. Links(q2, s, r, h2, st2)
  <2>1. \A u, v \in Threads : q2.next[u] # Null /\ q2.next[u] = q2.next[v] => u = v
    BY <1>4 DEF WellFormed, Links
  <2>2. ASSUME NEW u \in Threads, q2.next[u] # Null
        PROVE  st2[u] \in Queued /\ st2[q2.next[u]] = st2[u]
    BY <1>1, <1>2, <1>4, <1>5, <2>2 DEF WellFormed, Links, Fronts, Link0, Queued
  <2>3. ASSUME NEW u \in Threads, q2.next[u] # Null
        PROVE  /\ q2.next[u] # q2.head /\ q2.next[u] # s /\ q2.next[u] # r
               /\ \A v \in Queue : q2.next[u] # h2[v]
    BY <1>1, <1>2, <1>4, <2>3 DEF WellFormed, Links, Fronts
  <2> QED
    BY Zenon, <2>1, <2>2, <2>3 DEF Links
<1>7. Fronts(q2, s, r, h2, st2)
  <2>1. \A v \in Queue : h2[v] # Null => st2[h2[v]] = "Blocked"
    BY <1>1, <1>2, <1>4, <1>5 DEF WellFormed, Fronts, Link0
  <2>2. \A v, x \in Queue : h2[v] # Null /\ h2[v] = h2[x] => v = x
    BY <1>1, <1>4 DEF WellFormed, Fronts
  <2> QED
    BY <1>1, <1>2, <1>4, <1>5, <2>1, <2>2 DEF WellFormed, Fronts, ListType, Link0
<1>8. Kept(q2, s, r, h2, st2)
  <2>1. \A u, v \in Threads : q.next[u] = v => q2.next[u] = v
    BY Zenon, <1>1, <1>4, NullNotThread
  <2>2. \A v \in Queue : h[v] # Null => h2[v] = h[v] \/ q2.next[t] = h[v]
    BY Zenon, <1>4
  <2> QED
    BY <1>4, <1>5, <2>1, <2>2, NullNotThread DEF WellFormed, Kept
<1>9. TailOk(q2, st2)
  BY <1>1, <1>2, <1>4, <1>5 DEF WellFormed, TailOk, Link0
<1> QED
  BY Zenon, <1>3, <1>6, <1>7, <1>8, <1>9 DEF WellFormed, q2, h2, st2

----------------------------------------------------------------------------
(* Taking the front of a list.  The thread is marked Running, the state    *)
(* between two lists, and its own link is cut.                             *)

\* dequeue()
LEMMA TakeReady ==
  ASSUME NEW q, NEW s, NEW r, NEW h, NEW st, WellFormed(q, s, r, h, st),
         q.head # Null
  PROVE  WellFormed(Dequeue(q), s, r, h, [st EXCEPT ![q.head] = "Running"])
<1> DEFINE t == q.head
           q2 == Dequeue(q)
           st2 == [st EXCEPT ![t] = "Running"]
<1>1. /\ q \in [head : Link0, tail : Link0, next : [Threads -> Link0]]
      /\ st \in [Threads -> ThreadState] /\ t \in Threads
  BY Zenon DEF WellFormed, ListType, Link0
<1>2. ListType(q2, s, r, h, st2)
  BY Zenon, <1>1 DEF WellFormed, ListType, Dequeue, Link0, ThreadState
<1>3. /\ q2.head = q.next[t]
      /\ q2.tail = (IF q.next[t] = Null THEN Null ELSE q.tail)
      /\ \A u \in Threads : q2.next[u] = IF u = t THEN Null ELSE q.next[u]
  BY Zenon, <1>1 DEF Dequeue
<1>4. st2[t] = "Running" /\ \A u \in Threads : u # t => st2[u] = st[u]
  BY Zenon, <1>1
<1>5. st[t] = "Ready" /\ t # s /\ t # r /\ \A w \in Queue : t # h[w]
  BY Zenon DEF WellFormed, Fronts
<1> HIDE DEF q2, st2, t
<1>6. \A u \in Threads : q.next[u] # t
  BY Zenon, <1>1, NullNotThread DEF WellFormed, Links, t
<1>7. Links(q2, s, r, h, st2)
  <2>1. \A u, v \in Threads : q2.next[u] # Null /\ q2.next[u] = q2.next[v] => u = v
    BY <1>3 DEF WellFormed, Links
  <2>2. ASSUME NEW u \in Threads, q2.next[u] # Null
        PROVE  st2[u] \in Queued /\ st2[q2.next[u]] = st2[u]
    BY <1>1, <1>3, <1>4, <1>6, <2>2 DEF WellFormed, Links, Link0
  <2>3. ASSUME NEW u \in Threads, q2.next[u] # Null
        PROVE  /\ q2.next[u] # q2.head /\ q2.next[u] # s /\ q2.next[u] # r
               /\ \A w \in Queue : q2.next[u] # h[w]
    BY <1>1, <1>3, <2>3 DEF WellFormed, Links
  <2> QED
    BY Zenon, <2>1, <2>2, <2>3 DEF Links
<1>8. Fronts(q2, s, r, h, st2)
  <2>1. q2.head # Null => st2[q2.head] = "Ready"
    BY <1>1, <1>3, <1>4, <1>5, <1>6 DEF WellFormed, Links, Link0
  <2> QED
    BY ZenonT(30), <1>4, <1>5, <2>1 DEF WellFormed, Fronts, ListType, Link0
<1>9. Kept(q2, s, r, h, st2)
  <2>1. \A u, v \in Threads : q.next[u] = v => q2.next[u] = v \/ q2.head = v
    BY Zenon, <1>3
  <2>2. \A v \in Threads : v # t /\ st[v] # "Ready" => \A u \in Threads : q.next[u] = v => q2.next[u] = v
    BY Zenon, <1>1, <1>3, <1>5, NullNotThread DEF WellFormed, Links
  <2>3. \A v \in Threads : st2[v] # "Running" => v # t
    BY Zenon, <1>4
  <2> QED
    BY <1>4, <2>1, <2>2, <2>3 DEF WellFormed, Kept, t
<1>10. TailOk(q2, st2)
  <2>1. q.tail \in Threads /\ st[q.tail] = "Ready" /\ q.next[q.tail] = Null
    BY Zenon, <1>1, NullNotThread DEF WellFormed, TailOk, t, Link0
  <2> QED
    BY ZenonT(30), <1>1, <1>3, <1>4, <2>1, NullNotThread DEF TailOk
<1> QED
  BY Zenon, <1>2, <1>7, <1>8, <1>9, <1>10 DEF WellFormed, q2, st2, t

\* The front of the sleepers, as wake_expired_sleepers() takes it.
LEMMA TakeSleeper ==
  ASSUME NEW q, NEW s, NEW r, NEW h, NEW st, WellFormed(q, s, r, h, st),
         s # Null
  PROVE  WellFormed(Link(q, s, Null), q.next[s], r, h,
                    [st EXCEPT ![s] = "Running"])
<1> DEFINE q2 == Link(q, s, Null)
           s2 == q.next[s]
           st2 == [st EXCEPT ![s] = "Running"]
<1>1. /\ q \in [head : Link0, tail : Link0, next : [Threads -> Link0]]
      /\ st \in [Threads -> ThreadState] /\ s \in Threads
  BY Zenon DEF WellFormed, ListType, Link0
<1>2. ListType(q2, s2, r, h, st2)
  BY Zenon, <1>1 DEF WellFormed, ListType, Link, Link0, ThreadState
<1>3. /\ q2.head = q.head /\ q2.tail = q.tail
      /\ \A u \in Threads : q2.next[u] = IF u = s THEN Null ELSE q.next[u]
  BY Zenon, <1>1 DEF Link
<1>4. st2[s] = "Running" /\ \A u \in Threads : u # s => st2[u] = st[u]
  BY Zenon, <1>1
<1>5. st[s] = "Sleeping" /\ s # q.head /\ s # r /\ \A w \in Queue : s # h[w]
  BY Zenon DEF WellFormed, Fronts
<1>6. \A u \in Threads : q.next[u] # s
  BY Zenon, <1>1, NullNotThread DEF WellFormed, Links
<1>7. s2 = q.next[s]
  BY Zenon
<1> HIDE DEF q2, s2, st2
<1>8. Links(q2, s2, r, h, st2)
  <2>1. \A u, v \in Threads : q2.next[u] # Null /\ q2.next[u] = q2.next[v] => u = v
    BY <1>3 DEF WellFormed, Links
  <2>2. ASSUME NEW u \in Threads, q2.next[u] # Null
        PROVE  st2[u] \in Queued /\ st2[q2.next[u]] = st2[u]
    BY <1>1, <1>3, <1>4, <1>6, <2>2 DEF WellFormed, Links, Link0
  <2>3. ASSUME NEW u \in Threads, q2.next[u] # Null
        PROVE  /\ q2.next[u] # q2.head /\ q2.next[u] # s2 /\ q2.next[u] # r
               /\ \A w \in Queue : q2.next[u] # h[w]
    BY ZenonT(30), <1>1, <1>3, <1>7, <2>3 DEF WellFormed, Links
  <2> QED
    BY Zenon, <2>1, <2>2, <2>3 DEF Links
<1>9. Fronts(q2, s2, r, h, st2)
  <2>1. s2 # Null => st2[s2] = "Sleeping" /\ s2 # r
    BY ZenonT(30), <1>1, <1>4, <1>5, <1>6, <1>7 DEF WellFormed, Links, Link0
  <2> QED
    BY ZenonT(30), <1>3, <1>4, <1>5, <2>1 DEF WellFormed, Fronts, ListType, Link0
<1>10. Kept(q2, s2, r, h, st2)
  <2>1. \A u, v \in Threads : q.next[u] = v => q2.next[u] = v \/ s2 = v
    BY Zenon, <1>3, <1>7
  <2>2. \A v \in Threads : v # s /\ st[v] # "Sleeping" => \A u \in Threads : q.next[u] = v => q2.next[u] = v
    BY Zenon, <1>1, <1>3, <1>5, NullNotThread DEF WellFormed, Links
  <2>3. \A v \in Threads : st2[v] # "Running" => v # s
    BY Zenon, <1>4
  <2> QED
    BY <1>3, <1>4, <2>1, <2>2, <2>3 DEF WellFormed, Kept
<1>11. TailOk(q2, st2)
  BY ZenonT(30), <1>1, <1>3, <1>4, <1>5, NullNotThread DEF WellFormed, TailOk, ListType, Link0
<1> QED
  BY Zenon, <1>2, <1>8, <1>9, <1>10, <1>11 DEF WellFormed, q2, s2, st2

\* take_from() of a wait queue.
LEMMA TakeBlocked ==
  ASSUME NEW q, NEW s, NEW r, NEW h, NEW st, WellFormed(q, s, r, h, st),
         NEW w \in Queue, h[w] # Null
  PROVE  WellFormed(Link(q, h[w], Null), s, r, [h EXCEPT ![w] = q.next[h[w]]],
                    [st EXCEPT ![h[w]] = "Running"])
<1> DEFINE t == h[w]
           q2 == Link(q, t, Null)
           h2 == [h EXCEPT ![w] = q.next[t]]
           st2 == [st EXCEPT ![t] = "Running"]
<1>1. /\ q \in [head : Link0, tail : Link0, next : [Threads -> Link0]]
      /\ h \in [Queue -> Link0]
      /\ st \in [Threads -> ThreadState] /\ t \in Threads
  BY Zenon DEF WellFormed, ListType, Link0
<1>2. ListType(q2, s, r, h2, st2)
  BY Zenon, <1>1 DEF WellFormed, ListType, Link, Link0, ThreadState
<1>3. /\ q2.head = q.head /\ q2.tail = q.tail
      /\ \A u \in Threads : q2.next[u] = IF u = t THEN Null ELSE q.next[u]
      /\ h2[w] = q.next[t] /\ \A v \in Queue : v # w => h2[v] = h[v]
  BY Zenon, <1>1 DEF Link
<1>4. st2[t] = "Running" /\ \A u \in Threads : u # t => st2[u] = st[u]
  BY Zenon, <1>1
<1>5. st[t] = "Blocked" /\ t # q.head /\ t # s /\ t # r
      /\ \A v \in Queue : v # w => t # h[v]
  BY Zenon DEF WellFormed, Fronts
<1>6. \A u \in Threads : q.next[u] # t
  BY Zenon, <1>1, NullNotThread DEF WellFormed, Links
<1>7. t = h[w]
  BY Zenon
<1> HIDE DEF q2, h2, st2, t
<1>8. Links(q2, s, r, h2, st2)
  <2>1. \A u, v \in Threads : q2.next[u] # Null /\ q2.next[u] = q2.next[v] => u = v
    BY <1>3 DEF WellFormed, Links
  <2>2. ASSUME NEW u \in Threads, q2.next[u] # Null
        PROVE  st2[u] \in Queued /\ st2[q2.next[u]] = st2[u]
    BY <1>1, <1>3, <1>4, <1>6, <2>2 DEF WellFormed, Links, Link0
  <2>3. ASSUME NEW u \in Threads, q2.next[u] # Null
        PROVE  /\ q2.next[u] # q2.head /\ q2.next[u] # s /\ q2.next[u] # r
               /\ \A v \in Queue : q2.next[u] # h2[v]
    BY <1>1, <1>3, <2>3 DEF WellFormed, Links
  <2> QED
    BY Zenon, <2>1, <2>2, <2>3 DEF Links
<1>9. Fronts(q2, s, r, h2, st2)
  <2>1. \A v \in Queue : h2[v] # Null => st2[h2[v]] = "Blocked"
    BY <1>1, <1>3, <1>4, <1>5, <1>6 DEF WellFormed, Links, Fronts, Link0
  <2>2. \A v, x \in Queue : h2[v] # Null /\ h2[v] = h2[x] => v = x
    BY <1>1, <1>3 DEF WellFormed, Links, Fronts
  <2> QED
    BY <1>3, <1>4, <1>5, <2>1, <2>2 DEF WellFormed, Fronts, ListType, Link0
<1>10. Kept(q2, s, r, h2, st2)
  <2>1. \A u, v \in Threads : q.next[u] = v => q2.next[u] = v \/ h2[w] = v
    BY Zenon, <1>3
  <2>2. \A v \in Threads : v # t /\ st[v] # "Blocked" => \A u \in Threads : q.next[u] = v => q2.next[u] = v
    BY <1>1, <1>3, <1>5, NullNotThread DEF WellFormed, Links
  <2>3. \A v \in Threads : st2[v] # "Running" => v # t
    BY Zenon, <1>4
  <2>4. \A v \in Threads, x \in Queue : v # t /\ v = h[x] => v = h2[x]
    BY Zenon, <1>3, <1>7
  <2> QED
    BY <1>3, <1>4, <2>1, <2>2, <2>3, <2>4 DEF WellFormed, Kept
<1>11. TailOk(q2, st2)
  BY <1>1, <1>3, <1>4, <1>5, NullNotThread DEF WellFormed, TailOk, ListType, Link0
<1> QED
  BY Zenon, <1>2, <1>8, <1>9, <1>10, <1>11 DEF WellFormed, q2, h2, st2, t

\* A thread on no list changes to another state that needs none.
LEMMA Relabel ==
  ASSUME NEW q, NEW s, NEW r, NEW h, NEW st, WellFormed(q, s, r, h, st),
         NEW t \in Threads, st[t] \notin Queued,
         NEW x \in ThreadState, x \notin Queued
  PROVE  WellFormed(q, s, r, h, [st EXCEPT ![t] = x])
<1> DEFINE st2 == [st EXCEPT ![t] = x]
<1>1. /\ q.next[t] = Null /\ \A u \in Threads : q.next[u] # t
      /\ t # q.head /\ t # s /\ t # r /\ \A w \in Queue : t # h[w]
      /\ t # q.tail /\ t # Null
  BY Zenon, OffLists
<1>2. ListType(q, s, r, h, st2)
  BY Zenon DEF WellFormed, ListType
<1>3. st2[t] = x /\ \A u \in Threads : u # t => st2[u] = st[u]
  BY Zenon DEF WellFormed, ListType
<1> HIDE DEF st2
<1>4. Links(q, s, r, h, st2)
  BY <1>1, <1>3 DEF WellFormed, Links, ListType, Link0
<1>5. Fronts(q, s, r, h, st2)
  BY ZenonT(30), <1>1, <1>3 DEF WellFormed, Fronts, ListType, Link0
<1>6. Kept(q, s, r, h, st2)
  BY Zenon, <1>3 DEF WellFormed, Kept, Queued
<1>7. TailOk(q, st2)
  BY Zenon, <1>1, <1>3 DEF WellFormed, TailOk, ListType, Link0
<1> QED
  BY Zenon, <1>2, <1>4, <1>5, <1>6, <1>7 DEF WellFormed, st2

\* Cutting a link that the next write sets anyway changes nothing.
LEMMA CutFirst ==
  ASSUME NEW q \in [head : Link0, tail : Link0, next : [Threads -> Link0]],
         NEW t \in Threads, NEW x \in Link0
  PROVE  /\ Enqueue(Link(q, t, Null), t) = Enqueue(q, t)
         /\ Link(Link(q, t, Null), t, x) = Link(q, t, x)
  BY ZenonT(30) DEF Enqueue, Link

----------------------------------------------------------------------------
(* The invariant                                                            *)

AsUsed == WakeTargets = {} /\ Parks \cap Cpu = {}

Outside == {"run", "isr", "iret"}

\* Where a CPU is, against the lock, the interrupt flag and the handler of the
\* thread on it.
ControlInv ==
    /\ LockHandedOver
    /\ \A c \in Cpu :
        /\ pc[c] = "run" => inIsr[current[c]] \notin Handlers
        /\ pc[c] \in {"isr", "iret"} => inIsr[current[c]] \in Handlers
        /\ pc[c] \notin {"panic", "detaching"}
        /\ pc[c] = "draining" => arg \in Queue

\* The flags a thread will unlock with: on, unless it is in a handler
\* or in a call of its program.
FlagsInv ==
    \A t \in Threads :
        (\A c \in Cpu : current[c] = t => pc[c] \notin Outside)
            => (flags[t] = "on" <=> inIsr[t] = "no")

\* A thread is on one CPU, an idle thread on its own, and between set_current
\* and context_switch a CPU is on the stack of a thread that is on none.
PlaceInv ==
    \A c, d \in Cpu :
        /\ c # d => current[c] # current[d]
        /\ current[c] = d => c = d
        /\ pc[c] # "switch" => stack[c] = current[c]
        /\ pc[c] = "switch" => stack[c] # current[d]

\* The threads marked running, and the ones that exited.
StateInv ==
    /\ \A t \in Threads :
           state[t] = "Running" <=> t \in Cpu \/ \E c \in Cpu : t = current[c]
    /\ \A t \in exited : state[t] = "Dead"

\* A thread under construction is nobody else's and on no list.
BirthInv ==
    /\ \A u \in Threads : spawning[u] # Null => state[spawning[u]] = "Unborn"
    /\ \A u, v \in Threads : spawning[u] # Null /\ spawning[u] = spawning[v] => u = v

\* The sample yield() took of the clock is not in the future.
TimeInv == now <= clock

IndInv ==
    /\ TypeOK /\ WellFormed(rq, sleepers, remaining, head, state)
    /\ ControlInv /\ FlagsInv /\ PlaceInv /\ StateInv /\ BirthInv
    /\ AliveCounted /\ TimeInv

\* The invariant gives the properties of the specification.
LEMMA IndInvImplies ==
  IndInv => /\ OneCpuPerThread /\ LockHandedOver /\ NeverBackFromTheDead
            /\ ListsDisjoint /\ NoThreadLost
<1> SUFFICES ASSUME IndInv
             PROVE  /\ OneCpuPerThread /\ LockHandedOver /\ NeverBackFromTheDead
                    /\ ListsDisjoint /\ NoThreadLost
  BY Zenon
<1>1. OneCpuPerThread
  <2> SUFFICES ASSUME NEW c \in Cpu, NEW d \in Cpu, c # d
               PROVE  current[c] # current[d] /\ stack[c] # stack[d]
    BY Zenon DEF OneCpuPerThread
  <2>1. pc[c] # "switch" \/ pc[d] # "switch"
    BY Zenon DEF IndInv, ControlInv, LockHandedOver, UnderLock
  <2> QED
    BY <2>1 DEF IndInv, PlaceInv
<1>2. LockHandedOver
  BY Zenon DEF IndInv, ControlInv
<1>3. NeverBackFromTheDead
  <2>1. \A c \in Cpu : current[c] \in Threads /\ state[current[c]] = "Running"
    BY Zenon DEF IndInv, StateInv, TypeOK
  <2> QED
    BY Zenon, <2>1 DEF IndInv, StateInv, ControlInv, NeverBackFromTheDead
<1>4. ListsDisjoint
  BY ZenonT(30) DEF IndInv, WellFormed, Links, Fronts, Queued, ListsDisjoint
<1>5. NoThreadLost
  BY Zenon DEF IndInv, WellFormed, Kept, TailOk, StateInv, NoThreadLost
<1> QED
  BY Zenon, <1>1, <1>2, <1>3, <1>4, <1>5

\* What is used of finite sets; CountingHolds proves it.
Counting ==
    /\ Cardinality({}) = 0
    /\ \A S : IsFiniteSet(S) => \A T \in SUBSET S : IsFiniteSet(T)
    /\ \A S, x : IsFiniteSet(S) /\ x \notin S => Cardinality(S \cup {x}) = Cardinality(S) + 1
    /\ \A S, x : IsFiniteSet(S) /\ x \in S =>
         Cardinality(S \ {x}) = Cardinality(S) - 1 /\ Cardinality(S \ {x}) \in Nat

\* Every CPU starts on its idle thread, with empty lists.
LEMMA InitInd == ASSUME Counting PROVE Init => IndInv
<1> SUFFICES ASSUME Init PROVE IndInv
  BY Zenon
<1> USE SchedulerAssumption DEF Init
<1>1. TypeOK
  <2>1. rq \in [head : Threads \cup {Null}, tail : Threads \cup {Null},
                next : [Threads -> Threads \cup {Null}]]
    BY Zenon
  <2>2. state \in [Threads -> ThreadState] /\ spawning \in [Threads -> Worker \cup {Null}]
    BY Zenon DEF ThreadState
  <2>3. current \in [Cpu -> Threads] /\ stack \in [Cpu -> Threads]
    BY Zenon DEF Threads
  <2>4. pc \in [Cpu -> PcValue] /\ irq \in [Cpu -> {"on", "off"}]
    BY Zenon DEF PcValue
  <2>5. inIsr \in [Threads -> Handlers \cup {"no", "call"}] /\ flags \in [Threads -> {"on", "off"}]
    BY Zenon
  <2>6. wake_at \in [Threads -> Nat] /\ head \in [Queue -> Threads \cup {Null}]
    BY Zenon
  <2> QED
    BY Zenon, <2>1, <2>2, <2>3, <2>4, <2>5, <2>6 DEF TypeOK
<1>2. WellFormed(rq, sleepers, remaining, head, state)
  <2>1. ListType(rq, sleepers, remaining, head, state)
    BY Zenon, <1>1 DEF TypeOK, ListType, Link0
  <2>2. Links(rq, sleepers, remaining, head, state)
        /\ Fronts(rq, sleepers, remaining, head, state)
    BY Zenon DEF Links, Fronts
  <2>3. Kept(rq, sleepers, remaining, head, state) /\ TailOk(rq, state)
    BY Zenon DEF Kept, TailOk
  <2> QED
    BY Zenon, <2>1, <2>2, <2>3 DEF WellFormed
<1>3. ControlInv
  <2>1. "no" \notin Handlers /\ "run" \notin UnderLock /\ "run" \notin {"isr", "iret", "panic", "detaching"} /\ "run" # "draining"
    BY DEF Handlers, UnderLock
  <2>2. \A c \in Cpu : pc[c] = "run" /\ irq[c] = "on" /\ inIsr[current[c]] = "no" /\ owner # c
    BY Zenon DEF Threads
  <2> QED
    BY Zenon, <2>1, <2>2 DEF ControlInv, LockHandedOver, Self
<1>4. FlagsInv /\ PlaceInv
  BY Zenon DEF FlagsInv, PlaceInv
<1>5. StateInv /\ BirthInv /\ TimeInv
  BY DEF StateInv, BirthInv, TimeInv, Threads
<1>6. AliveCounted
  <2>1. {t \in Worker : state[t] \notin {"Unborn", "Dead"} /\ t \notin exited} = {}
    BY Zenon DEF Threads
  <2> QED
    BY Zenon, <2>1 DEF Counting, AliveCounted
<1> QED
  BY Zenon, <1>1, <1>2, <1>3, <1>4, <1>5, <1>6 DEF IndInv

----------------------------------------------------------------------------
(* Parts of the invariant that an action does not touch.                   *)

\* Nobody touches a link or a state.
LEMMA ListsFrame ==
  ASSUME IndInv, UNCHANGED <<lists, state>>
  PROVE  WellFormed(rq, sleepers, remaining, head, state)'
  BY Zenon DEF IndInv, lists

\* Nobody changes state or place.
LEMMA StateFrame ==
  ASSUME IndInv, UNCHANGED <<state, current, exited>>
  PROVE  StateInv'
  BY Zenon DEF IndInv, StateInv

\* Nobody is spawned.
LEMMA BirthFrame ==
  ASSUME IndInv, UNCHANGED <<state, spawning>>
  PROVE  BirthInv'
  BY Zenon DEF IndInv, BirthInv

\* Nobody is born, exits or dies.
LEMMA CountFrame ==
  ASSUME IndInv, UNCHANGED <<state, exited, threads_alive>>
  PROVE  AliveCounted'
  BY Zenon DEF IndInv, AliveCounted

\* A CPU moves between labels other than switch and nobody changes place.
LEMMA PlaceFrame ==
  ASSUME IndInv, NEW c \in Cpu, UNCHANGED <<current, stack>>,
         NEW l \in PcValue, l # "switch", pc[c] # "switch", Goto(c, l)
  PROVE  PlaceInv'
<1>1. pc'[c] = l /\ \A d \in Cpu : d # c => pc'[d] = pc[d]
  BY Zenon DEF Goto, IndInv, TypeOK
<1> QED
  BY <1>1 DEF IndInv, PlaceInv

\* The thread on a CPU is one of the threads, and on no other CPU.
LEMMA SelfFacts ==
  ASSUME IndInv, NEW c \in Cpu
  PROVE  /\ Self(c) \in Threads /\ state[Self(c)] = "Running"
         /\ \A d \in Cpu : current[d] = Self(c) => d = c
  BY Zenon DEF IndInv, TypeOK, StateInv, PlaceInv, Self

\* What the invariant says of one CPU.
Settled(c) ==
    /\ owner = c <=> pc[c] \in UnderLock
    /\ irq[c] = "on" <=> pc[c] = "run" /\ inIsr[current[c]] = "no"
    /\ pc[c] = "run" => inIsr[current[c]] \notin Handlers
    /\ pc[c] \in {"isr", "iret"} => inIsr[current[c]] \in Handlers
    /\ pc[c] \notin {"panic", "detaching"}
    /\ pc[c] = "draining" => arg \in Queue

OthersStay(c) ==
    \A d \in Cpu : d # c =>
        /\ pc'[d] = pc[d] /\ irq'[d] = irq[d]
        /\ inIsr'[current'[d]] = inIsr[current[d]]
        /\ owner' = d <=> owner = d
        /\ pc[d] = "draining" => arg' \in Queue

\* A step of one CPU leaves the others as they are.
LEMMA ControlStep ==
  ASSUME IndInv, NEW c \in Cpu, Settled(c)', OthersStay(c)
  PROVE  ControlInv'
<1>0. ControlInv
  BY Zenon DEF IndInv
<1>1. ASSUME NEW d \in Cpu PROVE Settled(d)'
  <2>1. CASE d = c
    BY Zenon, <2>1 DEF Settled
  <2>2. CASE d # c
    <3>1. Settled(d)
      BY <1>0 DEF ControlInv, LockHandedOver, Settled, Self
    <3> QED
      BY <2>2, <3>1 DEF Settled, OthersStay
  <2> QED
    BY Zenon, <2>1, <2>2
<1> QED
  BY Zenon, <1>1 DEF ControlInv, LockHandedOver, Settled, Self

\* A CPU that holds the lock is settled, whichever thread is on it.
LEMMA HolderSettled ==
  ASSUME NEW c \in Cpu, owner' = c, irq'[c] = "off", pc'[c] \in UnderLock, pc'[c] # "detaching",
         pc'[c] = "draining" => arg' \in Queue
  PROVE  Settled(c)'
<1>1. pc'[c] \notin {"run", "isr", "iret", "panic"} /\ "off" # "on"
  BY DEF UnderLock
<1> QED
  BY Zenon, <1>1 DEF Settled

\* Taking sched_lock on the way to a label under it.
LEMMA LockTaken ==
  ASSUME IndInv, NEW c \in Cpu, pc[c] \in {"run", "isr"}, Lock(c),
         NEW l \in UnderLock, l # "detaching", Goto(c, l), UNCHANGED <<inIsr>>,
         l = "draining" => arg' \in Queue,
         \A d \in Cpu : d # c => current'[d] = current[d]
  PROVE  /\ owner' \in Cpu \cup {Null} /\ irq' \in [Cpu -> {"on", "off"}]
         /\ flags' \in [Threads -> {"on", "off"}] /\ pc' \in [Cpu -> PcValue]
         /\ ControlInv'
         /\ flags'[Self(c)] = "on" <=> inIsr[Self(c)] = "no"
         /\ \A t \in Threads : t # Self(c) => flags'[t] = flags[t]
         /\ pc'[c] = l /\ \A d \in Cpu : d # c => pc'[d] = pc[d]
<1>1. l \in PcValue /\ pc'[c] = l /\ \A d \in Cpu : d # c => pc'[d] = pc[d]
  BY ZenonT(30) DEF Goto, IndInv, TypeOK, UnderLock, PcValue
<1>2. irq'[c] = "off" /\ \A d \in Cpu : d # c => irq'[d] = irq[d]
  BY ZenonT(30) DEF Lock, IndInv, TypeOK
<1>3. /\ owner' \in Cpu \cup {Null} /\ irq' \in [Cpu -> {"on", "off"}]
      /\ flags' \in [Threads -> {"on", "off"}] /\ pc' \in [Cpu -> PcValue]
  BY Zenon, <1>1, SelfFacts DEF Lock, Goto, IndInv, TypeOK
<1>4. owner = Null /\ owner' = c /\ \A d \in Cpu : d # Null
  BY Zenon, SchedulerAssumption DEF Lock
<1>5. \A d \in Cpu : pc[d] \notin UnderLock
  BY Zenon, <1>4 DEF IndInv, ControlInv, LockHandedOver
<1>6. Settled(c)'
  BY Zenon, <1>1, <1>2, <1>4, HolderSettled
<1>7. ControlInv'
  <2>1. "draining" \in UnderLock
    BY DEF UnderLock
  <2>2. OthersStay(c)
    BY Zenon, <1>1, <1>2, <1>4, <1>5, <2>1 DEF OthersStay
  <2> QED
    BY Zenon, <1>6, <2>2, ControlStep
<1>8. irq[c] = "on" <=> inIsr[Self(c)] = "no"
  <2>1. "no" \notin Handlers
    BY DEF Handlers
  <2> QED
    BY Zenon, <2>1 DEF IndInv, ControlInv, LockHandedOver, Self
<1>9. /\ flags'[Self(c)] = irq[c]
      /\ \A t \in Threads : t # Self(c) => flags'[t] = flags[t]
  BY Zenon, SelfFacts DEF Lock, IndInv, TypeOK
<1> QED
  BY Zenon, <1>1, <1>3, <1>7, <1>8, <1>9

\* Yield and WakeAll only take the lock.
LEMMA LockOnly ==
  ASSUME IndInv, NEW c \in Cpu, pc[c] \in {"run", "isr"}, Lock(c),
         NEW l \in {"waking", "draining"}, Goto(c, l),
         l = "draining" => arg' \in Queue,
         arg' \in Threads \cup Queue \cup {Null},
         now' \in Nat, now' <= clock,
         UNCHANGED <<lists, state, wake_at, births, where, inIsr, link, clock>>
  PROVE  IndInv'
<1>0. UNCHANGED <<current, stack, spawning, exited, threads_alive>>
  BY Zenon DEF where, births
<1>1. /\ owner' \in Cpu \cup {Null} /\ irq' \in [Cpu -> {"on", "off"}]
      /\ flags' \in [Threads -> {"on", "off"}] /\ pc' \in [Cpu -> PcValue]
      /\ ControlInv'
      /\ flags'[Self(c)] = "on" <=> inIsr[Self(c)] = "no"
      /\ \A t \in Threads : t # Self(c) => flags'[t] = flags[t]
      /\ pc'[c] = l /\ \A d \in Cpu : d # c => pc'[d] = pc[d]
  BY ZenonT(30), <1>0, LockTaken DEF UnderLock
<1>2. TypeOK'
  BY Zenon, <1>1 DEF IndInv, TypeOK, lists, births, where
<1>3. FlagsInv'
  BY <1>0, <1>1 DEF IndInv, FlagsInv, Self
<1>4. PlaceInv'
  BY Zenon, <1>0, PlaceFrame DEF PcValue
<1>5. TimeInv'
  BY Zenon DEF TimeInv
<1> QED
  BY Zenon, <1>0, <1>1, <1>2, <1>3, <1>4, <1>5, ListsFrame, StateFrame, BirthFrame,
     CountFrame DEF IndInv

\* thread_yield() and the tick enter the pass over the sleepers.
LEMMA YieldInd ==
  ASSUME IndInv, NEW c \in Cpu, Yield(c)
  PROVE  IndInv'
<1>1. pc[c] \in {"run", "isr"}
  BY Zenon DEF Yield, InThread
<1>2. now' \in Nat /\ now' <= clock /\ arg' \in Threads \cup Queue \cup {Null}
  BY DEF Yield, IndInv, TypeOK, loop
<1> QED
  BY Zenon, <1>1, <1>2, LockOnly DEF Yield, loop

\* WaitQueue::wake_all() takes the lock.
LEMMA WakeAllInd ==
  ASSUME IndInv, NEW c \in Cpu, NEW w \in Queue, WakeAll(c, w)
  PROVE  IndInv'
<1>1. pc[c] \in {"run", "isr"}
  BY Zenon DEF WakeAll, InThread
<1>2. now' \in Nat /\ now' <= clock /\ arg' = w
  BY Zenon DEF WakeAll, IndInv, TypeOK, TimeInv, time
<1> QED
  BY Zenon, <1>1, <1>2, LockOnly DEF WakeAll, time

----------------------------------------------------------------------------
(* Switching to another thread.                                             *)

\* A thread that is current nowhere becomes current on c.
LEMMA SwitchPlace ==
  ASSUME IndInv, NEW c \in Cpu, NEW next \in Threads, SetCurrent(c, next),
         \A d \in Cpu : current[d] # next, next \in Cpu => next = c,
         pc[c] # "switch", owner \in {Null, c}
  PROVE  /\ PlaceInv' /\ current' \in [Cpu -> Threads] /\ Goto(c, "switch")
         /\ current'[c] = next /\ \A d \in Cpu : d # c => current'[d] = current[d]
         /\ stack' = stack
<1>1. next # Self(c)
  BY Zenon DEF Self
<1>2. Goto(c, "switch") /\ stack' = stack
  BY Zenon, <1>1 DEF SetCurrent
<1>3. pc'[c] = "switch" /\ \A d \in Cpu : d # c => pc'[d] = pc[d]
  BY Zenon, <1>2 DEF Goto, IndInv, TypeOK
<1>4. /\ current' \in [Cpu -> Threads] /\ current'[c] = next
      /\ \A d \in Cpu : d # c => current'[d] = current[d]
  BY Zenon DEF SetCurrent, IndInv, TypeOK
<1>5. stack[c] = current[c]
  BY Zenon DEF IndInv, PlaceInv
<1>6. PlaceInv'
  <2> SUFFICES ASSUME NEW e \in Cpu, NEW d \in Cpu
               PROVE  /\ e # d => current'[e] # current'[d]
                      /\ current'[e] = d => e = d
                      /\ pc'[e] # "switch" => stack'[e] = current'[e]
                      /\ pc'[e] = "switch" => stack'[e] # current'[d]
    BY Zenon DEF PlaceInv
  <2>1. e # d => current'[e] # current'[d]
    BY <1>4 DEF IndInv, PlaceInv
  <2>2. current'[e] = d => e = d
    BY <1>4 DEF IndInv, PlaceInv
  <2>3. pc'[e] # "switch" => stack'[e] = current'[e]
    BY Zenon, <1>2, <1>3, <1>4 DEF IndInv, PlaceInv
  <2>4. pc'[e] = "switch" => stack'[e] # current'[d]
    <3>1. CASE e = c
      BY <1>2, <1>4, <1>5, <3>1 DEF IndInv, PlaceInv
    <3>2. CASE e # c
      BY <1>3, <3>2, SchedulerAssumption
         DEF IndInv, ControlInv, LockHandedOver, UnderLock
    <3> QED
      BY Zenon, <3>1, <3>2
  <2> QED
    BY Zenon, <2>1, <2>2, <2>3, <2>4
<1> QED
  BY Zenon, <1>2, <1>4, <1>6

\* sleep, wait and exit: the caller is on a list or dead already and the front
\* of the run queue, or the idle thread, takes its place.
LEMMA GiveUp ==
  ASSUME IndInv, AsUsed, NEW c \in Cpu, InThread(c), Self(c) \in Parks, Lock(c),
         NEW q, NEW s \in {"Sleeping", "Blocked", "Dead"}, SwitchAway(c, q, s),
         WellFormed(q, sleepers', remaining', head', [state EXCEPT ![Self(c)] = s]),
         UNCHANGED <<spawning, inIsr, loop, time>>
  PROVE  /\ WellFormed(rq, sleepers, remaining, head, state)'
         /\ ControlInv' /\ FlagsInv' /\ PlaceInv' /\ BirthInv' /\ TimeInv'
         /\ current' \in [Cpu -> Threads] /\ stack' = stack
         /\ owner' \in Cpu \cup {Null} /\ irq' \in [Cpu -> {"on", "off"}]
         /\ flags' \in [Threads -> {"on", "off"}] /\ pc' \in [Cpu -> PcValue]
         /\ \A t \in Threads : state'[t] = "Running" <=> t \in Cpu \/ \E d \in Cpu : t = current'[d]
         /\ state'[Self(c)] = s
         /\ \A t \in Threads : t # Self(c) => state'[t] = state[t] \/ (state[t] = "Ready" /\ state'[t] = "Running")
<1> DEFINE self == Self(c)
           st == [state EXCEPT ![self] = s]
           next == IF q.head = Null THEN c ELSE q.head
<1>1. /\ self \in Threads /\ self \notin Cpu /\ state[self] = "Running"
      /\ \A d \in Cpu : current[d] = self => d = c
  BY Zenon, SelfFacts DEF AsUsed
<1>2. state \in [Threads -> ThreadState] /\ c \in Threads /\ c # self
  BY Zenon, <1>1 DEF IndInv, TypeOK, Threads
<1>3. st[self] = s /\ \A t \in Threads : t # self => st[t] = state[t]
  BY ZenonT(30), <1>1, <1>2
<1>4. q.head # Null => q.head \in Threads /\ st[q.head] = "Ready"
  BY Zenon DEF WellFormed, Fronts, ListType, Link0
<1>5. next \in Threads /\ next # self /\ state[next] \in {"Ready", "Running"}
  BY Zenon, <1>1, <1>2, <1>3, <1>4 DEF IndInv, StateInv
<1>6. next \in Cpu => next = c
  BY Zenon, <1>2, <1>3, <1>4, <1>5 DEF IndInv, StateInv
<1>7. \A d \in Cpu : current[d] # next
  BY <1>1, <1>2, <1>3, <1>4, <1>5 DEF IndInv, StateInv, PlaceInv, Self
<1>8. state' = [st EXCEPT ![next] = "Running"]
  BY Zenon, <1>1, <1>2, <1>5 DEF SwitchAway
<1>9. WellFormed(rq, sleepers, remaining, head, state)'
  <2>1. CASE q.head = Null
    <3>1. st[c] = "Running"
      BY Zenon, <1>2, <1>3 DEF IndInv, StateInv
    <3>2. WellFormed(q, sleepers', remaining', head', [st EXCEPT ![c] = "Running"])
      BY <1>2, <3>1, Relabel, ZenonT(30) DEF ThreadState, Queued
    <3> QED
      BY Zenon, <1>8, <2>1, <3>2 DEF SwitchAway
  <2>2. CASE q.head # Null
    <3>1. rq' = Dequeue(q)
      BY Zenon, <2>2 DEF SwitchAway
    <3>2. state' = [st EXCEPT ![q.head] = "Running"]
      BY Zenon, <1>8, <2>2
    <3>3. WellFormed(Dequeue(q), sleepers', remaining', head',
                     [st EXCEPT ![q.head] = "Running"])
      BY <2>2, TakeReady, ZenonT(30)
    <3> QED
      BY Zenon, <3>1, <3>2, <3>3
  <2> QED
    BY Zenon, <2>1, <2>2
<1>10. SetCurrent(c, next)
  BY Zenon DEF SwitchAway
<1>11. pc[c] = "run" /\ owner = Null
  BY Zenon DEF InThread, Lock
<1> HIDE DEF self, st, next
<1>12. /\ PlaceInv' /\ current' \in [Cpu -> Threads] /\ Goto(c, "switch")
       /\ current'[c] = next /\ \A d \in Cpu : d # c => current'[d] = current[d]
       /\ stack' = stack
  BY Zenon, <1>5, <1>6, <1>7, <1>10, <1>11, SwitchPlace
<1>13. /\ owner' \in Cpu \cup {Null} /\ irq' \in [Cpu -> {"on", "off"}]
       /\ flags' \in [Threads -> {"on", "off"}] /\ pc' \in [Cpu -> PcValue]
       /\ ControlInv'
       /\ flags'[Self(c)] = "on" <=> inIsr[Self(c)] = "no"
       /\ \A t \in Threads : t # Self(c) => flags'[t] = flags[t]
       /\ pc'[c] = "switch" /\ \A d \in Cpu : d # c => pc'[d] = pc[d]
  BY ZenonT(30), <1>11, <1>12, LockTaken DEF UnderLock
<1>14. FlagsInv'
  BY <1>7, <1>12, <1>13 DEF IndInv, FlagsInv, Self, Outside
<1>15. /\ state'[self] = s /\ state'[next] = "Running"
       /\ \A t \in Threads : t # self /\ t # next => state'[t] = state[t]
  BY Zenon, <1>1, <1>2, <1>3, <1>5, <1>8 DEF st
<1>16. \A t \in Threads :
           state'[t] = "Running" <=> t \in Cpu \/ \E d \in Cpu : t = current'[d]
  <2>1. ASSUME NEW t \in Threads, t # self, t # next
        PROVE  state'[t] = "Running" <=> t \in Cpu \/ \E d \in Cpu : t = current'[d]
    <3>1. t # current[c] /\ t # current'[c]
      BY Zenon, <1>12, <2>1 DEF self, Self
    <3> QED
      BY <1>12, <1>15, <2>1, <3>1 DEF IndInv, StateInv
  <2>2. state'[self] # "Running" /\ self \notin Cpu /\ \A d \in Cpu : self # current'[d]
    BY Zenon, <1>1, <1>5, <1>12, <1>15
  <2> QED
    BY Zenon, <1>12, <1>15, <2>1, <2>2
<1>17. BirthInv'
  <2>1. \A u \in Threads : spawning[u] # Null =>
            spawning[u] \in Threads /\ spawning[u] # self /\ spawning[u] # next
    BY <1>1, <1>5 DEF IndInv, BirthInv, TypeOK, Threads
  <2> QED
    BY ZenonT(30), <1>15, <2>1 DEF IndInv, BirthInv
<1>18. TimeInv'
  BY Zenon DEF IndInv, TimeInv, time
<1>19. state[next] = "Running" \/ state[next] = "Ready"
  BY Zenon, <1>5
<1> QED
  BY ZenonT(30), <1>9, <1>12, <1>13, <1>14, <1>15, <1>16, <1>17, <1>18, <1>19 DEF self

\* The threads threads_alive counts.
AliveSet == {t \in Worker : state[t] \notin {"Unborn", "Dead"} /\ t \notin exited}

\* The count stays while the same threads are alive.
LEMMA CountSame ==
  ASSUME IndInv, UNCHANGED threads_alive, exited' = exited,
         \A t \in Worker : state'[t] \in {"Unborn", "Dead"} <=> state[t] \in {"Unborn", "Dead"}
  PROVE  AliveCounted'
<1>1. AliveSet' = AliveSet
  BY Zenon DEF AliveSet
<1> QED
  BY Zenon, <1>1 DEF AliveSet, AliveCounted, IndInv

\* thread_sleep() puts its thread before the sleepers.
LEMMA ThreadSleepInd ==
  ASSUME IndInv, AsUsed, NEW c \in Cpu, NEW d \in 0..MaxTime, ThreadSleep(c, d)
  PROVE  IndInv'
<1> DEFINE q == Link(rq, Self(c), sleepers)
<1>1. Self(c) \in Threads /\ state[Self(c)] = "Running"
  BY Zenon, SelfFacts
<1>2. WellFormed(q, sleepers', remaining', head', [state EXCEPT ![Self(c)] = "Sleeping"])
  BY Zenon, <1>1, PutSleeper DEF ThreadSleep, IndInv, Queued
<1>3. /\ InThread(c) /\ Self(c) \in Parks /\ Lock(c) /\ SwitchAway(c, q, "Sleeping")
      /\ UNCHANGED <<spawning, inIsr, loop, time>>
      /\ UNCHANGED <<threads_alive, exited>>
  BY Zenon DEF ThreadSleep, births
<1>4. wake_at' \in [Threads -> Nat]
  BY <1>1 DEF ThreadSleep, IndInv, TypeOK
<1> HIDE DEF q
<1>5. /\ WellFormed(rq, sleepers, remaining, head, state)'
      /\ ControlInv' /\ FlagsInv' /\ PlaceInv' /\ BirthInv' /\ TimeInv'
      /\ current' \in [Cpu -> Threads] /\ stack' = stack
      /\ owner' \in Cpu \cup {Null} /\ irq' \in [Cpu -> {"on", "off"}]
      /\ flags' \in [Threads -> {"on", "off"}] /\ pc' \in [Cpu -> PcValue]
      /\ \A t \in Threads : state'[t] = "Running" <=> t \in Cpu \/ \E e \in Cpu : t = current'[e]
      /\ state'[Self(c)] = "Sleeping"
      /\ \A t \in Threads : t # Self(c) => state'[t] = state[t] \/ (state[t] = "Ready" /\ state'[t] = "Running")
  BY <1>2, <1>3, GiveUp, ZenonT(30)
<1>6. TypeOK'
  <2>1. ListType(rq, sleepers, remaining, head, state)'
    BY ZenonT(30), <1>5 DEF WellFormed
  <2> QED
    BY Zenon, <1>3, <1>4, <1>5, <2>1 DEF IndInv, TypeOK, ListType, Link0, loop, time
<1>7. StateInv'
  BY <1>1, <1>3, <1>5 DEF IndInv, StateInv, TypeOK, Threads
<1>8. AliveCounted'
  BY ZenonT(30), <1>1, <1>3, <1>5, CountSame DEF Threads
<1> QED
  BY Zenon, <1>5, <1>6, <1>7, <1>8 DEF IndInv

\* WaitQueue::wait() puts its thread before the waiters.
LEMMA WaitInd ==
  ASSUME IndInv, AsUsed, NEW c \in Cpu, NEW w \in Queue, Wait(c, w)
  PROVE  IndInv'
<1> DEFINE q == Link(rq, Self(c), head[w])
<1>1. Self(c) \in Threads /\ state[Self(c)] = "Running"
  BY Zenon, SelfFacts
<1>2. WellFormed(q, sleepers', remaining', head', [state EXCEPT ![Self(c)] = "Blocked"])
  BY <1>1, PutBlocked, ZenonT(30) DEF Wait, IndInv, Queued
<1>3. /\ InThread(c) /\ Self(c) \in Parks /\ Lock(c) /\ SwitchAway(c, q, "Blocked")
      /\ UNCHANGED <<spawning, inIsr, loop, time>>
      /\ UNCHANGED <<threads_alive, exited, wake_at>>
  BY Zenon DEF Wait, births
<1> HIDE DEF q
<1>5. /\ WellFormed(rq, sleepers, remaining, head, state)'
      /\ ControlInv' /\ FlagsInv' /\ PlaceInv' /\ BirthInv' /\ TimeInv'
      /\ current' \in [Cpu -> Threads] /\ stack' = stack
      /\ owner' \in Cpu \cup {Null} /\ irq' \in [Cpu -> {"on", "off"}]
      /\ flags' \in [Threads -> {"on", "off"}] /\ pc' \in [Cpu -> PcValue]
      /\ \A t \in Threads : state'[t] = "Running" <=> t \in Cpu \/ \E e \in Cpu : t = current'[e]
      /\ state'[Self(c)] = "Blocked"
      /\ \A t \in Threads : t # Self(c) => state'[t] = state[t] \/ (state[t] = "Ready" /\ state'[t] = "Running")
  BY <1>2, <1>3, GiveUp, ZenonT(30)
<1>6. TypeOK'
  <2>1. ListType(rq, sleepers, remaining, head, state)'
    BY ZenonT(30), <1>5 DEF WellFormed
  <2> QED
    BY Zenon, <1>3, <1>5, <2>1 DEF IndInv, TypeOK, ListType, Link0, loop, time
<1>7. StateInv'
  BY <1>1, <1>3, <1>5 DEF IndInv, StateInv, TypeOK, Threads
<1>8. AliveCounted'
  BY ZenonT(30), <1>1, <1>3, <1>5, CountSame DEF Threads
<1> QED
  BY Zenon, <1>5, <1>6, <1>7, <1>8 DEF IndInv

\* thread_exit() leaves every list and one thread less.
LEMMA ThreadExitInd ==
  ASSUME Counting, IndInv, AsUsed, NEW c \in Cpu, ThreadExit(c)
  PROVE  IndInv'
<1>1. /\ Self(c) \in Threads /\ state[Self(c)] = "Running" /\ Self(c) \in Worker
      /\ Self(c) \notin exited
  BY Zenon, SelfFacts DEF ThreadExit, IndInv, StateInv
<1>2. WellFormed(rq, sleepers', remaining', head', [state EXCEPT ![Self(c)] = "Dead"])
  BY <1>1, Relabel, ZenonT(30) DEF ThreadExit, IndInv, Queued, ThreadState
<1>3. /\ InThread(c) /\ Self(c) \in Parks /\ Lock(c) /\ SwitchAway(c, rq, "Dead")
      /\ UNCHANGED <<spawning, inIsr, loop, time>>
      /\ exited' = exited \cup {Self(c)} /\ UNCHANGED wake_at
      /\ threads_alive' = threads_alive - 1
  BY Zenon DEF ThreadExit, CountDown
<1>5. /\ WellFormed(rq, sleepers, remaining, head, state)'
      /\ ControlInv' /\ FlagsInv' /\ PlaceInv' /\ BirthInv' /\ TimeInv'
      /\ current' \in [Cpu -> Threads] /\ stack' = stack
      /\ owner' \in Cpu \cup {Null} /\ irq' \in [Cpu -> {"on", "off"}]
      /\ flags' \in [Threads -> {"on", "off"}] /\ pc' \in [Cpu -> PcValue]
      /\ \A t \in Threads : state'[t] = "Running" <=> t \in Cpu \/ \E e \in Cpu : t = current'[e]
      /\ state'[Self(c)] = "Dead"
      /\ \A t \in Threads : t # Self(c) => state'[t] = state[t] \/ (state[t] = "Ready" /\ state'[t] = "Running")
  BY <1>2, <1>3, GiveUp, ZenonT(30)
<1>6. /\ IsFiniteSet(AliveSet) /\ Self(c) \in AliveSet
      /\ AliveSet' = AliveSet \ {Self(c)}
  <2>1. IsFiniteSet(AliveSet)
    BY Zenon, SchedulerAssumption DEF Counting, AliveSet
  <2>2. Self(c) \in AliveSet
    BY Zenon, <1>1 DEF AliveSet
  <2>3. AliveSet' = AliveSet \ {Self(c)}
    BY Zenon, <1>1, <1>3, <1>5 DEF AliveSet, Threads
  <2> QED
    BY Zenon, <2>1, <2>2, <2>3
<1>7. AliveCounted' /\ threads_alive' \in Nat
  <2>1. Cardinality(AliveSet) = threads_alive
    BY Zenon DEF AliveSet, AliveCounted, IndInv
  <2>2. Cardinality(AliveSet \ {Self(c)}) = Cardinality(AliveSet) - 1
    BY Zenon, <1>6 DEF Counting
  <2>3. Cardinality(AliveSet \ {Self(c)}) \in Nat
    BY Zenon, <1>6 DEF Counting
  <2>4. Cardinality(AliveSet') = threads_alive'
    BY ZenonT(30), <1>3, <1>6, <2>1, <2>2
  <2> QED
    BY Zenon, <1>6, <2>3, <2>4 DEF AliveSet, AliveCounted
<1>8. TypeOK'
  <2>1. ListType(rq, sleepers, remaining, head, state)'
    BY ZenonT(30), <1>5 DEF WellFormed
  <2> QED
    BY <1>1, <1>3, <1>5, <1>7, <2>1 DEF IndInv, TypeOK, ListType, Link0, loop, time
<1>9. StateInv'
  BY <1>1, <1>3, <1>5 DEF IndInv, StateInv, TypeOK, Threads
<1> QED
  BY Zenon, <1>5, <1>7, <1>8, <1>9 DEF IndInv

----------------------------------------------------------------------------
(* The rest of yield()                                                      *)

\* The holder of the lock goes on to the switch, or to the unlock behind it.
GoesOn(c) ==
    /\ pc[c] \in UnderLock /\ pc'[c] \in {"switch", "resume"}
    /\ UNCHANGED <<owner, irq, inIsr, arg>>
    /\ \A d \in Cpu : d # c => pc'[d] = pc[d] /\ current'[d] = current[d]

LEMMA StillHeld ==
  ASSUME IndInv, NEW c \in Cpu, GoesOn(c)
  PROVE  ControlInv'
<1>0. ControlInv /\ irq[c] \in {"on", "off"}
  BY Zenon DEF IndInv, TypeOK
<1>1. owner = c /\ irq[c] = "off"
  <2>1. pc[c] # "run" /\ pc[c] \in UnderLock
    BY DEF UnderLock, GoesOn
  <2> QED
    BY Zenon, <1>0, <2>1 DEF ControlInv, LockHandedOver
<1>2. pc'[c] \in UnderLock /\ pc'[c] # "detaching" /\ pc'[c] # "draining"
  BY DEF GoesOn, UnderLock
<1>3. Settled(c)'
  <2>1. owner' = c /\ irq'[c] = "off"
    BY Zenon, <1>1 DEF GoesOn
  <2> QED
    BY Zenon, <1>2, <2>1, HolderSettled
<1>4. \A d \in Cpu : pc[d] = "draining" => arg \in Queue
  BY Zenon, <1>0 DEF ControlInv
<1>5. OthersStay(c)
  BY Zenon, <1>4 DEF OthersStay, GoesOn
<1> QED
  BY Zenon, <1>3, <1>5, ControlStep

\* A holder of the lock, outside a switch, stays where it is.
LEMMA HolderStays ==
  ASSUME IndInv, UNCHANGED <<current, stack, pc, owner, irq, inIsr, flags, arg>>
  PROVE  ControlInv' /\ FlagsInv' /\ PlaceInv'
<1>1. ControlInv'
  BY Zenon DEF IndInv, ControlInv, LockHandedOver, Self
<1>2. FlagsInv'
  BY Zenon DEF IndInv, FlagsInv
<1>3. PlaceInv'
  BY ZenonT(30) DEF IndInv, PlaceInv
<1> QED
  BY Zenon, <1>1, <1>2, <1>3

\* A thread is taken from one list to another, or from none to the run queue:
\* nothing that counts running threads or threads under construction changes.
LEMMA Requeued ==
  ASSUME IndInv, NEW t \in Threads, state[t] \in Queued, NEW x \in Queued,
         state' = [state EXCEPT ![t] = x],
         UNCHANGED <<current, exited, spawning, threads_alive>>
  PROVE  StateInv' /\ BirthInv' /\ AliveCounted'
<1>1. state'[t] = x /\ \A u \in Threads : u # t => state'[u] = state[u]
  BY Zenon DEF IndInv, TypeOK
<1>2. StateInv'
  BY <1>1 DEF IndInv, StateInv, TypeOK, Threads, Queued
<1>3. BirthInv'
  <2>1. \A u \in Threads : spawning[u] # Null => spawning[u] \in Threads
    BY Zenon DEF IndInv, TypeOK, Threads
  <2> QED
    BY ZenonT(30), <1>1, <2>1 DEF IndInv, BirthInv, Queued
<1>4. AliveCounted'
  BY Zenon, <1>1, CountSame DEF Threads, Queued
<1> QED
  BY Zenon, <1>2, <1>3, <1>4

\* One round of wake_expired_sleepers().
LEMMA WakeExpiredInd ==
  ASSUME IndInv, NEW c \in Cpu, WakeExpired(c)
  PROVE  IndInv'
<1> DEFINE t == sleepers
           st == [state EXCEPT ![t] = "Running"]
<1>1. /\ t \in Threads /\ t # Null /\ state[t] = "Sleeping"
      /\ state \in [Threads -> ThreadState]
      /\ rq \in [head : Link0, tail : Link0, next : [Threads -> Link0]]
      /\ remaining \in Link0
  BY Zenon DEF WakeExpired, IndInv, TypeOK, WellFormed, Fronts, Link0
<1>2. WellFormed(Link(rq, t, Null), rq.next[t], remaining, head, st)
  BY <1>1, TakeSleeper, ZenonT(30) DEF IndInv
<1>3. st[t] = "Running" /\ "Running" \notin Queued
  BY Zenon, <1>1 DEF Queued
<1>4. UNCHANGED <<current, stack, pc, owner, irq, inIsr, flags, arg, link, exited,
                  spawning, threads_alive, wake_at, head, clock, now>>
  BY Zenon DEF WakeExpired, where, births, loop, time
<1>5. /\ WellFormed(rq, sleepers, remaining, head, state)'
      /\ \E x \in Queued : state' = [state EXCEPT ![t] = x]
  <2>1. CASE Expired(t)
    <3>1. WellFormed(Enqueue(Link(rq, t, Null), t), rq.next[t], remaining, head,
                     [st EXCEPT ![t] = "Ready"])
      BY Zenon, <1>1, <1>2, <1>3, PutReady
    <3>2. [st EXCEPT ![t] = "Ready"] = [state EXCEPT ![t] = "Ready"]
      BY Zenon, <1>1
    <3>3. Enqueue(Link(rq, t, Null), t) = Enqueue(rq, t)
      BY Zenon, <1>1, CutFirst
    <3>4. /\ rq' = Enqueue(rq, t) /\ sleepers' = rq.next[t] /\ remaining' = remaining
          /\ state' = [state EXCEPT ![t] = "Ready"]
      BY Zenon, <2>1 DEF WakeExpired
    <3> QED
      BY Zenon, <1>4, <3>1, <3>2, <3>3, <3>4 DEF Queued
  <2>2. CASE ~Expired(t)
    <3>1. WellFormed(Link(rq, t, Null), remaining, rq.next[t], head, st)
      BY Zenon, <1>2, SwapSleepers
    <3>2. WellFormed(Link(Link(rq, t, Null), t, remaining), t, rq.next[t], head,
                     [st EXCEPT ![t] = "Sleeping"])
      BY Zenon, <1>1, <1>3, <3>1, PutSleeper
    <3>3. WellFormed(Link(Link(rq, t, Null), t, remaining), rq.next[t], t, head,
                     [st EXCEPT ![t] = "Sleeping"])
      BY Zenon, <3>2, SwapSleepers
    <3>4. [st EXCEPT ![t] = "Sleeping"] = [state EXCEPT ![t] = "Sleeping"]
      BY Zenon, <1>1
    <3>5. [state EXCEPT ![t] = "Sleeping"] = state
      BY Zenon, <1>1
    <3>6. Link(Link(rq, t, Null), t, remaining) = Link(rq, t, remaining)
      BY Zenon, <1>1, CutFirst
    <3>7. /\ rq' = Link(rq, t, remaining) /\ sleepers' = rq.next[t] /\ remaining' = t
          /\ state' = state
      BY Zenon, <2>2 DEF WakeExpired
    <3> QED
      BY Zenon, <1>4, <3>3, <3>4, <3>5, <3>6, <3>7 DEF Queued
  <2> QED
    BY Zenon, <2>1, <2>2
<1> HIDE DEF t, st
<1>6. StateInv' /\ BirthInv' /\ AliveCounted'
  BY <1>1, <1>4, <1>5, Requeued, ZenonT(30) DEF Queued
<1>7. TypeOK'
  BY Zenon, <1>4, <1>5 DEF IndInv, TypeOK, WellFormed, ListType, Link0
<1>8. TimeInv'
  BY Zenon, <1>4 DEF IndInv, TimeInv
<1> QED
  BY Zenon, <1>4, <1>5, <1>6, <1>7, <1>8, HolderStays DEF IndInv

\* yield() queues its thread and takes the first Ready one, if there is one.
LEMMA YieldSwitchInd ==
  ASSUME IndInv, NEW c \in Cpu, YieldSwitch(c)
  PROVE  IndInv'
<1> DEFINE self == Self(c)
           next == rq.head
<1>1. /\ self \in Threads /\ state[self] = "Running"
      /\ \A d \in Cpu : current[d] = self => d = c
  BY Zenon, SelfFacts
<1>2. /\ pc[c] = "waking" /\ owner = c /\ sleepers = Null
      /\ sleepers' = remaining /\ remaining' = Null /\ now' = 0
      /\ UNCHANGED <<head, wake_at, exited, spawning, threads_alive, owner, irq,
                     inIsr, flags, arg, link, clock>>
  BY Zenon DEF YieldSwitch, StillAsleep, births, loop, IndInv, ControlInv,
         LockHandedOver, UnderLock
<1>3. WellFormed(rq, sleepers', remaining', head', state)
  BY Zenon, <1>2, SwapSleepers DEF IndInv
<1>4. TimeInv'
  BY <1>2 DEF IndInv, TimeInv, TypeOK
<1>5. CASE next = Null
  <2>1. /\ Goto(c, "resume") /\ UNCHANGED <<rq, state, current, stack>>
    BY Zenon, <1>5 DEF YieldSwitch, where
  <2>2. /\ pc'[c] = "resume" /\ \A d \in Cpu : d # c => pc'[d] = pc[d]
        /\ pc' \in [Cpu -> PcValue]
    BY ZenonT(30), <2>1 DEF Goto, IndInv, TypeOK, PcValue
  <2>3. TypeOK'
    BY ZenonT(30), <1>2, <2>1, <2>2 DEF IndInv, TypeOK
  <2>4. ControlInv'
    <3>1. GoesOn(c)
      BY Zenon, <1>2, <2>1, <2>2 DEF GoesOn, UnderLock
    <3> QED
      BY Zenon, <3>1, StillHeld
  <2>5. FlagsInv'
    BY Zenon, <1>2, <2>1, <2>2 DEF IndInv, FlagsInv, Outside
  <2>6. PlaceInv'
    BY Zenon, <1>2, <2>1, PlaceFrame DEF PcValue
  <2> QED
    BY Zenon, <1>2, <1>3, <1>4, <2>1, <2>3, <2>4, <2>5, <2>6, StateFrame, BirthFrame,
       CountFrame DEF IndInv
<1>6. CASE next # Null
  <2> DEFINE st == [state EXCEPT ![next] = "Running"]
  <2>1. next \in Threads /\ state[next] = "Ready" /\ next # self
        /\ state \in [Threads -> ThreadState]
    BY Zenon, <1>1, <1>6 DEF IndInv, WellFormed, Fronts, ListType, Link0
  <2>2. next \notin Cpu /\ \A d \in Cpu : current[d] # next
    BY Zenon, <2>1 DEF IndInv, StateInv
  <2>3. WellFormed(Dequeue(rq), sleepers', remaining', head', st)
    BY Zenon, <1>3, <1>6, TakeReady
  <2>4. /\ rq' = Requeue(c, Dequeue(rq)) /\ SetCurrent(c, next)
        /\ state' = [t \in Threads |->
               IF t = next THEN "Running"
               ELSE IF t = self /\ t # c THEN "Ready" ELSE state[t]]
    BY Zenon, <1>6 DEF YieldSwitch
  <2>5. WellFormed(rq, sleepers, remaining, head, state)'
    <3>1. CASE self = c
      <4>1. rq' = Dequeue(rq)
        BY Zenon, <2>4, <3>1 DEF Requeue
      <4>2. state' = st
        BY <2>1, <2>4, <3>1, ZenonT(30)
      <4> QED
        BY Zenon, <2>3, <4>1, <4>2
    <3>2. CASE self # c
      <4>1. rq' = Enqueue(Dequeue(rq), self)
        BY Zenon, <2>4, <3>2 DEF Requeue
      <4>2. state' = [st EXCEPT ![self] = "Ready"]
        BY <1>1, <2>1, <2>4, <3>2, ZenonT(30)
      <4>3. st[self] \notin Queued
        BY Zenon, <1>1, <2>1 DEF Queued
      <4> HIDE DEF st, self
      <4>4. WellFormed(Enqueue(Dequeue(rq), self), sleepers', remaining', head',
                       [st EXCEPT ![self] = "Ready"])
        BY Zenon, <1>1, <2>3, <4>3, PutReady
      <4> QED
        BY Zenon, <4>1, <4>2, <4>4
    <3> QED
      BY Zenon, <3>1, <3>2
  <2> HIDE DEF st, self, next
  <2>6. /\ PlaceInv' /\ current' \in [Cpu -> Threads] /\ Goto(c, "switch")
        /\ current'[c] = next /\ \A d \in Cpu : d # c => current'[d] = current[d]
        /\ stack' = stack
    BY Zenon, <1>2, <2>1, <2>2, <2>4, SwitchPlace
  <2>7. /\ pc'[c] = "switch" /\ \A d \in Cpu : d # c => pc'[d] = pc[d]
        /\ pc' \in [Cpu -> PcValue]
    BY ZenonT(30), <2>6 DEF Goto, IndInv, TypeOK, PcValue
  <2>8. ControlInv'
    <3>1. GoesOn(c)
      BY Zenon, <1>2, <2>6, <2>7 DEF GoesOn, UnderLock
    <3> QED
      BY Zenon, <3>1, StillHeld
  <2>9. FlagsInv'
    <3>1. flags[self] = "on" <=> inIsr[self] = "no"
      BY Zenon, <1>1, <1>2 DEF IndInv, FlagsInv, Outside
    <3> QED
      BY <1>2, <2>2, <2>6, <2>7, <3>1 DEF IndInv, FlagsInv, Outside, self, Self
  <2>10. TypeOK'
    BY Zenon, <1>2, <2>5, <2>6, <2>7 DEF IndInv, TypeOK, WellFormed, ListType, Link0
  <2>11. /\ state'[next] = "Running" /\ (self # c => state'[self] = "Ready")
         /\ (self = c => state'[self] = "Running")
         /\ \A t \in Threads : t # self /\ t # next => state'[t] = state[t]
    BY Zenon, <1>1, <2>1, <2>4
  <2>12. self # c => self \notin Cpu
    BY Zenon, <1>1 DEF IndInv, PlaceInv, self, Self
  <2>13. StateInv'
    <3>1. ASSUME NEW t \in Threads, t # self, t # next
          PROVE  state'[t] = "Running" <=> t \in Cpu \/ \E d \in Cpu : t = current'[d]
      <4>1. t # current[c] /\ t # current'[c]
        BY Zenon, <2>6, <3>1 DEF self, Self
      <4> QED
        BY <2>6, <2>11, <3>1, <4>1 DEF IndInv, StateInv
    <3>2. state'[self] = "Running" <=> self \in Cpu \/ \E d \in Cpu : self = current'[d]
      BY Zenon, <1>1, <2>1, <2>6, <2>11, <2>12
    <3>3. \A t \in exited : t \in Threads /\ t # self /\ t # next
      BY Zenon, <1>1, <2>1 DEF IndInv, StateInv, TypeOK, Threads
    <3>4. \A t \in exited' : state'[t] = "Dead"
      BY Zenon, <1>2, <2>11, <3>3 DEF IndInv, StateInv
    <3>5. state'[next] = "Running" <=> next \in Cpu \/ \E d \in Cpu : next = current'[d]
      BY Zenon, <2>6, <2>11
    <3>6. \A t \in Threads : state'[t] = "Running" <=> t \in Cpu \/ \E d \in Cpu : t = current'[d]
      BY Zenon, <3>1, <3>2, <3>5
    <3> QED
      BY Zenon, <3>4, <3>6 DEF StateInv
  <2>14. BirthInv'
    <3>1. \A u \in Threads : spawning[u] # Null =>
              spawning[u] \in Threads /\ spawning[u] # self /\ spawning[u] # next
      BY <1>1, <2>1 DEF IndInv, BirthInv, TypeOK, Threads
    <3> QED
      BY ZenonT(30), <1>2, <2>11, <3>1 DEF IndInv, BirthInv
  <2>15. AliveCounted'
    BY Zenon, <1>1, <1>2, <2>1, <2>11, CountSame DEF Threads
  <2> QED
    BY Zenon, <1>4, <2>5, <2>6, <2>8, <2>9, <2>10, <2>13, <2>14, <2>15 DEF IndInv
<1> QED
  BY Zenon, <1>5, <1>6

----------------------------------------------------------------------------
(* context_switch, the unlock on the other side, interrupts                 *)

\* The stacks change hands; the lock stays with the CPU.
LEMMA ContextSwitchInd ==
  ASSUME IndInv, NEW c \in Cpu, ContextSwitch(c)
  PROVE  IndInv'
<1>1. /\ pc[c] = "switch" /\ owner = c
      /\ UNCHANGED <<lists, state, wake_at, births, current, owner, irq, inIsr,
                     flags, loop, time>>
      /\ UNCHANGED <<exited, spawning, threads_alive, arg, now, clock>>
  BY Zenon DEF ContextSwitch, births, loop, time, IndInv, ControlInv, LockHandedOver,
         UnderLock
<1>2. /\ pc'[c] = "resume" /\ \A d \in Cpu : d # c => pc'[d] = pc[d]
      /\ pc' \in [Cpu -> PcValue]
  BY ZenonT(30) DEF ContextSwitch, Goto, IndInv, TypeOK, PcValue
<1>3. /\ stack'[c] = current[c] /\ \A d \in Cpu : d # c => stack'[d] = stack[d]
      /\ stack' \in [Cpu -> Threads]
  BY Zenon DEF ContextSwitch, IndInv, TypeOK
<1>4. TypeOK'
  BY <1>1, <1>2, <1>3 DEF IndInv, TypeOK, lists, births, loop, time
<1>5. ControlInv'
  <2>1. GoesOn(c)
    BY Zenon, <1>1, <1>2 DEF GoesOn, UnderLock
  <2> QED
    BY Zenon, <2>1, StillHeld
<1>6. FlagsInv'
  BY Zenon, <1>1, <1>2 DEF IndInv, FlagsInv, Outside
<1>7. PlaceInv'
  <2> SUFFICES ASSUME NEW d \in Cpu, NEW e \in Cpu
               PROVE  /\ d # e => current'[d] # current'[e]
                      /\ current'[d] = e => d = e
                      /\ pc'[d] # "switch" => stack'[d] = current'[d]
                      /\ pc'[d] = "switch" => stack'[d] # current'[e]
    BY Zenon DEF PlaceInv
  <2>1. /\ d # e => current[d] # current[e]
        /\ current[d] = e => d = e
        /\ pc[d] # "switch" => stack[d] = current[d]
        /\ pc[d] = "switch" => stack[d] # current[e]
    BY Zenon DEF IndInv, PlaceInv
  <2> QED
    BY ZenonT(30), <1>1, <1>2, <1>3, <2>1
<1>8. TimeInv'
  BY Zenon, <1>1 DEF IndInv, TimeInv
<1> QED
  BY Zenon, <1>1, <1>4, <1>5, <1>6, <1>7, <1>8, ListsFrame, StateFrame, BirthFrame,
     CountFrame DEF IndInv

\* The thread on c lets go of the lock with its own flags.
LEMMA Unlocked ==
  ASSUME IndInv, NEW c \in Cpu, pc[c] \in UnderLock, pc[c] # "switch",
         owner' = Null, irq' = [irq EXCEPT ![c] = flags[Self(c)]],
         NEW l \in Outside, Goto(c, l), l = "run" <=> inIsr[Self(c)] \notin Handlers,
         UNCHANGED <<current, stack, inIsr, flags>>
  PROVE  /\ ControlInv' /\ FlagsInv' /\ PlaceInv'
         /\ irq' \in [Cpu -> {"on", "off"}] /\ pc' \in [Cpu -> PcValue]
<1>1. /\ pc'[c] = l /\ \A d \in Cpu : d # c => pc'[d] = pc[d]
      /\ pc' \in [Cpu -> PcValue] /\ l \in PcValue
  BY ZenonT(30) DEF Goto, IndInv, TypeOK, PcValue, Outside
<1>2. flags[Self(c)] = "on" <=> inIsr[Self(c)] = "no"
  BY Zenon, SelfFacts DEF IndInv, FlagsInv, UnderLock, Outside
<1>3. /\ irq' \in [Cpu -> {"on", "off"}] /\ irq'[c] = flags[Self(c)]
      /\ \A d \in Cpu : d # c => irq'[d] = irq[d]
  BY Zenon, SelfFacts DEF IndInv, TypeOK
<1>4. owner = c /\ \A d \in Cpu : d # Null
  BY Zenon, SchedulerAssumption DEF IndInv, ControlInv, LockHandedOver
<1>5. \A d \in Cpu : d # c => pc[d] \notin UnderLock
  BY ZenonT(30), <1>4 DEF IndInv, ControlInv, LockHandedOver
<1>6. Settled(c)'
  <2>1. /\ l \notin UnderLock /\ l \notin {"panic", "detaching", "draining"}
        /\ l \in {"isr", "iret"} <=> l # "run"
    BY DEF UnderLock, Outside
  <2>2. "no" \notin Handlers /\ owner' # c
    BY <1>4 DEF Handlers
  <2> QED
    BY <1>1, <1>2, <1>3, <2>1, <2>2 DEF Settled, Self
<1>7. ControlInv'
  <2>1. "draining" \in UnderLock
    BY DEF UnderLock
  <2>2. OthersStay(c)
    BY Zenon, <1>1, <1>3, <1>4, <1>5, <2>1 DEF OthersStay
  <2> QED
    BY Zenon, <1>6, <2>2, ControlStep
<1>8. FlagsInv'
  <2>1. pc[c] \notin Outside
    BY Zenon DEF UnderLock, Outside
  <2> QED
    BY Zenon, <1>1, <2>1 DEF IndInv, FlagsInv
<1>9. PlaceInv'
  BY Zenon, <1>1, PlaceFrame DEF Outside
<1> QED
  BY Zenon, <1>1, <1>3, <1>7, <1>8, <1>9

\* The thread on this side gives the lock back, and takes its own flags.
LEMMA ResumeInd ==
  ASSUME IndInv, NEW c \in Cpu, Resume(c)
  PROVE  IndInv'
<1>1. UNCHANGED <<lists, state, wake_at, births, current, stack, inIsr, flags,
                  arg, link, now, clock, exited, spawning, threads_alive>>
  BY Zenon DEF Resume, where, births, loop, time
<1>2. Self(c) \notin exited
  BY Zenon, SelfFacts DEF IndInv, StateInv
<1>3. Goto(c, IF inIsr[Self(c)] \in Handlers THEN "iret" ELSE "run")
  BY Zenon, <1>2 DEF Resume
<1>4. /\ pc[c] \in UnderLock /\ pc[c] # "switch" /\ owner' = Null
      /\ irq' = [irq EXCEPT ![c] = flags[Self(c)]]
  BY Zenon DEF Resume, UnderLock
<1>5. \E l \in Outside : Goto(c, l) /\ (l = "run" <=> inIsr[Self(c)] \notin Handlers)
  BY Zenon, <1>3 DEF Outside
<1>6. /\ ControlInv' /\ FlagsInv' /\ PlaceInv'
      /\ irq' \in [Cpu -> {"on", "off"}] /\ pc' \in [Cpu -> PcValue]
  BY ZenonT(30), <1>1, <1>4, <1>5, Unlocked
<1>7. TypeOK'
  BY ZenonT(30), <1>1, <1>4, <1>6 DEF IndInv, TypeOK, lists, births
<1>8. TimeInv'
  BY Zenon, <1>1 DEF IndInv, TimeInv
<1> QED
  BY Zenon, <1>1, <1>6, <1>7, <1>8, ListsFrame, StateFrame, BirthFrame, CountFrame
     DEF IndInv

\* An interrupt enters or leaves its handler, or a program its call, on a CPU outside the
\* lock.
LEMMA HandlerEdge ==
  ASSUME IndInv, NEW c \in Cpu, pc[c] \in Outside, NEW l \in {"run", "isr"},
         Goto(c, l), NEW v \in Handlers \cup {"no", "call"}, v \in Handlers <=> l = "isr",
         inIsr' = [inIsr EXCEPT ![Self(c)] = v],
         irq' = [irq EXCEPT ![c] = IF v = "no" THEN "on" ELSE "off"],
         UNCHANGED <<lists, state, wake_at, births, where, owner, flags, loop, time>>
  PROVE  IndInv'
<1>1. UNCHANGED <<current, stack, arg, link, now, clock, exited, spawning,
                  threads_alive>>
  BY Zenon DEF where, births, loop, time
<1>2. /\ pc'[c] = l /\ \A d \in Cpu : d # c => pc'[d] = pc[d]
      /\ pc' \in [Cpu -> PcValue] /\ l \in PcValue
  BY ZenonT(30) DEF Goto, IndInv, TypeOK, PcValue
<1>3. /\ irq' \in [Cpu -> {"on", "off"}]
      /\ irq'[c] = (IF v = "no" THEN "on" ELSE "off")
      /\ \A d \in Cpu : d # c => irq'[d] = irq[d]
  BY Zenon DEF IndInv, TypeOK
<1>4. /\ inIsr' \in [Threads -> Handlers \cup {"no", "call"}]
      /\ inIsr'[Self(c)] = v /\ \A t \in Threads : t # Self(c) => inIsr'[t] = inIsr[t]
  BY Zenon, SelfFacts DEF IndInv, TypeOK
<1>5. \A d \in Cpu : d # c => current[d] # Self(c) /\ current[d] \in Threads
  BY Zenon, SelfFacts DEF IndInv, TypeOK
<1>6. TypeOK'
  BY ZenonT(30), <1>1, <1>2, <1>3, <1>4 DEF IndInv, TypeOK, lists
<1>7. Settled(c)'
  <2>1. /\ l \notin UnderLock /\ l \notin {"panic", "detaching", "draining", "iret"}
        /\ l = "isr" <=> l # "run"
    BY DEF UnderLock
  <2>2. "no" \notin Handlers /\ owner' # c
    <3>1. pc[c] \notin UnderLock
      BY DEF UnderLock, Outside
    <3> QED
      BY Zenon, <3>1 DEF IndInv, ControlInv, LockHandedOver, Handlers
  <2>3. inIsr'[current'[c]] = v /\ ("off" # "on")
    BY Zenon, <1>1, <1>4 DEF Self
  <2> QED
    BY <1>2, <1>3, <2>1, <2>2, <2>3 DEF Settled
<1>8. ControlInv'
  <2>1. \A d \in Cpu : pc[d] = "draining" => arg' \in Queue
    BY Zenon, <1>1 DEF IndInv, ControlInv
  <2>2. \A d \in Cpu : d # c => inIsr'[current'[d]] = inIsr[current[d]]
    BY Zenon, <1>1, <1>4, <1>5
  <2>3. OthersStay(c)
    BY Zenon, <1>2, <1>3, <2>1, <2>2 DEF OthersStay
  <2> QED
    BY Zenon, <1>7, <2>3, ControlStep
<1>9. FlagsInv'
  <2> SUFFICES ASSUME NEW t \in Threads, \A d \in Cpu : current[d] = t => pc'[d] \notin Outside
               PROVE  flags[t] = "on" <=> inIsr'[t] = "no"
    BY Zenon, <1>1 DEF FlagsInv
  <2>1. t # Self(c)
    <3>1. pc'[c] \in Outside
      BY Zenon, <1>2 DEF Outside
    <3> QED
      BY Zenon, <3>1 DEF Self
  <2>2. \A d \in Cpu : current[d] = t => pc[d] \notin Outside
    BY Zenon, <1>2, <2>1 DEF Self
  <2> QED
    BY Zenon, <1>4, <2>1, <2>2 DEF IndInv, FlagsInv
<1>10. PlaceInv'
  BY Zenon, <1>1, <1>2, PlaceFrame DEF Outside
<1>11. TimeInv'
  BY Zenon, <1>1 DEF IndInv, TimeInv
<1> QED
  BY Zenon, <1>1, <1>6, <1>8, <1>9, <1>10, <1>11, ListsFrame, StateFrame, BirthFrame,
     CountFrame DEF IndInv

\* An interrupt enters its handler.
LEMMA InterruptInd ==
  ASSUME IndInv, NEW c \in Cpu, NEW v \in Handlers, Interrupt(c, v)
  PROVE  IndInv'
  BY HandlerEdge, ZenonT(30) DEF Interrupt, Outside, Handlers

\* The handler returns.
LEMMA IretInd ==
  ASSUME IndInv, NEW c \in Cpu, Iret(c)
  PROVE  IndInv'
  BY HandlerEdge, ZenonT(30) DEF Iret, Outside, Handlers

\* A program enters the kernel and leaves it.
LEMMA CallInd ==
  ASSUME IndInv, NEW c \in Cpu, EnterCall(c) \/ ReturnToUser(c)
  PROVE  IndInv'
<1>1. pc[c] = "run" /\ pc' = pc
  BY Zenon DEF EnterCall, ReturnToUser, InThread
<1>2. Goto(c, "run")
  BY <1>1 DEF Goto, IndInv, TypeOK
<1>3. "call" \notin Handlers /\ "no" \notin Handlers /\ "run" # "isr" /\ "call" # "no"
  BY DEF Handlers
<1> QED
  BY HandlerEdge, ZenonT(30), <1>1, <1>2, <1>3 DEF EnterCall, ReturnToUser, Outside

----------------------------------------------------------------------------
(* Waking and spawning                                                      *)

\* A blocked thread goes from the front of its queue to the run queue.
LEMMA WakeFront ==
  ASSUME IndInv, NEW w \in Queue, head[w] # Null, head' = TakeFrom(w),
         rq' = Enqueue(rq, head[w]), state' = [state EXCEPT ![head[w]] = "Ready"],
         UNCHANGED <<sleepers, remaining, current, exited, spawning, threads_alive>>
  PROVE  /\ WellFormed(rq, sleepers, remaining, head, state)'
         /\ StateInv' /\ BirthInv' /\ AliveCounted'
<1> DEFINE t == head[w]
           st == [state EXCEPT ![t] = "Running"]
<1>1. /\ t \in Threads /\ state[t] = "Blocked"
      /\ state \in [Threads -> ThreadState]
      /\ rq \in [head : Link0, tail : Link0, next : [Threads -> Link0]]
  BY DEF IndInv, TypeOK, WellFormed, Fronts, Link0
<1>2. WellFormed(Link(rq, t, Null), sleepers, remaining, TakeFrom(w), st)
  BY TakeBlocked, ZenonT(30) DEF IndInv, TakeFrom
<1>3. st[t] = "Running" /\ "Running" \notin Queued
  BY Zenon, <1>1 DEF Queued
<1>4. [st EXCEPT ![t] = "Ready"] = [state EXCEPT ![t] = "Ready"]
  BY Zenon, <1>1
<1>5. Enqueue(Link(rq, t, Null), t) = Enqueue(rq, t)
  BY Zenon, <1>1, CutFirst, Null \in Link0 DEF Link0
<1> HIDE DEF st, t
<1>6. WellFormed(Enqueue(Link(rq, t, Null), t), sleepers, remaining, TakeFrom(w),
                 [st EXCEPT ![t] = "Ready"])
  BY Zenon, <1>1, <1>2, <1>3, PutReady
<1>7. WellFormed(rq, sleepers, remaining, head, state)'
  BY Zenon, <1>4, <1>5, <1>6 DEF t
<1>8. StateInv' /\ BirthInv' /\ AliveCounted'
  BY <1>1, Requeued, ZenonT(30) DEF Queued, t
<1> QED
  BY ZenonT(30), <1>7, <1>8

\* WaitQueue::wake_one() makes the first waiter Ready.
LEMMA WakeOneInd ==
  ASSUME IndInv, NEW c \in Cpu, NEW w \in Queue, WakeOne(c, w)
  PROVE  IndInv'
<1>1. UNCHANGED <<sleepers, remaining, wake_at, current, stack, owner, irq, inIsr,
                  flags, pc, arg, link, now, clock, exited, spawning, threads_alive>>
  BY Zenon DEF WakeOne, births, where, loop, time
<1>2. /\ WellFormed(rq, sleepers, remaining, head, state)'
      /\ StateInv' /\ BirthInv' /\ AliveCounted'
  BY <1>1, WakeFront, ZenonT(30) DEF WakeOne
<1>3. TypeOK'
  BY Zenon, <1>1, <1>2 DEF IndInv, TypeOK, WellFormed, ListType, Link0
<1>4. TimeInv'
  BY Zenon, <1>1 DEF IndInv, TimeInv
<1> QED
  BY Zenon, <1>1, <1>2, <1>3, <1>4, HolderStays DEF IndInv

\* One round of WaitQueue::wake_all().
LEMMA WakeAllStepInd ==
  ASSUME IndInv, NEW c \in Cpu, WakeAllStep(c)
  PROVE  IndInv'
<1>1. UNCHANGED <<sleepers, remaining, wake_at, current, stack, inIsr, flags,
                  link, now, clock, exited, spawning, threads_alive>>
  BY Zenon DEF WakeAllStep, births, where, time
<1>2. pc[c] = "draining" /\ arg \in Queue
  BY Zenon DEF WakeAllStep, IndInv, ControlInv
<1>3. TimeInv'
  BY Zenon, <1>1 DEF IndInv, TimeInv
<1>4. CASE head[arg] # Null
  <2>1. UNCHANGED <<owner, irq, pc, arg>>
    BY Zenon, <1>4 DEF WakeAllStep
  <2>2. /\ WellFormed(rq, sleepers, remaining, head, state)'
        /\ StateInv' /\ BirthInv' /\ AliveCounted'
    BY Zenon, <1>1, <1>2, <1>4, WakeFront DEF WakeAllStep
  <2>3. TypeOK'
    BY Zenon, <1>1, <2>1, <2>2 DEF IndInv, TypeOK, WellFormed, ListType, Link0
  <2> QED
    BY Zenon, <1>1, <1>3, <2>1, <2>2, <2>3, HolderStays DEF IndInv
<1>5. CASE head[arg] = Null
  <2>1. Unlock(c) /\ arg' = Null /\ UNCHANGED <<head, rq, state>>
    BY Zenon, <1>5 DEF WakeAllStep
  <2>2. \E l \in Outside : Goto(c, l) /\ (l = "run" <=> inIsr[Self(c)] \notin Handlers)
    BY Zenon, <2>1 DEF Unlock, Outside
  <2>3. /\ ControlInv' /\ FlagsInv' /\ PlaceInv'
        /\ irq' \in [Cpu -> {"on", "off"}] /\ pc' \in [Cpu -> PcValue]
    BY ZenonT(30), <1>1, <1>2, <2>1, <2>2, Unlocked DEF Unlock, UnderLock
  <2>4. TypeOK'
    BY Zenon, <1>1, <2>1, <2>3 DEF IndInv, TypeOK, Unlock
  <2> QED
    BY ZenonT(30), <1>1, <1>3, <2>1, <2>3, <2>4, ListsFrame, StateFrame, BirthFrame,
       CountFrame DEF IndInv, lists
<1> QED
  BY Zenon, <1>4, <1>5

\* thread_spawn() finds room under the limit.
LEMMA SpawnCheckInd ==
  ASSUME IndInv, NEW c \in Cpu, NEW t \in Worker, SpawnCheck(c, t)
  PROVE  IndInv'
<1>1. UNCHANGED <<lists, state, wake_at, threads_alive, exited, current, stack,
                  owner, irq, inIsr, flags, pc, arg, link, now, clock>>
  BY Zenon DEF SpawnCheck, where, loop, time
<1>2. /\ spawning' \in [Threads -> Worker \cup {Null}] /\ spawning'[Self(c)] = t
      /\ \A u \in Threads : u # Self(c) => spawning'[u] = spawning[u]
  BY Zenon, SelfFacts DEF SpawnCheck, IndInv, TypeOK
<1>3. BirthInv'
  BY ZenonT(30), <1>1, <1>2 DEF SpawnCheck, IndInv, BirthInv
<1>4. TypeOK'
  BY ZenonT(30), <1>1, <1>2 DEF IndInv, TypeOK, lists
<1>5. TimeInv'
  BY Zenon, <1>1 DEF IndInv, TimeInv
<1> QED
  BY Zenon, <1>1, <1>3, <1>4, <1>5, HolderStays, ListsFrame, StateFrame, CountFrame
     DEF IndInv

\* The new thread is counted and queued.
LEMMA AdoptInd ==
  ASSUME Counting, IndInv, NEW c \in Cpu, Adopt(c)
  PROVE  IndInv'
<1> DEFINE t == spawning[Self(c)]
<1>1. UNCHANGED <<sleepers, remaining, head, wake_at, exited, current, stack,
                  owner, irq, pc, arg, link, now, clock>>
  BY ZenonT(30) DEF Adopt, where, loop, time
<1>2. /\ t \in Worker /\ t \in Threads /\ t # Null /\ state[t] = "Unborn"
      /\ t \notin exited
  BY SelfFacts DEF Adopt, IndInv, BirthInv, StateInv, TypeOK, Threads
<1>3. /\ rq' = Enqueue(rq, t) /\ state' = [state EXCEPT ![t] = "Ready"]
      /\ flags' = [flags EXCEPT ![t] = "on"] /\ threads_alive' = threads_alive + 1
      /\ inIsr' = [inIsr EXCEPT ![t] = "no"]
      /\ spawning' = [spawning EXCEPT ![Self(c)] = Null]
  BY Zenon DEF Adopt, CountUp, EntryFlags
<1>4. WellFormed(rq, sleepers, remaining, head, state)'
  BY <1>1, <1>2, <1>3, PutReady, ZenonT(30) DEF IndInv, Queued
<1> HIDE DEF t
<1>5. state'[t] = "Ready" /\ \A u \in Threads : u # t => state'[u] = state[u]
  BY Zenon, <1>2, <1>3 DEF IndInv, TypeOK
<1>6. /\ flags' \in [Threads -> {"on", "off"}] /\ flags'[t] = "on"
      /\ \A u \in Threads : u # t => flags'[u] = flags[u] /\ inIsr'[u] = inIsr[u]
      /\ inIsr' \in [Threads -> Handlers \cup {"no", "call"}] /\ inIsr'[t] = "no"
  BY Zenon, <1>2, <1>3 DEF IndInv, TypeOK
<1>7. /\ spawning' \in [Threads -> Worker \cup {Null}] /\ spawning'[Self(c)] = Null
      /\ \A u \in Threads : u # Self(c) => spawning'[u] = spawning[u]
  BY ZenonT(30), <1>3, SelfFacts DEF IndInv, TypeOK
<1>8. StateInv'
  <2>1. exited \subseteq Threads /\ t \notin Cpu /\ \A d \in Cpu : current[d] # t
    BY Zenon, <1>2 DEF IndInv, StateInv, TypeOK, Threads
  <2>2. \A u \in Threads : state'[u] = "Running" <=> u \in Cpu \/ \E d \in Cpu : u = current'[d]
    BY Zenon, <1>1, <1>5, <2>1 DEF IndInv, StateInv
  <2>3. \A u \in exited : state'[u] = "Dead"
    BY Zenon, <1>2, <1>5, <2>1 DEF IndInv, StateInv
  <2> QED
    BY Zenon, <1>1, <2>2, <2>3 DEF StateInv
<1>9. BirthInv'
  <2>1. \A u \in Threads : u # Self(c) /\ spawning[u] # Null =>
            spawning[u] \in Threads /\ spawning[u] # t
    <3>1. Self(c) \in Threads /\ Worker \subseteq Threads /\ t = spawning[Self(c)] /\ t # Null
      BY Zenon, <1>2, SelfFacts DEF Threads, t
    <3> QED
      BY <3>1 DEF IndInv, BirthInv, TypeOK
  <2>2. \A u \in Threads : spawning'[u] # Null => u # Self(c) /\ spawning'[u] = spawning[u]
    BY Zenon, <1>7
  <2>3. \A u \in Threads : spawning'[u] # Null => state'[spawning'[u]] = "Unborn"
    <3>1. \A u \in Threads : spawning[u] # Null => state[spawning[u]] = "Unborn"
      BY Zenon DEF IndInv, BirthInv
    <3> QED
      BY Zenon, <1>5, <2>1, <2>2, <3>1
  <2>4. \A u, v \in Threads : spawning'[u] # Null /\ spawning'[u] = spawning'[v] => u = v
    <3>1. \A u, v \in Threads : spawning[u] # Null /\ spawning[u] = spawning[v] => u = v
      BY Zenon DEF IndInv, BirthInv
    <3> QED
      BY ZenonT(30), <2>2, <3>1
  <2> QED
    BY Zenon, <2>3, <2>4 DEF BirthInv
<1>10. ControlInv'
  <2>1. \A d \in Cpu : current[d] \in Threads /\ current[d] # t
    BY Zenon, <1>2 DEF IndInv, StateInv, TypeOK
  <2>2. \A d \in Cpu : inIsr'[current[d]] = inIsr[current[d]]
    BY Zenon, <1>6, <2>1
  <2>3. LockHandedOver'
    BY Zenon, <1>1, <2>2 DEF IndInv, ControlInv, LockHandedOver, Self
  <2> QED
    BY ZenonT(30), <1>1, <2>2, <2>3 DEF IndInv, ControlInv
<1>11. PlaceInv'
  BY ZenonT(30), <1>1 DEF IndInv, PlaceInv
<1>12. FlagsInv'
  BY Zenon, <1>1, <1>6 DEF IndInv, FlagsInv
<1>13. /\ IsFiniteSet(AliveSet) /\ t \notin AliveSet /\ AliveSet' = AliveSet \cup {t}
  <2>1. IsFiniteSet(AliveSet)
    BY Zenon, SchedulerAssumption DEF Counting, AliveSet
  <2>2. t \notin AliveSet
    BY Zenon, <1>2 DEF AliveSet
  <2>3. AliveSet' = AliveSet \cup {t}
    BY Zenon, <1>1, <1>2, <1>5 DEF AliveSet, Threads
  <2> QED
    BY Zenon, <2>1, <2>2, <2>3
<1>14. AliveCounted'
  <2>1. Cardinality(AliveSet) = threads_alive
    BY Zenon DEF AliveSet, AliveCounted, IndInv
  <2>2. Cardinality(AliveSet \cup {t}) = Cardinality(AliveSet) + 1
    BY Zenon, <1>13 DEF Counting
  <2>3. Cardinality(AliveSet') = threads_alive'
    BY ZenonT(30), <1>3, <1>13, <2>1, <2>2
  <2> QED
    BY Zenon, <2>3 DEF AliveSet, AliveCounted
<1>15. TypeOK'
  <2>1. ListType(rq, sleepers, remaining, head, state)'
    BY Zenon, <1>4 DEF WellFormed
  <2>2. threads_alive' \in Nat
    BY <1>3 DEF IndInv, TypeOK
  <2> QED
    BY ZenonT(30), <1>1, <1>6, <1>7, <2>1, <2>2 DEF IndInv, TypeOK, ListType, Link0
<1>16. TimeInv'
  BY Zenon, <1>1 DEF IndInv, TimeInv
<1> QED
  BY Zenon, <1>4, <1>8, <1>9, <1>10, <1>11, <1>12, <1>14, <1>15, <1>16 DEF IndInv

\* Time passes.
LEMMA ClockTickInd ==
  ASSUME IndInv, ClockTick
  PROVE  IndInv'
<1>1. UNCHANGED <<lists, state, wake_at, births, current, stack, owner, irq, inIsr,
                  flags, pc, arg, link, now, exited, spawning, threads_alive>>
  BY Zenon DEF ClockTick, where, births, loop
<1>2. clock' \in Nat /\ TimeInv'
  BY <1>1 DEF ClockTick, IndInv, TypeOK, TimeInv
<1>3. TypeOK'
  BY ZenonT(30), <1>1, <1>2 DEF IndInv, TypeOK, lists
<1> QED
  BY Zenon, <1>1, <1>2, <1>3, HolderStays, ListsFrame, StateFrame, BirthFrame,
     CountFrame DEF IndInv

----------------------------------------------------------------------------
(* The theorems                                                             *)

INSTANCE FiniteSetTheorems

\* The facts about finite sets that the count of threads rests on.
LEMMA CountingHolds == Counting
<1>1. ASSUME NEW S, NEW x, IsFiniteSet(S), x \in S
      PROVE  Cardinality(S \ {x}) = Cardinality(S) - 1 /\ Cardinality(S \ {x}) \in Nat
  <2>1. IsFiniteSet(S \ {x}) /\ Cardinality(S \ {x}) = Cardinality(S) - 1
    BY Zenon, <1>1, FS_RemoveElement
  <2>2. Cardinality(S \ {x}) \in Nat
    BY Zenon, <2>1, FS_CardinalityType
  <2> QED
    BY Zenon, <2>1, <2>2
<1>2. ASSUME NEW S, NEW x, IsFiniteSet(S), x \notin S
      PROVE  Cardinality(S \cup {x}) = Cardinality(S) + 1
  BY Zenon, <1>2, FS_AddElement
<1>3. ASSUME NEW S, IsFiniteSet(S), NEW T \in SUBSET S PROVE IsFiniteSet(T)
  BY Zenon, <1>3, FS_Subset
<1> QED
  BY ZenonT(30), <1>1, <1>2, <1>3, FS_EmptySet DEF Counting

\* The invariant is inductive.
LEMMA NextInd == AsUsed /\ IndInv /\ [Next]_vars => IndInv'
<1> SUFFICES ASSUME AsUsed, IndInv, [Next]_vars PROVE IndInv'
  BY Zenon
<1>1. CASE UNCHANGED vars
  <2>1. UNCHANGED <<lists, state, wake_at, births, current, stack, owner, irq, inIsr,
                    flags, pc, arg, link, now, clock, exited, spawning, threads_alive>>
    BY Zenon, <1>1 DEF vars, lists, births
  <2>2. TypeOK'
    BY ZenonT(30), <2>1 DEF IndInv, TypeOK, lists
  <2>3. TimeInv'
    BY Zenon, <2>1 DEF IndInv, TimeInv
  <2> QED
    BY ZenonT(30), <2>1, <2>2, <2>3, HolderStays, ListsFrame, StateFrame, BirthFrame,
       CountFrame DEF IndInv
<1>2. ASSUME NEW c \in Cpu, Calls(c) PROVE IndInv'
  <2>1. \A t \in Worker : ~Wake(c, t)
    BY Zenon DEF AsUsed, Wake
  <2> QED
    BY ZenonT(30), <1>2, <2>1, YieldInd, ThreadExitInd, AdoptInd, ThreadSleepInd, WaitInd,
       WakeOneInd, WakeAllInd, SpawnCheckInd, CountingHolds DEF Calls
<1>3. ASSUME NEW c \in Cpu, Holder(c) PROVE IndInv'
  <2>1. ~WakeStep(c)
    BY Zenon DEF WakeStep, IndInv, ControlInv
  <2> QED
    BY ZenonT(30), <1>3, <2>1, WakeExpiredInd, YieldSwitchInd, ContextSwitchInd, ResumeInd,
       WakeAllStepInd DEF Holder
<1>4. ASSUME NEW c \in Cpu,
             \/ Iret(c) \/ Interrupt(c, "timer") \/ Interrupt(c, "device")
             \/ EnterCall(c) \/ ReturnToUser(c)
      PROVE  IndInv'
  BY ZenonT(30), <1>4, IretInd, InterruptInd, CallInd DEF Handlers
<1> QED
  BY ZenonT(30), <1>1, <1>2, <1>3, <1>4, ClockTickInd DEF Next

\* It holds in every state that the scheduler reaches.
LEMMA Invariance == ASSUME AsUsed PROVE Spec => []IndInv
  BY InitInd, CountingHolds, NextInd, PTL DEF Spec

\* The scheduler's variables keep their types; threads_alive never underflows.
THEOREM TypeCorrect == ASSUME AsUsed PROVE Spec => []TypeOK
<1>1. IndInv => TypeOK
  BY Zenon DEF IndInv
<1> QED
  BY Invariance, <1>1, PTL

\* No thread is on two CPUs, and none resumes while another CPU is still on
\* its stack.
THEOREM NeverOnTwoCpus == ASSUME AsUsed PROVE Spec => []OneCpuPerThread
  BY Invariance, IndInvImplies, PTL

\* sched_lock passes from the thread that switches away to the one that
\* resumes and is released once, with the interrupt flag put back.
THEOREM LockIsHandedOver == ASSUME AsUsed PROVE Spec => []LockHandedOver
  BY Invariance, IndInvImplies, PTL

\* thread_exit() never returns.
THEOREM ExitIsFinal == ASSUME AsUsed PROVE Spec => []NeverBackFromTheDead
  BY Invariance, IndInvImplies, PTL

\* The lists threaded through queue_next_ never run into each other.
THEOREM ListsStayDisjoint == ASSUME AsUsed PROVE Spec => []ListsDisjoint
  BY Invariance, IndInvImplies, PTL

\* Every thread that is ready, asleep or blocked is linked from a list.
THEOREM NothingIsLost == ASSUME AsUsed PROVE Spec => []NoThreadLost
  BY Invariance, IndInvImplies, PTL

\* threads_alive is the number of threads adopted and not exited.
THEOREM AliveIsCounted == ASSUME AsUsed PROVE Spec => []AliveCounted
<1>1. IndInv => AliveCounted
  BY Zenon DEF IndInv
<1> QED
  BY Invariance, <1>1, PTL

\* sleep, wait and exit leave every other thread that sleeps alone.
LEMMA SwitchAwaySleepers ==
  ASSUME IndInv, AsUsed, NEW c \in Cpu, Self(c) \in Parks, NEW q, NEW s,
         SwitchAway(c, q, s), q.head = rq.head,
         NEW t \in Threads, state[t] = "Sleeping"
  PROVE  state'[t] = "Sleeping"
<1> DEFINE next == IF q.head = Null THEN c ELSE q.head
<1>1. t # Self(c) /\ Self(c) \in Threads
  BY ZenonT(30), SelfFacts
<1>2. t # next
  BY Zenon DEF IndInv, StateInv, WellFormed, Fronts
<1>3. state' = [state EXCEPT ![Self(c)] = s, ![next] = "Running"]
  BY Zenon DEF SwitchAway
<1> QED
  BY ZenonT(30), <1>1, <1>2, <1>3 DEF IndInv, TypeOK

\* No sleeper is woken before the clock reached its deadline.
THEOREM SleepLastsLongEnough == ASSUME AsUsed PROVE Spec => NotBeforeDeadline
<1> DEFINE A == \A t \in Threads :
                    state[t] = "Sleeping" /\ state'[t] # "Sleeping"
                        => wake_at[t] <= clock \/ \E c \in Cpu : pc[c] = "detaching"
<1>1. IndInv /\ [Next]_vars => [A]_vars
  <2> SUFFICES ASSUME IndInv, Next, NEW t \in Threads, state[t] = "Sleeping",
                      state'[t] # "Sleeping"
               PROVE  wake_at[t] <= clock
    BY Zenon
  <2>0. state \in [Threads -> ThreadState] /\ rq \in [head : Link0, tail : Link0, next : [Threads -> Link0]]
    BY Zenon DEF IndInv, TypeOK, Link0
  <2>1. CASE ClockTick
    BY Zenon, <2>1 DEF ClockTick
  <2>2. ASSUME NEW c \in Cpu, Calls(c) PROVE FALSE
    <3>1. CASE Yield(c)
      BY Zenon, <3>1 DEF Yield
    <3>2. CASE ThreadExit(c)
      BY Zenon, <3>2, SwitchAwaySleepers DEF ThreadExit
    <3>3. CASE Adopt(c)
      <4>1. spawning[Self(c)] # t
        BY ZenonT(30), <3>3, SelfFacts, NullNotThread DEF IndInv, BirthInv
      <4>2. state' = [state EXCEPT ![spawning[Self(c)]] = "Ready"]
        BY Zenon, <3>3 DEF Adopt
      <4> QED
        BY ZenonT(30), <2>0, <4>1, <4>2
    <3>4. ASSUME NEW d \in 0..MaxTime, ThreadSleep(c, d) PROVE FALSE
      <4>1. Link(rq, Self(c), sleepers).head = rq.head
        BY Zenon, <2>0 DEF Link
      <4> QED
        BY ZenonT(30), <3>4, <4>1, SwitchAwaySleepers DEF ThreadSleep
    <3>5. ASSUME NEW w \in Queue, Wait(c, w) PROVE FALSE
      <4>1. Link(rq, Self(c), head[w]).head = rq.head
        BY Zenon, <2>0 DEF Link
      <4> QED
        BY ZenonT(30), <3>5, <4>1, SwitchAwaySleepers DEF Wait
    <3>6. ASSUME NEW w \in Queue, WakeOne(c, w) PROVE FALSE
      <4>1. head[w] # t
        BY Zenon, <3>6 DEF WakeOne, IndInv, WellFormed, Fronts
      <4> QED
        BY ZenonT(30), <2>0, <3>6, <4>1 DEF WakeOne
    <3>7. ASSUME NEW w \in Queue, WakeAll(c, w) PROVE FALSE
      BY Zenon, <3>7 DEF WakeAll
    <3>8. ASSUME NEW u \in Worker, Wake(c, u) \/ SpawnCheck(c, u) PROVE FALSE
      BY Zenon, <3>8 DEF Wake, SpawnCheck
    <3> QED
      BY ZenonT(30), <2>2, <3>1, <3>2, <3>3, <3>4, <3>5, <3>6, <3>7, <3>8 DEF Calls
  <2>3. ASSUME NEW c \in Cpu, Holder(c) PROVE wake_at[t] <= clock
    <3>1. CASE WakeExpired(c)
      <4>1. t = sleepers /\ Expired(t)
        BY Zenon, <2>0, <3>1 DEF WakeExpired
      <4> QED
        BY <4>1 DEF Expired, IndInv, TimeInv, TypeOK
    <3>2. CASE YieldSwitch(c)
      <4>1. t # rq.head /\ t # Self(c)
        BY ZenonT(30), SelfFacts, NullNotThread DEF IndInv, WellFormed, Fronts
      <4> QED
        BY Zenon, <3>2, <4>1 DEF YieldSwitch
    <3>3. CASE ContextSwitch(c) \/ Resume(c)
      BY Zenon, <3>3 DEF ContextSwitch, Resume
    <3>4. CASE WakeAllStep(c)
      <4>1. head[arg] # Null => head[arg] # t
        BY ZenonT(30), <3>4 DEF WakeAllStep, IndInv, ControlInv, WellFormed, Fronts
      <4> QED
        BY ZenonT(30), <2>0, <3>4, <4>1 DEF WakeAllStep
    <3>5. ~WakeStep(c)
      BY Zenon DEF WakeStep, IndInv, ControlInv
    <3> QED
      BY ZenonT(30), <2>3, <3>1, <3>2, <3>3, <3>4, <3>5 DEF Holder
  <2>4. ASSUME NEW c \in Cpu,
               \/ Iret(c) \/ Interrupt(c, "timer") \/ Interrupt(c, "device")
               \/ EnterCall(c) \/ ReturnToUser(c)
        PROVE  FALSE
    BY Zenon, <2>4 DEF Iret, Interrupt, EnterCall, ReturnToUser
  <2> QED
    BY ZenonT(30), <2>1, <2>2, <2>3, <2>4 DEF Next
<1>2. Spec => [][A]_vars
  BY <1>1, Invariance, PTL DEF Spec
<1> QED
  BY Zenon, <1>2 DEF NotBeforeDeadline

\* All of it together: whatever the threads do and whenever the ticks come, each
\* thread is where its state says, for any number of CPUs, threads and queues.
THEOREM ThreadsStayAccounted == ASSUME AsUsed PROVE Spec => ThreadsAccounted
  BY TypeCorrect, LockIsHandedOver, ExitIsFinal, ListsStayDisjoint, NothingIsLost,
     AliveIsCounted, SleepLastsLongEnough, PTL
  DEF ThreadsAccounted
====
