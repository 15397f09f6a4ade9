----------------------------- MODULE RoundRobin -----------------------------
(***************************************************************************)
(* What the scheduler promises: one first-in first-out queue of ready      *)
(* threads shared by the CPUs, an idle thread per CPU that runs when the   *)
(* queue has nothing, and sleeping or blocked threads that come back at    *)
(* the end of the queue.                                                   *)
(***************************************************************************)
EXTENDS Sequences

CONSTANTS Cpu, Worker

VARIABLES ready,    \* the threads that wait for a CPU, in order
          running,  \* the thread of each CPU
          parked,   \* threads asleep or blocked
          born      \* threads that exist

vars == <<ready, running, parked, born>>

Init == ready = <<>> /\ running = [c \in Cpu |-> c] /\ parked = {} /\ born = {}

Spawn(t) ==
    /\ t \notin born
    /\ born' = born \cup {t}
    /\ ready' = Append(ready, t)
    /\ UNCHANGED <<running, parked>>

\* A parked thread goes to the end of the queue.
Ready(t) ==
    /\ t \in parked
    /\ parked' = parked \ {t}
    /\ ready' = Append(ready, t)
    /\ UNCHANGED <<running, born>>

\* The oldest ready thread takes the CPU, its thread goes to the end.
Preempt(c) ==
    /\ ready # <<>>
    /\ running' = [running EXCEPT ![c] = Head(ready)]
    /\ ready' = IF running[c] = c THEN Tail(ready)
                                  ELSE Append(Tail(ready), running[c])
    /\ UNCHANGED <<parked, born>>

\* The thread of c parks or exits; the oldest ready one replaces it, or idle.
Leave(c) ==
    /\ running[c] # c
    /\ \/ parked' = parked \cup {running[c]}
       \/ parked' = parked
    /\ IF ready = <<>>
       THEN running' = [running EXCEPT ![c] = c] /\ UNCHANGED ready
       ELSE /\ running' = [running EXCEPT ![c] = Head(ready)]
            /\ ready' = Tail(ready)
    /\ UNCHANGED born

Next ==
    \/ \E t \in Worker : Spawn(t) \/ Ready(t)
    \/ \E c \in Cpu : Preempt(c) \/ Leave(c)

Spec == Init /\ [][Next]_vars
====
