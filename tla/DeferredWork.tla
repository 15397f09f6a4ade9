---------------------------- MODULE DeferredWork ----------------------------
(***************************************************************************)
(* What include/eris/work.hpp promises: a bounded queue of calls, each     *)
(* accepted call is run once, in the order the calls were accepted, and a  *)
(* call is refused only when Capacity of them are waiting.                 *)
(* Calls are numbered in the order they are accepted.                      *)
(***************************************************************************)
EXTENDS Naturals

CONSTANTS Worker,   \* threads that run deferred calls
          Capacity, \* calls that can wait at one time
          Idle      \* what a worker runs when it runs nothing

VARIABLES accepted, \* number of calls accepted so far
          started,  \* number of calls handed to a worker so far
          refused,  \* number of calls refused so far
          busy      \* the call each worker runs, or Idle

vars == <<accepted, started, refused, busy>>

Init == accepted = 0 /\ started = 0 /\ refused = 0 /\ busy = [w \in Worker |-> Idle]

Accept ==
    /\ accepted - started < Capacity
    /\ accepted' = accepted + 1
    /\ UNCHANGED <<started, refused, busy>>

Refuse ==
    /\ accepted - started = Capacity
    /\ refused' = refused + 1
    /\ UNCHANGED <<accepted, started, busy>>

Start(w) ==
    /\ busy[w] = Idle /\ started < accepted
    /\ started' = started + 1
    /\ busy' = [busy EXCEPT ![w] = started + 1]
    /\ UNCHANGED <<accepted, refused>>

Finish(w) ==
    /\ busy[w] # Idle
    /\ busy' = [busy EXCEPT ![w] = Idle]
    /\ UNCHANGED <<accepted, started, refused>>

Next == Accept \/ Refuse \/ \E w \in Worker : Start(w) \/ Finish(w)

Spec == Init /\ [][Next]_vars
====
