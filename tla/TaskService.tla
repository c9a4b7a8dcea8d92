---------------------------- MODULE TaskService ----------------------------
(***************************************************************************)
(* What a thread pool promises, without its threads: a task is submitted   *)
(* at most once, waits its turn in a bounded first-in first-out queue, is  *)
(* run by one worker and is finished once.                                 *)
(***************************************************************************)
EXTENDS Naturals, Sequences

CONSTANTS Tasks, Capacity

VARIABLES pending,    \* tasks accepted and not started, oldest first
          running,    \* tasks being executed
          finished    \* tasks executed

vars == <<pending, running, finished>>

Queued == {pending[n] : n \in DOMAIN pending}

Init == pending = <<>> /\ running = {} /\ finished = {}

Submit(k) ==
  /\ k \notin Queued \union running \union finished
  /\ Len(pending) < Capacity
  /\ pending' = Append(pending, k)
  /\ UNCHANGED <<running, finished>>

Start ==
  /\ pending # <<>>
  /\ running' = running \union {Head(pending)}
  /\ pending' = Tail(pending)
  /\ UNCHANGED finished

Finish(k) ==
  /\ k \in running
  /\ running' = running \ {k}
  /\ finished' = finished \union {k}
  /\ UNCHANGED pending

Next == (\E k \in Tasks : Submit(k) \/ Finish(k)) \/ Start

Spec == Init /\ [][Next]_vars
=============================================================================
