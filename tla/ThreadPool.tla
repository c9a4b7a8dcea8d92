----------------------------- MODULE ThreadPool -----------------------------
(***************************************************************************)
(* The thread pool of threadpool.c: worker threads take tasks from a       *)
(* bounded ring buffer, an adjusting thread grows and shrinks the set of   *)
(* workers, threadpool_add blocks while the ring is full, and              *)
(* threadpool_destroy shuts everything down.                               *)
(*                                                                         *)
(* Grain of atomicity.  A critical section of pool->mutex is one step,     *)
(* except where the code reads or does something in it that a thread       *)
(* WITHOUT the mutex can disturb: a worker that has evaluated its waiting  *)
(* condition but does not wait yet ("towait") can miss a signal, because   *)
(* adjust_thread and threadpool_destroy signal without holding the mutex.  *)
(* pool->shutdown is written without the mutex as well.                    *)
(***************************************************************************)
EXTENDS Integers, FiniteSets, Functions

CONSTANTS
  min_thread_num,           \* threadpool_create(min, max, queue_max_size)
  max_thread_num,
  queue_max_size,
  DEFAULT_THREAD_ADD_SIZE,  \* threads to add or to remove in one round
  Tids, NoTid,              \* identities pthread_create can return; the zeroed slot
  Tasks, NoTask,            \* arguments of threadpool_add; a cleared ring slot
  Clients,                  \* threads that call threadpool_add
  ConcurrentDestroy         \* FALSE: destroy only after every add returned, as main
                            \* does; TRUE: the two overlap, which threadpool_add
                            \* provides for by testing shutdown

ASSUME PoolAssumption ==
  /\ max_thread_num \in Nat /\ min_thread_num \in 1..max_thread_num
  /\ queue_max_size \in Nat \ {0}
  /\ DEFAULT_THREAD_ADD_SIZE \in Nat \ {0}
  /\ IsFiniteSet(Tids) /\ min_thread_num <= Cardinality(Tids)
  /\ NoTid \notin Tids /\ NoTask \notin Tasks
  /\ ConcurrentDestroy \in BOOLEAN

Slots     == 0..(max_thread_num - 1)    \* indices of pool->threads
RingSlots == 0..(queue_max_size - 1)    \* indices of pool->task_queue

VARIABLES
  task_queue, queue_front, queue_rear, queue_size,            \* the ring
  live_thread_num, busy_thread_num, wait_exit_thread_num,     \* the counters
  threads, shutdown,
  wpc, wtask,               \* each worker: where it is, the task it holds
  apc, adj,                 \* adjust_thread: where it is, its locals
  cpc, ctask,               \* each client: where it is in threadpool_add, its task
  dpc, di,                  \* threadpool_destroy: where it is, its loop index
  offered, done             \* history: tasks passed to add, tasks executed

queueVars   == <<task_queue, queue_front, queue_rear, queue_size>>
counterVars == <<live_thread_num, busy_thread_num, wait_exit_thread_num>>
workerVars  == <<wpc, wtask>>
adjustVars  == <<apc, adj>>
clientVars  == <<cpc, ctask>>
destroyVars == <<dpc, di, shutdown>>
historyVars == <<offered, done>>
vars == <<queueVars, counterVars, threads, workerVars, adjustVars, clientVars,
          destroyVars, historyVars>>

-----------------------------------------------------------------------------
(* Where the threads can be.                                               *)

WorkerStates ==
  {"unborn",    \* not created
   "lock",      \* about to lock pool->mutex at the top of its loop
   "check",     \* holds the mutex, about to evaluate the waiting condition
   "towait",    \* holds the mutex, has decided to wait
   "waiting",   \* in pthread_cond_wait on queue_not_empty
   "woken",     \* signalled, must take the mutex again
   "start",     \* holds a task, not counted busy yet
   "run",       \* counted busy, executing its task
   "exiting",   \* saw the shutdown, released the mutex
   "detached",  \* has detached itself, not ended yet
   "ended",     \* ended, detached: its id is no longer valid
   "retired"}   \* ended by wait_exit_thread_num, joinable

AdjustStates  == {"loop", "sleep", "snapped", "grow", "shrink", "signal", "ended", "crashed"}
ClientStates  == {"idle", "adding", "blocked"}
DestroyStates == {"none", "joinadjust", "signal", "join", "joining", "free", "freed", "crashed"}

Ended   == {t \in Tids : wpc[t] \in {"ended", "retired"}}
Left    == {t \in Tids : wpc[t] \in {"detached", "ended", "retired"}}
Unborn  == {t \in Tids : wpc[t] = "unborn"}
Waiting == {t \in Tids : wpc[t] = "waiting"}

(* No worker is inside a critical section that is more than one step. *)
MutexFree == \A t \in Tids : wpc[t] \notin {"check", "towait"}

(* The pool is allocated and nothing undefined has happened to it. *)
PoolUp == dpc \notin {"freed", "crashed"} /\ apc # "crashed"

(* pthread_cond_signal and pthread_cond_broadcast on queue_not_empty. *)
Wake(S) == wpc' = [t \in Tids |-> IF t \in S THEN "woken" ELSE wpc[t]]
SignalMissing == wpc' = wpc                     \* mutant: no signal
SignalNotEmpty ==
  \/ Waiting = {} /\ wpc' = wpc
  \/ \E t \in Waiting : Wake({t})
BroadcastNotEmpty == Wake(Waiting)

(* pthread_cond_broadcast on queue_not_full. *)
SignalNotFull ==                                \* mutant: signal, not broadcast
  \/ (\A c \in Clients : cpc[c] # "blocked") /\ cpc' = cpc
  \/ \E c \in Clients : cpc[c] = "blocked" /\ cpc' = [cpc EXCEPT ![c] = "adding"]
BroadcastNotFull ==
  cpc' = [c \in Clients |-> IF cpc[c] = "blocked" THEN "adding" ELSE cpc[c]]

-----------------------------------------------------------------------------
(* threadpool_create: the ring is empty, min_thread_num workers run.       *)

NoSnapshot == [size |-> 0, live |-> 0, busy |-> 0, i |-> 0]

Init ==
  /\ task_queue = [q \in RingSlots |-> NoTask]
  /\ queue_front = 0 /\ queue_rear = 0 /\ queue_size = 0
  /\ live_thread_num = min_thread_num
  /\ busy_thread_num = 0
  /\ wait_exit_thread_num = 0
  /\ shutdown = FALSE
  /\ \E start \in Injection(0..(min_thread_num - 1), Tids) :
       /\ threads = [i \in Slots |-> IF i < min_thread_num THEN start[i] ELSE NoTid]
       /\ wpc = [t \in Tids |-> IF t \in Range(start) THEN "lock" ELSE "unborn"]
  /\ wtask = [t \in Tids |-> NoTask]
  /\ apc = "loop" /\ adj = NoSnapshot
  /\ cpc = [c \in Clients |-> "idle"] /\ ctask = [c \in Clients |-> NoTask]
  /\ dpc = "none" /\ di = 0
  /\ offered = {} /\ done = {}

-----------------------------------------------------------------------------
(* threadpool_add                                                          *)

AddUnchanged == UNCHANGED <<counterVars, threads, wtask, adjustVars, destroyVars, done>>

(* The call returns. *)
AddReturn(c) == cpc' = [cpc EXCEPT ![c] = "idle"] /\ ctask' = [ctask EXCEPT ![c] = NoTask]

(* A client calls threadpool_add with a task it has not offered before. *)
AddCall(c) ==
  /\ cpc[c] = "idle"
  /\ ConcurrentDestroy \/ dpc = "none"
  /\ \E k \in Tasks \ offered :
       ctask' = [ctask EXCEPT ![c] = k] /\ offered' = offered \union {k}
  /\ cpc' = [cpc EXCEPT ![c] = "adding"]
  /\ AddUnchanged /\ UNCHANGED <<queueVars, wpc>>

(* The ring is full: wait on queue_not_full, releasing the mutex. *)
AddWait(c) ==
  /\ cpc[c] = "adding" /\ MutexFree
  /\ queue_size = queue_max_size /\ ~shutdown
  /\ cpc' = [cpc EXCEPT ![c] = "blocked"]
  /\ AddUnchanged /\ UNCHANGED <<queueVars, wpc, ctask, offered>>

(* The pool is shut down: the task is refused, the waiting workers are woken. *)
AddRefused(c) ==
  /\ cpc[c] = "adding" /\ MutexFree
  /\ shutdown
  /\ BroadcastNotEmpty
  /\ AddReturn(c)
  /\ AddUnchanged /\ UNCHANGED <<queueVars, offered>>

(* Lines 137-148 on the ring. The slot at the rear loses its argument in any  *)
(* case; the task is stored only if rear + 1, not reduced modulo the ring's   *)
(* size, differs from the front.                                              *)
Enqueue(k) ==
  /\ queue_front' = queue_front
  /\ \/ /\ queue_rear + 1 # queue_front
        /\ task_queue' = [task_queue EXCEPT ![queue_rear] = k]
        /\ queue_rear' = (queue_rear + 1) % queue_max_size
        /\ queue_size' = queue_size + 1
     \/ /\ queue_rear + 1 = queue_front
        /\ task_queue' = [task_queue EXCEPT ![queue_rear] = NoTask]
        /\ UNCHANGED <<queue_rear, queue_size>>

(* Mutant: threadpool_add does not test again whether the ring is full. *)
AddTaskUnguarded(c) ==
  /\ cpc[c] = "adding" /\ MutexFree
  /\ ~shutdown
  /\ Enqueue(ctask[c]) /\ SignalNotEmpty /\ AddReturn(c)
  /\ AddUnchanged /\ UNCHANGED offered

(* There is room and the pool is open: enqueue, signal one worker, return. *)
AddTask(c) ==
  /\ cpc[c] = "adding" /\ MutexFree
  /\ queue_size # queue_max_size /\ ~shutdown
  /\ Enqueue(ctask[c]) /\ SignalNotEmpty /\ AddReturn(c)
  /\ AddUnchanged /\ UNCHANGED offered

-----------------------------------------------------------------------------
(* threadpool_thread                                                       *)

WorkerUnchanged == UNCHANGED <<threads, adjustVars, ctask, destroyVars, offered>>

Goes(t, from, to) == wpc[t] = from /\ wpc' = [wpc EXCEPT ![t] = to]

(* A step that moves the worker on and changes nothing else. *)
Moves(t, from, to) ==
  Goes(t, from, to) /\ WorkerUnchanged /\ UNCHANGED <<queueVars, counterVars, wtask, cpc, done>>

(* pthread_mutex_lock at the top of the loop. *)
Lock(t) == MutexFree /\ Moves(t, "lock", "check")

(* The waiting condition holds: the worker commits to waiting ... *)
DecideToWait(t) == queue_size = 0 /\ ~shutdown /\ Moves(t, "check", "towait")

(* ... and is in pthread_cond_wait, the mutex released. *)
CondWait(t) == Moves(t, "towait", "waiting")

(* pthread_cond_wait may return although nobody signalled. *)
SpuriousWakeup(t) == Moves(t, "waiting", "woken")

(* pthread_cond_wait returns with the mutex held ... *)
Rewake(t) == MutexFree /\ wait_exit_thread_num = 0 /\ Moves(t, "woken", "check")

(* Mutant: the minimum is not looked at. *)
RetireUnguarded(t) ==
  /\ MutexFree /\ wait_exit_thread_num > 0
  /\ wait_exit_thread_num' = wait_exit_thread_num - 1
  /\ Goes(t, "woken", "retired") /\ live_thread_num' = live_thread_num - 1
  /\ WorkerUnchanged /\ UNCHANGED <<queueVars, busy_thread_num, wtask, cpc, done>>

(* ... and consumes a pending request to retire, which it obeys only while more *)
(* than min_thread_num workers live.                                            *)
Retire(t) ==
  /\ MutexFree /\ wait_exit_thread_num > 0
  /\ wait_exit_thread_num' = wait_exit_thread_num - 1
  /\ \/ /\ live_thread_num > min_thread_num
        /\ Goes(t, "woken", "retired") /\ live_thread_num' = live_thread_num - 1
     \/ /\ live_thread_num <= min_thread_num
        /\ Goes(t, "woken", "check") /\ UNCHANGED live_thread_num
  /\ WorkerUnchanged /\ UNCHANGED <<queueVars, busy_thread_num, wtask, cpc, done>>

(* The pool is shut down: release the mutex, then detach, then end. *)
ExitOnShutdown(t) == shutdown /\ Moves(t, "check", "exiting")
Detach(t) == Moves(t, "exiting", "detached")
End(t) == Moves(t, "detached", "ended")

(* Mutant: the front does not wrap. *)
TakeNoWrap(t) ==
  /\ queue_size # 0 /\ ~shutdown
  /\ wtask' = [wtask EXCEPT ![t] = task_queue[queue_front]]
  /\ queue_front' = queue_front + 1
  /\ queue_size' = queue_size - 1
  /\ BroadcastNotFull
  /\ Goes(t, "check", "start")
  /\ WorkerUnchanged /\ UNCHANGED <<task_queue, queue_rear, counterVars, done>>

(* Dequeue the task at the front and wake every blocked client. The slot keeps *)
(* its contents.                                                               *)
Take(t) ==
  /\ queue_size # 0 /\ ~shutdown
  /\ wtask' = [wtask EXCEPT ![t] = task_queue[queue_front]]
  /\ queue_front' = (queue_front + 1) % queue_max_size
  /\ queue_size' = queue_size - 1
  /\ BroadcastNotFull
  /\ Goes(t, "check", "start")
  /\ WorkerUnchanged /\ UNCHANGED <<task_queue, queue_rear, counterVars, done>>

(* busy_thread_num++ under busy_mutex, then the task runs. *)
StartTask(t) ==
  /\ Goes(t, "start", "run")
  /\ busy_thread_num' = busy_thread_num + 1
  /\ WorkerUnchanged
  /\ UNCHANGED <<queueVars, live_thread_num, wait_exit_thread_num, wtask, cpc, done>>

(* The task function returned: busy_thread_num-- under busy_mutex. *)
FinishTask(t) ==
  /\ Goes(t, "run", "lock")
  /\ busy_thread_num' = busy_thread_num - 1
  /\ done' = done \union {wtask[t]} /\ wtask' = [wtask EXCEPT ![t] = NoTask]
  /\ WorkerUnchanged /\ UNCHANGED <<queueVars, live_thread_num, wait_exit_thread_num, cpc>>

-----------------------------------------------------------------------------
(* adjust_thread                                                           *)

AdjustUnchanged ==
  UNCHANGED <<queueVars, busy_thread_num, wtask, clientVars, destroyVars, historyVars>>
PoolUnchanged == UNCHANGED <<live_thread_num, wait_exit_thread_num, threads, wpc>>

(* The loop condition, read without the mutex; then sleep(DEFAULT_TIME). *)
AdjustLoop ==
  /\ apc = "loop"
  /\ apc' = IF shutdown THEN "ended" ELSE "sleep"
  /\ AdjustUnchanged /\ PoolUnchanged /\ UNCHANGED adj

(* After the sleep: copy queue_size and live_thread_num under the mutex ... *)
AdjustSnapshot ==
  /\ apc = "sleep" /\ MutexFree
  /\ adj' = [adj EXCEPT !.size = queue_size, !.live = live_thread_num]
  /\ apc' = "snapped"
  /\ AdjustUnchanged /\ PoolUnchanged

(* ... and busy_thread_num under busy_mutex. *)
AdjustSnapshotBusy ==
  /\ apc = "snapped"
  /\ adj' = [adj EXCEPT !.busy = busy_thread_num]
  /\ apc' = "grow"
  /\ AdjustUnchanged /\ PoolUnchanged

WantsGrow   == adj.size > min_thread_num /\ adj.live < max_thread_num
WantsShrink == adj.busy * 2 < adj.live /\ adj.live > min_thread_num

(* Slots the growing loop may fill: empty ones and those whose thread is NOT   *)
(* known to be gone (is_thread_alive returns 0 for a live thread and -1 for a  *)
(* missing one, and the caller negates it). gone is the set of ended threads   *)
(* pthread_kill reports as missing: any of them may be, a joinable one because *)
(* the C libraries differ, a detached one because its id is no longer valid.   *)
Reusable(gone) == {i \in Slots : threads[i] \notin gone}

(* The slots the loop fills: in index order, until enough threads were added. *)
Filled(S, gone) ==
  LET room == max_thread_num - live_thread_num
  IN /\ \A i \in S, j \in Reusable(gone) \ S : i < j
     /\ Cardinality(S) <= DEFAULT_THREAD_ADD_SIZE /\ Cardinality(S) <= room
     /\ \/ S = Reusable(gone)
        \/ Cardinality(S) = DEFAULT_THREAD_ADD_SIZE
        \/ Cardinality(S) = room

(* Create threads under the mutex, overwriting the slots. Disabled when Tids   *)
(* has no identity left for a new thread: that set bounds the model.           *)
AdjustGrow ==
  /\ apc = "grow" /\ WantsGrow /\ MutexFree
  /\ \E gone \in SUBSET Ended : \E S \in SUBSET Reusable(gone) :
       /\ Filled(S, gone)
       /\ \E new \in Injection(S, Unborn) :
            /\ threads' = [i \in Slots |-> IF i \in S THEN new[i] ELSE threads[i]]
            /\ wpc' = [t \in Tids |-> IF t \in Range(new) THEN "lock" ELSE wpc[t]]
       /\ live_thread_num' = live_thread_num + Cardinality(S)
  /\ apc' = "shrink"
  /\ AdjustUnchanged /\ UNCHANGED <<adj, wait_exit_thread_num>>

(* ... which may also end the program: pthread_kill of a detached thread that  *)
(* has ended is undefined. The loop gets to its slot i.                        *)
AdjustKillsEnded ==
  /\ apc = "grow" /\ WantsGrow /\ MutexFree
  /\ \E i \in Slots :
       /\ threads[i] \in Tids /\ wpc[threads[i]] = "ended"
       /\ \E gone \in SUBSET Ended :
            LET before == Cardinality({j \in Reusable(gone) : j < i})
            IN before < DEFAULT_THREAD_ADD_SIZE /\ before < max_thread_num - live_thread_num
  /\ apc' = "crashed"
  /\ AdjustUnchanged /\ PoolUnchanged /\ UNCHANGED adj

AdjustNoGrow ==
  /\ apc = "grow" /\ ~WantsGrow
  /\ apc' = "shrink"
  /\ AdjustUnchanged /\ PoolUnchanged /\ UNCHANGED adj

(* Request DEFAULT_THREAD_ADD_SIZE threads to retire ... *)
AdjustShrink ==
  /\ apc = "shrink" /\ WantsShrink /\ MutexFree
  /\ wait_exit_thread_num' = DEFAULT_THREAD_ADD_SIZE
  /\ apc' = "signal"
  /\ AdjustUnchanged /\ UNCHANGED <<adj, live_thread_num, threads, wpc>>

AdjustNoShrink ==
  /\ apc = "shrink" /\ ~WantsShrink
  /\ apc' = "loop" /\ adj' = NoSnapshot
  /\ AdjustUnchanged /\ PoolUnchanged

(* ... and signal as many times, without the mutex. *)
AdjustSignal ==
  /\ apc = "signal"
  /\ SignalNotEmpty
  /\ IF adj.i + 1 = DEFAULT_THREAD_ADD_SIZE
     THEN apc' = "loop" /\ adj' = NoSnapshot
     ELSE apc' = apc /\ adj' = [adj EXCEPT !.i = adj.i + 1]
  /\ AdjustUnchanged /\ UNCHANGED <<live_thread_num, wait_exit_thread_num, threads>>

-----------------------------------------------------------------------------
(* threadpool_destroy                                                      *)

DestroyUnchanged == UNCHANGED <<queueVars, counterVars, threads, wtask, adjustVars,
                                clientVars, historyVars>>

DestroyMoves(from, to) ==
  dpc = from /\ dpc' = to /\ DestroyUnchanged /\ UNCHANGED <<shutdown, wpc>>

(* shutdown is set without the mutex. *)
Destroy ==
  /\ dpc = "none" /\ dpc' = "joinadjust"
  /\ ConcurrentDestroy \/ \A c \in Clients : cpc[c] = "idle"
  /\ shutdown' = TRUE
  /\ DestroyUnchanged /\ UNCHANGED <<di, wpc>>

(* Wait for adjust_thread to end. *)
JoinAdjust == apc = "ended" /\ DestroyMoves("joinadjust", "signal") /\ UNCHANGED di

(* Mutant: one round too many. *)
OneMoreRound == di <= live_thread_num

(* The condition of both loops: live_thread_num is read again in every round,  *)
(* without the mutex, and compared with #.                                     *)
MoreRounds == di # live_thread_num

(* One signal per live thread, without the mutex. Once live_thread_num has     *)
(* fallen below the index the loop does not end, which the index shows by      *)
(* staying at max_thread_num + 1.                                              *)
DestroySignal ==
  /\ dpc = "signal" /\ MoreRounds
  /\ SignalNotEmpty
  /\ di' = IF di > max_thread_num THEN di ELSE di + 1
  /\ DestroyUnchanged /\ UNCHANGED <<dpc, shutdown>>

DestroySignalled == ~MoreRounds /\ DestroyMoves("signal", "join") /\ di' = 0

(* pthread_join of threads[di], a worker that can be joined: the destroying    *)
(* thread is its joiner, and a detach after that changes nothing for it.       *)
JoinStart ==
  /\ MoreRounds /\ di \in Slots
  /\ threads[di] \in Tids /\ wpc[threads[di]] \notin {"detached", "ended"}
  /\ DestroyMoves("join", "joining") /\ UNCHANGED di

(* Mutant: the destroying thread does not wait for the thread to end. *)
JoinWithoutWaiting == DestroyMoves("joining", "join") /\ di' = di + 1

(* The call returns when the worker has ended. *)
JoinWait ==
  /\ DestroyMoves("joining", "join") /\ di' = di + 1
  /\ di \in Slots /\ threads[di] \in Ended

(* Of a worker that has detached itself and still lives: fails at once. *)
JoinDetached ==
  /\ MoreRounds /\ di \in Slots
  /\ threads[di] \in Tids /\ wpc[threads[di]] = "detached"
  /\ DestroyMoves("join", "join") /\ di' = di + 1

(* Of a worker that detached itself and has ended: undefined, since its id is  *)
(* no longer valid. The call fails or the program ends.                        *)
JoinEnded ==
  /\ MoreRounds /\ di \in Slots
  /\ threads[di] \in Tids /\ wpc[threads[di]] = "ended"
  /\ \/ DestroyMoves("join", "join") /\ di' = di + 1
     \/ DestroyMoves("join", "crashed") /\ UNCHANGED di

(* Of an empty slot, or of one behind the end of the array: undefined. *)
JoinNoThread ==
  /\ MoreRounds /\ (di \in Slots => threads[di] = NoTid)
  /\ DestroyMoves("join", "crashed") /\ UNCHANGED di

JoinedAll == ~MoreRounds /\ DestroyMoves("join", "free") /\ UNCHANGED di

(* threadpool_free gives the arrays back before it locks the mutex, so it does *)
(* not wait for a worker that is in a critical section.                        *)
Free == DestroyMoves("free", "freed") /\ UNCHANGED di

-----------------------------------------------------------------------------
(* The specification. Nothing is said of the pool after it was freed or after  *)
(* the use of an invalid thread id has ended the program.                      *)

Worker(t) ==
  \/ Lock(t) \/ DecideToWait(t) \/ CondWait(t) \/ Rewake(t) \/ Retire(t)
  \/ ExitOnShutdown(t) \/ Detach(t) \/ End(t) \/ Take(t) \/ StartTask(t) \/ FinishTask(t)

Client(c) == AddCall(c) \/ AddWait(c) \/ AddRefused(c) \/ AddTask(c)

Adjuster ==
  \/ AdjustLoop \/ AdjustSnapshot \/ AdjustSnapshotBusy
  \/ AdjustGrow \/ AdjustKillsEnded \/ AdjustNoGrow
  \/ AdjustShrink \/ AdjustNoShrink \/ AdjustSignal

Destroyer ==
  \/ Destroy \/ JoinAdjust \/ DestroySignal \/ DestroySignalled
  \/ JoinStart \/ JoinWait \/ JoinDetached \/ JoinEnded \/ JoinNoThread
  \/ JoinedAll \/ Free

Next ==
  /\ PoolUp
  /\ \/ \E t \in Tids : Worker(t) \/ SpuriousWakeup(t)
     \/ \E c \in Clients : Client(c)
     \/ Adjuster
     \/ Destroyer

Spec == Init /\ [][Next]_vars

(* A thread that waits for the mutex gets it if it is free again and again; a  *)
(* thread that can go on does. Nobody has to call threadpool_add or            *)
(* threadpool_destroy, and no wakeup has to be spurious.                       *)
Fairness ==
  /\ \A t \in Tids :
       /\ SF_vars(PoolUp /\ (Lock(t) \/ Rewake(t) \/ Retire(t)))
       /\ WF_vars(PoolUp /\ Worker(t))
  /\ \A c \in Clients : SF_vars(PoolUp /\ (AddWait(c) \/ AddRefused(c) \/ AddTask(c)))
  /\ SF_vars(PoolUp /\ Adjuster)
  /\ SF_vars(PoolUp /\ Destroyer /\ dpc # "none")

FairSpec == Spec /\ Fairness

-----------------------------------------------------------------------------
(* Properties                                                              *)

Snapshot == [size : 0..queue_max_size, live : 0..max_thread_num,
             busy : 0..max_thread_num, i : 0..(DEFAULT_THREAD_ADD_SIZE - 1)]

(* Every variable has its type; the locals of adjust_thread lie in the range   *)
(* of what they copy.                                                          *)
TypeOK ==
  /\ task_queue \in [RingSlots -> Tasks \union {NoTask}]
  /\ queue_front \in RingSlots /\ queue_rear \in RingSlots
  /\ queue_size \in 0..queue_max_size
  /\ live_thread_num \in 0..max_thread_num
  /\ busy_thread_num \in 0..max_thread_num
  /\ wait_exit_thread_num \in 0..DEFAULT_THREAD_ADD_SIZE
  /\ threads \in [Slots -> Tids \union {NoTid}]
  /\ shutdown \in BOOLEAN
  /\ wpc \in [Tids -> WorkerStates] /\ wtask \in [Tids -> Tasks \union {NoTask}]
  /\ apc \in AdjustStates /\ adj \in Snapshot
  /\ cpc \in [Clients -> ClientStates] /\ ctask \in [Clients -> Tasks \union {NoTask}]
  /\ dpc \in DestroyStates /\ di \in 0..(max_thread_num + 1)
  /\ offered \subseteq Tasks /\ done \subseteq Tasks \union {NoTask}

(* live_thread_num counts the workers that were created and did not retire,    *)
(* and stays between the pool's minimum and maximum, although the adjuster     *)
(* decides on snapshots that are stale when it acts (threadpool.c:171-179,     *)
(* 243-255); busy_thread_num counts the workers inside a task function.        *)
LiveWorkers == {t \in Tids : wpc[t] \notin {"unborn", "retired"}}
BusyWorkers == {t \in Tids : wpc[t] = "run"}
CountersExact ==
  /\ live_thread_num = Cardinality(LiveWorkers)
  /\ live_thread_num \in min_thread_num..max_thread_num
  /\ busy_thread_num = Cardinality(BusyWorkers)

(* threadpool_add blocks only while the ring is full: no client is left waiting *)
(* on queue_not_full once there is room (threadpool.c:126-128, 200-201).        *)
BlockedAdderMeansFull ==
  \A c \in Clients : cpc[c] = "blocked" => queue_size = queue_max_size

(* While the pool is open, tasks in the ring never face workers that are all    *)
(* asleep: some worker is on its way to the ring (threadpool.c:150-151, 166).   *)
Awake == {t \in Tids : wpc[t] \in {"lock", "check", "woken", "start", "run"}}
NoStrandedTask == ~shutdown /\ queue_size > 0 => Awake # {}

(* A pool may lose the signal meant for a task only with a worker that retires: *)
(* as long as none has, and however the pool grows, tasks in the ring never     *)
(* face workers that are all asleep (threadpool.c:150-151, 166-182).            *)
StrandedOnlyByRetiring == (\A t \in Tids : wpc[t] # "retired") => NoStrandedTask

(* The same where a worker may retire, of the states that would last: the       *)
(* adjuster is between two rounds, and with no more than min_thread_num tasks   *)
(* and min_thread_num workers its next rounds neither create nor signal a       *)
(* worker (threadpool.c:150-151, 170-182).                                      *)
NoAbandonedTask ==
  /\ ~shutdown /\ queue_size \in 1..min_thread_num
  /\ live_thread_num = min_thread_num /\ apc = "loop"
  => Awake # {}

(* When threadpool_destroy frees the pool, no worker can touch it any more      *)
(* (threadpool.c:300-303).                                                      *)
FreeIsQuiescent ==
  dpc = "freed" => \A t \in Tids : wpc[t] \in {"unborn", "exiting", "detached", "ended", "retired"}

(* threadpool_destroy calls pthread_join with the id of a worker only, never    *)
(* with an empty slot or one behind the array, although live_thread_num is read *)
(* again in every round (threadpool.c:300-302). The ids need not be valid: a    *)
(* worker may detach itself and end before its turn (189-190), which the first  *)
(* shutdown of any pool can show; this is the one undefined join left.          *)
JoinsWorkersOnly ==
  dpc \in {"joining", "crashed"} =>
    /\ di \in Slots /\ threads[di] \in Tids
    /\ dpc = "crashed" => wpc[threads[di]] = "ended"

(* pool->threads holds the tid of every worker that lives (threadpool.c:36).    *)
TidRecorded == \A t \in LiveWorkers \ Left : \E i \in Slots : threads[i] = t

(* Whatever goes wrong in threadpool_destroy comes of growing: a pool that may  *)
(* grow but has not created more than its first min_thread_num workers knows    *)
(* all of them by their slot, joins those and no others, and is freed when they *)
(* have left it (threadpool.c:248-255, 300-303). It shares with every pool that *)
(* a worker may end before it is joined.                                        *)
Grown == Cardinality(Tids \ Unborn) > min_thread_num
UngrownEndsInOrder == ~Grown => TidRecorded /\ JoinsWorkersOnly /\ FreeIsQuiescent

(* A call of threadpool_add that returns with the pool open has put its task    *)
(* into the ring (threadpool.c:142-148).                                        *)
AddStoresTask == [][\A c \in Clients : AddTask(c) => queue_size' = queue_size + 1]_vars

(* Every task in the ring is executed, unless the pool is shut down first. *)
InRing(k) == \E n \in 0..(queue_size - 1) : task_queue[(queue_front + n) % queue_max_size] = k
EveryTaskRuns ==
  \A k \in Tasks : InRing(k) ~> (k \in done \/ shutdown)

(* Once the pool is shut down every worker ends (threadpool.c:185-191), if the  *)
(* program does not end before.                                                 *)
ShutdownEndsWorkers ==
  shutdown ~> (~PoolUp \/ \A t \in Tids : wpc[t] \in {"unborn", "ended", "retired"})

(* The ring and the workers are a bounded first-in first-out task service. *)
Pending == [n \in 1..queue_size |-> task_queue[(queue_front + n - 1) % queue_max_size]]
Running == {wtask[t] : t \in {u \in Tids : wpc[u] \in {"start", "run"}}}
Service == INSTANCE TaskService WITH
  Capacity <- queue_max_size, pending <- Pending, running <- Running, finished <- done
ServiceSpec == Service!Spec
=============================================================================
