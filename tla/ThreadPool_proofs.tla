-------------------------- MODULE ThreadPool_proofs --------------------------
(***************************************************************************)
(* Theorems about ThreadPool, for every number of workers, ring size and   *)
(* number of clients and tasks.                                            *)
(***************************************************************************)
EXTENDS ThreadPool, FiniteSetTheorems, FunctionTheorems, TLAPS

-----------------------------------------------------------------------------
(* Lemmas about sets of threads.                                           *)

(* The range of an injection from a finite set has as many elements as the set. *)
LEMMA InjectionRange ==
  ASSUME NEW S, NEW T, IsFiniteSet(S), NEW f \in Injection(S, T)
  PROVE  /\ Range(f) \subseteq T
         /\ IsFiniteSet(Range(f))
         /\ Cardinality(Range(f)) = Cardinality(S)
<1>1. f \in Bijection(S, Range(f))
  BY Fun_InjMeansBijImage
<1>2. ExistsBijection(S, Range(f))
  BY <1>1, Fun_ExistsBij
<1>3. f \in [S -> T]
  BY Fun_InjectionProperties
<1>. QED
  BY <1>2, <1>3, FS_Bijection, Fun_RangeProperties

(* Every set of threads is finite, and its size a number. *)
LEMMA TidSetFinite ==
  ASSUME NEW S \in SUBSET Tids
  PROVE  IsFiniteSet(S) /\ Cardinality(S) \in Nat
BY PoolAssumption, FS_Subset, FS_CardinalityType

(* The slots of pool->threads are finitely many. *)
LEMMA SlotSetFinite ==
  ASSUME NEW S \in SUBSET Slots
  PROVE  IsFiniteSet(S) /\ Cardinality(S) \in Nat
<1>1. IsFiniteSet(Slots)
  BY PoolAssumption, FS_Interval DEF Slots
<1>. QED
  BY <1>1, FS_Subset, FS_CardinalityType

(* Waking waiting workers makes nobody live, dead, busy or idle. *)
LEMMA WakeKeepsCounts ==
  ASSUME TypeOK, NEW S \in SUBSET Waiting, Wake(S)
  PROVE  /\ wpc' \in [Tids -> WorkerStates]
         /\ LiveWorkers' = LiveWorkers /\ BusyWorkers' = BusyWorkers
BY DEF TypeOK, Wake, Waiting, LiveWorkers, BusyWorkers, WorkerStates

LEMMA SignalKeepsCounts ==
  ASSUME TypeOK, SignalNotEmpty
  PROVE  /\ wpc' \in [Tids -> WorkerStates]
         /\ LiveWorkers' = LiveWorkers /\ BusyWorkers' = BusyWorkers
<1>1. CASE Waiting = {} /\ wpc' = wpc
  BY <1>1 DEF TypeOK, LiveWorkers, BusyWorkers
<1>2. CASE \E t \in Waiting : Wake({t})
  BY <1>2, WakeKeepsCounts
<1>. QED
  BY <1>1, <1>2 DEF SignalNotEmpty

(* What a move of one worker does to the two sets of workers that are counted. *)
LEMMA GoesCounts ==
  ASSUME TypeOK, NEW t \in Tids, NEW a \in WorkerStates \ {"unborn", "retired"},
         NEW b \in WorkerStates \ {"unborn"}, Goes(t, a, b)
  PROVE  /\ wpc' \in [Tids -> WorkerStates]
         /\ LiveWorkers' = IF b = "retired" THEN LiveWorkers \ {t} ELSE LiveWorkers
         /\ BusyWorkers' = IF b = "run" THEN BusyWorkers \union {t} ELSE BusyWorkers \ {t}
         /\ t \in LiveWorkers
         /\ t \in BusyWorkers <=> a = "run"
BY DEF TypeOK, Goes, LiveWorkers, BusyWorkers

-----------------------------------------------------------------------------
(* Types and counters together are inductive: the range of live_thread_num     *)
(* and busy_thread_num comes from what they count.                             *)
IInv == TypeOK /\ CountersExact

LEMMA InitIInv ==
  Init => IInv
<1> SUFFICES ASSUME Init PROVE IInv
  OBVIOUS
<1>1. PICK start \in Injection(0..(min_thread_num - 1), Tids) :
        /\ threads = [i \in Slots |-> IF i < min_thread_num THEN start[i] ELSE NoTid]
        /\ wpc = [t \in Tids |-> IF t \in Range(start) THEN "lock" ELSE "unborn"]
  BY DEF Init
<1>2. start \in [0..(min_thread_num - 1) -> Tids]
  BY Fun_InjectionProperties
<1>3. IsFiniteSet(0..(min_thread_num - 1)) /\ Cardinality(0..(min_thread_num - 1)) = min_thread_num
  BY PoolAssumption, FS_Interval
<1>4. Range(start) \subseteq Tids /\ Cardinality(Range(start)) = min_thread_num
  BY <1>3, InjectionRange
<1>5. LiveWorkers = Range(start) /\ BusyWorkers = {}
  BY <1>1, <1>4 DEF LiveWorkers, BusyWorkers
<1>6. TypeOK
  <2>1. threads \in [Slots -> Tids \union {NoTid}]
    BY <1>1, <1>2, PoolAssumption DEF Slots
  <2>2. NoSnapshot \in Snapshot
    BY PoolAssumption DEF NoSnapshot, Snapshot
  <2>3. wpc \in [Tids -> WorkerStates] /\ cpc \in [Clients -> ClientStates]
    BY <1>1 DEF Init, WorkerStates, ClientStates
  <2>4. 0 \in RingSlots
    BY PoolAssumption DEF RingSlots
  <2>5. /\ task_queue \in [RingSlots -> Tasks \union {NoTask}]
        /\ wtask \in [Tids -> Tasks \union {NoTask}] /\ ctask \in [Clients -> Tasks \union {NoTask}]
    BY DEF Init
  <2>6. /\ queue_size \in 0..queue_max_size /\ live_thread_num \in 0..max_thread_num
        /\ busy_thread_num \in 0..max_thread_num /\ di \in 0..(max_thread_num + 1)
        /\ wait_exit_thread_num \in 0..DEFAULT_THREAD_ADD_SIZE
    BY PoolAssumption DEF Init
  <2>. QED
    BY <2>1, <2>2, <2>3, <2>4, <2>5, <2>6 DEF Init, TypeOK, AdjustStates, DestroyStates
<1>7. CountersExact
  BY <1>4, <1>5, PoolAssumption, FS_EmptySet DEF Init, CountersExact
<1>. QED
  BY <1>6, <1>7 DEF IInv

(* A step of a worker. *)
LEMMA WorkerIInv ==
  ASSUME IInv, NEW t \in Tids, Worker(t) \/ SpuriousWakeup(t)
  PROVE  IInv'
<1> USE PoolAssumption DEF IInv
<1>1. IsFiniteSet(LiveWorkers) /\ IsFiniteSet(BusyWorkers)
  BY TidSetFinite DEF LiveWorkers, BusyWorkers
<1>2. ASSUME NEW a \in WorkerStates \ {"unborn", "retired", "run"},
             NEW b \in WorkerStates \ {"unborn", "retired", "run"}, Moves(t, a, b)
      PROVE  IInv'
  <2>1. /\ wpc' \in [Tids -> WorkerStates]
        /\ LiveWorkers' = LiveWorkers /\ BusyWorkers' = BusyWorkers
    BY <1>2, GoesCounts DEF Moves
  <2>2. TypeOK'
    BY <1>2, <2>1 DEF TypeOK, Moves, WorkerUnchanged, queueVars, counterVars, adjustVars, destroyVars
  <2>. QED
    BY <1>2, <2>1, <2>2 DEF CountersExact, Moves, counterVars
<1>3. CASE \/ Lock(t) \/ DecideToWait(t) \/ CondWait(t) \/ SpuriousWakeup(t) \/ Rewake(t)
           \/ ExitOnShutdown(t) \/ Detach(t) \/ End(t)
  BY <1>2, <1>3 DEF Lock, DecideToWait, CondWait, SpuriousWakeup, Rewake, ExitOnShutdown,
                    Detach, End, WorkerStates
<1>4. CASE Retire(t)
  <2>1. wait_exit_thread_num' \in 0..DEFAULT_THREAD_ADD_SIZE
    BY <1>4 DEF Retire, TypeOK
  <2>2. CASE Goes(t, "woken", "retired") /\ live_thread_num > min_thread_num
             /\ live_thread_num' = live_thread_num - 1
    <3>1. /\ wpc' \in [Tids -> WorkerStates]
          /\ LiveWorkers' = LiveWorkers \ {t} /\ BusyWorkers' = BusyWorkers
          /\ t \in LiveWorkers
      BY <2>2, GoesCounts DEF WorkerStates
    <3>2. Cardinality(LiveWorkers') = Cardinality(LiveWorkers) - 1
      BY <1>1, <3>1, FS_RemoveElement
    <3>3. CountersExact'
      BY <1>4, <2>2, <3>1, <3>2 DEF CountersExact, Retire
    <3>. QED
      BY <1>4, <2>1, <2>2, <3>1, <3>3
      DEF TypeOK, CountersExact, Retire, WorkerUnchanged, queueVars, adjustVars, destroyVars
  <2>3. CASE Goes(t, "woken", "check") /\ UNCHANGED live_thread_num
    <3>1. /\ wpc' \in [Tids -> WorkerStates]
          /\ LiveWorkers' = LiveWorkers /\ BusyWorkers' = BusyWorkers
      BY <2>3, GoesCounts DEF WorkerStates
    <3>. QED
      BY <1>4, <2>1, <2>3, <3>1
      DEF TypeOK, CountersExact, Retire, WorkerUnchanged, queueVars, adjustVars, destroyVars
  <2>. QED
    BY <1>4, <2>2, <2>3 DEF Retire
<1>5. CASE Take(t)
  <2>1. /\ wpc' \in [Tids -> WorkerStates]
        /\ LiveWorkers' = LiveWorkers /\ BusyWorkers' = BusyWorkers
    <3>1. {"check", "start"} \subseteq WorkerStates \ {"unborn", "retired", "run"}
      BY DEF WorkerStates
    <3>2. Goes(t, "check", "start")
      BY <1>5 DEF Take
    <3>. QED
      BY <3>1, <3>2, GoesCounts
  <2>2. queue_front' \in RingSlots /\ queue_size' \in 0..queue_max_size
    BY <1>5 DEF Take, TypeOK, RingSlots
  <2>3. cpc' \in [Clients -> ClientStates] /\ wtask' \in [Tids -> Tasks \union {NoTask}]
    BY <1>5 DEF Take, TypeOK, RingSlots, BroadcastNotFull, ClientStates
  <2>4. TypeOK'
    BY <1>5, <2>1, <2>2, <2>3 DEF Take, TypeOK, WorkerUnchanged, counterVars, adjustVars, destroyVars
  <2>. QED
    BY <1>5, <2>1, <2>4 DEF CountersExact, Take, counterVars
<1>6. CASE StartTask(t)
  <2>1. /\ wpc' \in [Tids -> WorkerStates]
        /\ LiveWorkers' = LiveWorkers /\ BusyWorkers' = BusyWorkers \union {t}
        /\ t \notin BusyWorkers
    BY <1>6, GoesCounts DEF StartTask, WorkerStates
  <2>2. Cardinality(BusyWorkers') = Cardinality(BusyWorkers) + 1
    BY <1>1, <2>1, FS_AddElement
  <2>3. CountersExact'
    BY <1>6, <2>1, <2>2 DEF CountersExact, StartTask
  <2>4. busy_thread_num' \in 0..max_thread_num
    <3>1. BusyWorkers' \subseteq LiveWorkers
      BY <2>1, <1>6, GoesCounts DEF StartTask, BusyWorkers, LiveWorkers, WorkerStates
    <3>. QED
      BY <1>1, <2>1, <2>3, <3>1, FS_Subset DEF CountersExact, TypeOK, StartTask
  <2>. QED
    BY <1>6, <2>1, <2>3, <2>4
    DEF TypeOK, StartTask, WorkerUnchanged, queueVars, adjustVars, destroyVars
<1>7. CASE FinishTask(t)
  <2>1. /\ wpc' \in [Tids -> WorkerStates]
        /\ LiveWorkers' = LiveWorkers /\ BusyWorkers' = BusyWorkers \ {t}
        /\ t \in BusyWorkers
    BY <1>7, GoesCounts DEF FinishTask, WorkerStates
  <2>2. Cardinality(BusyWorkers') = Cardinality(BusyWorkers) - 1
    BY <1>1, <2>1, FS_RemoveElement
  <2>3. CountersExact'
    BY <1>7, <2>1, <2>2 DEF CountersExact, FinishTask
  <2>4. busy_thread_num' \in 0..max_thread_num
    <3>1. Cardinality(BusyWorkers') \in Nat
      BY TidSetFinite, <2>1 DEF BusyWorkers
    <3>. QED
      BY <1>7, <2>3, <3>1 DEF CountersExact, TypeOK, FinishTask
  <2>5. done' \subseteq Tasks \union {NoTask} /\ wtask' \in [Tids -> Tasks \union {NoTask}]
    BY <1>7 DEF FinishTask, TypeOK
  <2>. QED
    BY <1>7, <2>1, <2>3, <2>4, <2>5
    DEF TypeOK, FinishTask, WorkerUnchanged, queueVars, adjustVars, destroyVars
<1>. QED
  BY <1>3, <1>4, <1>5, <1>6, <1>7 DEF Worker

(* A step of a client inside or outside threadpool_add. *)
LEMMA ClientIInv ==
  ASSUME IInv, NEW c \in Clients, Client(c)
  PROVE  IInv'
<1> USE PoolAssumption DEF IInv
<1>1. cpc' \in [Clients -> ClientStates] /\ ctask' \in [Clients -> Tasks \union {NoTask}]
  BY DEF Client, AddCall, AddWait, AddRefused, AddTask, AddReturn, TypeOK, ClientStates
<1>2. CASE AddCall(c) \/ AddWait(c)
  <2>1. offered' \subseteq Tasks
    BY <1>2 DEF AddCall, AddWait, TypeOK
  <2>2. wpc' = wpc /\ LiveWorkers' = LiveWorkers /\ BusyWorkers' = BusyWorkers
    BY <1>2 DEF AddCall, AddWait, LiveWorkers, BusyWorkers
  <2>. QED
    BY <1>1, <1>2, <2>1, <2>2
    DEF AddCall, AddWait, AddUnchanged, TypeOK, CountersExact, queueVars, counterVars,
        adjustVars, destroyVars
<1>3. CASE AddRefused(c)
  <2>1. /\ wpc' \in [Tids -> WorkerStates]
        /\ LiveWorkers' = LiveWorkers /\ BusyWorkers' = BusyWorkers
    BY <1>3, WakeKeepsCounts DEF AddRefused, BroadcastNotEmpty
  <2>. QED
    BY <1>1, <1>3, <2>1
    DEF AddRefused, AddUnchanged, TypeOK, CountersExact, queueVars, counterVars, adjustVars, destroyVars
<1>4. CASE AddTask(c)
  <2>1. /\ wpc' \in [Tids -> WorkerStates]
        /\ LiveWorkers' = LiveWorkers /\ BusyWorkers' = BusyWorkers
    BY <1>4, SignalKeepsCounts DEF AddTask
  <2>2. /\ task_queue' \in [RingSlots -> Tasks \union {NoTask}]
        /\ queue_front' \in RingSlots /\ queue_rear' \in RingSlots
        /\ queue_size' \in 0..queue_max_size
    BY <1>4 DEF AddTask, Enqueue, TypeOK, RingSlots
  <2>. QED
    BY <1>1, <1>4, <2>1, <2>2
    DEF AddTask, AddUnchanged, TypeOK, CountersExact, counterVars, adjustVars, destroyVars
<1>. QED
  BY <1>2, <1>3, <1>4 DEF Client

(* The adjuster creates no more threads than there is room for, and counts    *)
(* each of them.                                                              *)
LEMMA GrowCounts ==
  ASSUME IInv, AdjustGrow
  PROVE  /\ CountersExact'
         /\ live_thread_num' \in 0..max_thread_num
         /\ threads' \in [Slots -> Tids \union {NoTid}]
         /\ wpc' \in [Tids -> WorkerStates]
<1>. PICK gone \in SUBSET Ended : \E S \in SUBSET Reusable(gone) :
        /\ Filled(S, gone)
        /\ \E new \in Injection(S, Unborn) :
             /\ threads' = [i \in Slots |-> IF i \in S THEN new[i] ELSE threads[i]]
             /\ wpc' = [t \in Tids |-> IF t \in Range(new) THEN "lock" ELSE wpc[t]]
        /\ live_thread_num' = live_thread_num + Cardinality(S)
  BY DEF AdjustGrow
<1>. PICK S \in SUBSET Reusable(gone) :
        /\ Filled(S, gone)
        /\ \E new \in Injection(S, Unborn) :
             /\ threads' = [i \in Slots |-> IF i \in S THEN new[i] ELSE threads[i]]
             /\ wpc' = [t \in Tids |-> IF t \in Range(new) THEN "lock" ELSE wpc[t]]
        /\ live_thread_num' = live_thread_num + Cardinality(S)
  OBVIOUS
<1>1. PICK new \in Injection(S, Unborn) :
        /\ threads' = [i \in Slots |-> IF i \in S THEN new[i] ELSE threads[i]]
        /\ wpc' = [t \in Tids |-> IF t \in Range(new) THEN "lock" ELSE wpc[t]]
  OBVIOUS
<1>2. new \in [S -> Unborn] /\ S \subseteq Slots
  BY Fun_InjectionProperties DEF Reusable
<1>3. IsFiniteSet(S) /\ Cardinality(S) \in Nat
  BY <1>2, SlotSetFinite
<1>4. /\ Range(new) \subseteq Unborn /\ IsFiniteSet(Range(new))
      /\ Cardinality(Range(new)) = Cardinality(S)
  BY <1>3, InjectionRange
<1>5. wpc' \in [Tids -> WorkerStates]
  BY <1>1 DEF IInv, TypeOK, WorkerStates
<1>6. threads' \in [Slots -> Tids \union {NoTid}]
  BY <1>1, <1>2 DEF IInv, TypeOK, Unborn
<1>7. LiveWorkers' = LiveWorkers \union Range(new) /\ LiveWorkers \intersect Range(new) = {}
  BY <1>1, <1>4 DEF LiveWorkers, Unborn
<1>8. BusyWorkers' = BusyWorkers
  BY <1>1, <1>4 DEF BusyWorkers, Unborn
<1>9. Cardinality(LiveWorkers') = Cardinality(LiveWorkers) + Cardinality(S)
  <2>1. IsFiniteSet(LiveWorkers) /\ Cardinality(LiveWorkers) \in Nat
    BY TidSetFinite DEF LiveWorkers
  <2>2. Cardinality(LiveWorkers \union Range(new))
          = Cardinality(LiveWorkers) + Cardinality(Range(new)) - Cardinality(LiveWorkers \intersect Range(new))
    BY <1>4, <2>1, FS_Union
  <2>. QED
    BY <1>3, <1>4, <1>7, <2>1, <2>2, FS_EmptySet
<1>10. Cardinality(S) <= max_thread_num - live_thread_num
  BY DEF Filled
<1>. QED
  BY <1>1, <1>3, <1>5, <1>6, <1>8, <1>9, <1>10, PoolAssumption
  DEF IInv, TypeOK, CountersExact, AdjustGrow, AdjustUnchanged

(* A step of adjust_thread. *)
LEMMA AdjusterIInv ==
  ASSUME IInv, Adjuster
  PROVE  IInv'
<1> USE PoolAssumption DEF IInv
<1>1. NoSnapshot \in Snapshot
  BY DEF NoSnapshot, Snapshot
<1>2. CASE \/ AdjustLoop \/ AdjustSnapshot \/ AdjustSnapshotBusy
           \/ AdjustKillsEnded \/ AdjustNoGrow \/ AdjustNoShrink
  <2>1. adj' \in Snapshot
    BY <1>1, <1>2
    DEF AdjustLoop, AdjustSnapshot, AdjustSnapshotBusy, AdjustKillsEnded, AdjustNoGrow, AdjustNoShrink,
        TypeOK, Snapshot
  <2>2. apc' \in AdjustStates /\ AdjustUnchanged /\ PoolUnchanged
    BY <1>2
    DEF AdjustLoop, AdjustSnapshot, AdjustSnapshotBusy, AdjustKillsEnded, AdjustNoGrow, AdjustNoShrink,
        AdjustStates
  <2>3. LiveWorkers' = LiveWorkers /\ BusyWorkers' = BusyWorkers
    BY <2>2 DEF PoolUnchanged, LiveWorkers, BusyWorkers
  <2>. QED
    BY <2>1, <2>2, <2>3
    DEF TypeOK, CountersExact, AdjustUnchanged, PoolUnchanged, queueVars, clientVars,
        destroyVars, historyVars
<1>3. CASE AdjustGrow
  BY <1>3, GrowCounts
  DEF TypeOK, AdjustGrow, AdjustUnchanged, AdjustStates, queueVars, clientVars, destroyVars, historyVars
<1>4. CASE AdjustShrink
  <2>1. LiveWorkers' = LiveWorkers /\ BusyWorkers' = BusyWorkers
    BY <1>4 DEF AdjustShrink, LiveWorkers, BusyWorkers
  <2>. QED
    BY <1>4, <2>1
    DEF TypeOK, CountersExact, AdjustShrink, AdjustUnchanged, AdjustStates, queueVars,
        clientVars, destroyVars, historyVars
<1>5. CASE AdjustSignal
  <2>1. /\ wpc' \in [Tids -> WorkerStates]
        /\ LiveWorkers' = LiveWorkers /\ BusyWorkers' = BusyWorkers
    BY <1>5, SignalKeepsCounts DEF AdjustSignal
  <2>2. apc' \in AdjustStates /\ adj' \in Snapshot
    BY <1>1, <1>5 DEF AdjustSignal, TypeOK, AdjustStates, Snapshot
  <2>. QED
    BY <1>5, <2>1, <2>2
    DEF TypeOK, CountersExact, AdjustSignal, AdjustUnchanged, queueVars, clientVars,
        destroyVars, historyVars
<1>. QED
  BY <1>2, <1>3, <1>4, <1>5 DEF Adjuster

(* A step of threadpool_destroy. *)
LEMMA DestroyerIInv ==
  ASSUME IInv, Destroyer
  PROVE  IInv'
<1> USE PoolAssumption DEF IInv
<1>1. /\ wpc' \in [Tids -> WorkerStates]
      /\ LiveWorkers' = LiveWorkers /\ BusyWorkers' = BusyWorkers
  <2>1. CASE DestroySignal
    BY <2>1, SignalKeepsCounts DEF DestroySignal
  <2>2. CASE wpc' = wpc
    BY <2>2 DEF TypeOK, LiveWorkers, BusyWorkers
  <2>. QED
    BY <2>1, <2>2 DEF Destroyer, Destroy, JoinAdjust, DestroySignalled, JoinStart, JoinWait, JoinDetached,
                      JoinEnded, JoinNoThread,
                      JoinedAll, Free, DestroyMoves
<1>2. DestroyUnchanged
  BY DEF Destroyer, Destroy, JoinAdjust, DestroySignal, DestroySignalled, JoinStart, JoinWait, JoinDetached,
         JoinEnded, JoinNoThread,
         JoinedAll, Free, DestroyMoves
<1>3. dpc' \in DestroyStates /\ shutdown' \in BOOLEAN
  BY DEF Destroyer, Destroy, JoinAdjust, DestroySignal, DestroySignalled, JoinStart, JoinWait, JoinDetached,
         JoinEnded, JoinNoThread,
         JoinedAll, Free, DestroyMoves, DestroyStates, TypeOK
<1>4. di' \in 0..(max_thread_num + 1)
  <2>1. CASE DestroySignal
    BY <2>1 DEF DestroySignal, TypeOK
  <2>2. CASE JoinStart \/ JoinDetached \/ JoinEnded
    BY <2>2 DEF JoinStart, JoinDetached, JoinEnded, Slots, TypeOK
  <2>5. CASE JoinWait
    BY <2>5 DEF JoinWait, Slots, TypeOK
  <2>3. CASE DestroySignalled
    BY <2>3 DEF DestroySignalled
  <2>4. CASE UNCHANGED di
    BY <2>4 DEF TypeOK
  <2>. QED
    BY <2>1, <2>2, <2>3, <2>4, <2>5 DEF Destroyer, Destroy, JoinAdjust, JoinNoThread, JoinedAll, Free
<1>. QED
  BY <1>1, <1>2, <1>3, <1>4
  DEF TypeOK, CountersExact, DestroyUnchanged, queueVars, counterVars, adjustVars, clientVars, historyVars

(* A step that changes nothing. *)
LEMMA StutterIInv ==
  ASSUME IInv, UNCHANGED vars
  PROVE  IInv'
BY DEF IInv, TypeOK, CountersExact, LiveWorkers, BusyWorkers, vars, queueVars, counterVars,
       workerVars, adjustVars, clientVars, destroyVars, historyVars

(* Spec keeps the types and the counters, whatever the interleaving: the        *)
(* snapshots adjust_thread decides on (threadpool.c:233-240) never let the pool *)
(* leave min_thread_num..max_thread_num, and no thread is counted twice or      *)
(* forgotten (threadpool.c:171-181, 248-255).                                   *)
THEOREM CountersCorrect == Spec => [](TypeOK /\ CountersExact)
<1>1. Init => IInv
  BY InitIInv
<1>2. IInv /\ [Next]_vars => IInv'
  BY WorkerIInv, ClientIInv, AdjusterIInv, DestroyerIInv, StutterIInv DEF Next
<1>3. IInv => TypeOK /\ CountersExact
  BY DEF IInv
<1>. QED
  BY <1>1, <1>2, <1>3, PTL DEF Spec

-----------------------------------------------------------------------------
(* Blocked clients. A step that makes room is the dequeue of a worker, and it   *)
(* wakes all of them; a step that blocks one finds the ring full.               *)
LEMMA BlockedAdderStep ==
  ASSUME TypeOK, BlockedAdderMeansFull, [Next]_vars
  PROVE  BlockedAdderMeansFull'
<1>1. CASE cpc' = cpc /\ queue_size' = queue_size
  BY <1>1 DEF BlockedAdderMeansFull
<1>2. ASSUME NEW t \in Tids, Worker(t)
      PROVE  BlockedAdderMeansFull'
  <2>1. CASE Take(t)
    BY <2>1 DEF Take, BroadcastNotFull, BlockedAdderMeansFull, TypeOK
  <2>2. CASE ~Take(t)
    BY <1>1, <1>2, <2>2
    DEF Worker, Lock, DecideToWait, CondWait, Rewake, Retire, ExitOnShutdown, Detach, End, StartTask,
        FinishTask, Moves, queueVars
  <2>. QED
    BY <2>1, <2>2
<1>3. ASSUME NEW c \in Clients, Client(c)
      PROVE  BlockedAdderMeansFull'
  <2>1. CASE AddCall(c) \/ AddRefused(c)
    BY <2>1 DEF AddCall, AddRefused, AddReturn, BlockedAdderMeansFull, TypeOK, queueVars
  <2>2. CASE AddWait(c)
    BY <2>2 DEF AddWait, BlockedAdderMeansFull, TypeOK, queueVars
  <2>3. CASE AddTask(c)
    <3>1. \A b \in Clients : cpc[b] # "blocked"
      BY <2>3 DEF AddTask, BlockedAdderMeansFull
    <3>. QED
      BY <2>3, <3>1 DEF AddTask, AddReturn, BlockedAdderMeansFull, TypeOK
  <2>. QED
    BY <1>3, <2>1, <2>2, <2>3 DEF Client
<1>4. CASE Adjuster
  BY <1>1, <1>4
  DEF Adjuster, AdjustLoop, AdjustSnapshot, AdjustSnapshotBusy, AdjustGrow, AdjustKillsEnded, AdjustNoGrow,
      AdjustShrink, AdjustNoShrink, AdjustSignal, AdjustUnchanged, queueVars, clientVars
<1>5. CASE Destroyer
  BY <1>1, <1>5
  DEF Destroyer, Destroy, JoinAdjust, DestroySignal, DestroySignalled, JoinStart, JoinWait, JoinDetached,
      JoinEnded, JoinNoThread,
      JoinedAll, Free, DestroyMoves, DestroyUnchanged, queueVars, clientVars
<1>6. ASSUME NEW t \in Tids, SpuriousWakeup(t)
      PROVE  BlockedAdderMeansFull'
  BY <1>1, <1>6 DEF SpuriousWakeup, Moves, queueVars
<1>7. CASE UNCHANGED vars
  BY <1>1, <1>7 DEF vars, queueVars, clientVars
<1>. QED
  BY <1>2, <1>3, <1>4, <1>5, <1>6, <1>7 DEF Next

(* No client is left waiting on queue_not_full once the ring has room           *)
(* (threadpool.c:126-128, 200-201).                                             *)
THEOREM BlockedAdderCorrect == Spec => []BlockedAdderMeansFull
<1>1. Init => BlockedAdderMeansFull
  BY DEF Init, BlockedAdderMeansFull
<1>. QED
  BY <1>1, BlockedAdderStep, CountersCorrect, PTL DEF Spec

-----------------------------------------------------------------------------
(* Where the workers of any pool may be, given the ring and the shutdown flag.  *)

SleepersAreIdle ==
  /\ \A t \in Tids : wpc[t] \in {"exiting", "detached", "ended"} => shutdown
  /\ \A t \in Tids : wpc[t] = "towait" => queue_size = 0

(* The pool that has not grown. Its workers are the first min_thread_num ones,  *)
(* so pool->threads names every worker in its first min_thread_num slots and    *)
(* the others are empty; none retires, because adjust_thread asks for that only *)
(* when it has seen more than min_thread_num.                                   *)
FirstWorkersOnly ==
  /\ wait_exit_thread_num = 0 /\ live_thread_num = min_thread_num
  /\ apc # "signal"
  /\ apc \in {"snapped", "grow", "shrink"} => adj.live = min_thread_num
  /\ \A t \in Tids : wpc[t] # "retired"
  /\ \A i \in Slots : threads[i] \in Tids <=> i < min_thread_num
  /\ \A t \in LiveWorkers : \E i \in Slots : threads[i] = t

(* What threadpool_destroy has established in it. *)
JoinProgress ==
  /\ dpc \in {"join", "joining"} =>
       /\ di <= min_thread_num
       /\ \A i \in Slots : i < di => threads[i] \in Left
  /\ dpc \in {"free", "freed"} => \A i \in Slots : i < min_thread_num => threads[i] \in Left

UngrownInv == ~Grown => FirstWorkersOnly /\ JoinProgress /\ JoinsWorkersOnly

PoolInv == IInv /\ SleepersAreIdle /\ StrandedOnlyByRetiring /\ UngrownInv

Born == Tids \ Unborn

LEMMA InitPoolInv ==
  ASSUME Init
  PROVE  PoolInv /\ Cardinality(Born) = min_thread_num
<1>1. IInv
  BY InitIInv
<1>2. PICK start \in Injection(0..(min_thread_num - 1), Tids) :
        /\ threads = [i \in Slots |-> IF i < min_thread_num THEN start[i] ELSE NoTid]
        /\ wpc = [t \in Tids |-> IF t \in Range(start) THEN "lock" ELSE "unborn"]
  BY DEF Init
<1>3. start \in [0..(min_thread_num - 1) -> Tids]
  BY Fun_InjectionProperties
<1>4. \A i \in Slots : threads[i] = IF i < min_thread_num THEN start[i] ELSE NoTid
  BY <1>2
<1>5. LiveWorkers = Range(start) /\ Range(start) = {start[i] : i \in 0..(min_thread_num - 1)}
  BY <1>2, <1>3 DEF LiveWorkers, Range
<1>6. Born = LiveWorkers /\ Cardinality(LiveWorkers) = min_thread_num
  BY <1>1, <1>2 DEF Init, Born, Unborn, LiveWorkers, IInv, CountersExact
<1>7. FirstWorkersOnly
  <2>1. \A i \in Slots : threads[i] \in Tids <=> i < min_thread_num
    BY <1>3, <1>4, PoolAssumption DEF Slots
  <2>2. \A t \in LiveWorkers : \E i \in Slots : threads[i] = t
    BY <1>4, <1>5, PoolAssumption DEF Slots
  <2>. QED
    BY <1>2, <2>1, <2>2 DEF Init, FirstWorkersOnly
<1>8. SleepersAreIdle
  BY <1>2 DEF SleepersAreIdle
<1>. QED
  BY <1>1, <1>6, <1>7, <1>8
  DEF Init, PoolInv, UngrownInv, JoinProgress, StrandedOnlyByRetiring, NoStrandedTask, JoinsWorkersOnly

(* The growing loop starts unborn threads and leaves the others where they are. *)
LEMMA NewWorkersLock ==
  ASSUME AdjustGrow
  PROVE  \A t \in Tids : \/ wpc'[t] = wpc[t]
                         \/ wpc[t] = "unborn" /\ wpc'[t] = "lock"
<1>1. PICK S : \E new \in Injection(S, Unborn) :
        wpc' = [t \in Tids |-> IF t \in Range(new) THEN "lock" ELSE wpc[t]]
  BY DEF AdjustGrow
<1>. PICK new \in Injection(S, Unborn) :
        wpc' = [t \in Tids |-> IF t \in Range(new) THEN "lock" ELSE wpc[t]]
  BY <1>1
<1>2. new \in [S -> Unborn]
  BY Fun_InjectionProperties
<1>3. Range(new) \subseteq Unborn
  BY <1>2 DEF Range
<1>. QED
  BY <1>3 DEF Unborn

(* In any pool: a worker that was created stays so, one that has ended or left   *)
(* the pool stays so, and only the growing loop creates one.                     *)
LEMMA WorkersAge ==
  ASSUME TypeOK, [Next]_vars
  PROVE  /\ Born \subseteq Born' /\ Left \subseteq Left'
         /\ \A t \in Ended : wpc'[t] = wpc[t]
         /\ Born' = Born \/ AdjustGrow
         /\ shutdown => shutdown'
<1> DEFINE Rest == Left \subseteq Left' /\ \A t \in Ended : wpc'[t] = wpc[t]
<1>1. ASSUME wpc' = wpc
      PROVE  Born' = Born /\ Rest
  BY <1>1 DEF Born, Unborn, Left, Ended
<1>2. ASSUME NEW S \in SUBSET Waiting, Wake(S)
      PROVE  Born' = Born /\ Rest
  BY <1>2 DEF Wake, Waiting, Born, Unborn, Left, Ended
<1>3. ASSUME SignalNotEmpty
      PROVE  Born' = Born /\ Rest
  BY <1>1, <1>2, <1>3 DEF SignalNotEmpty
<1>4. ASSUME NEW t \in Tids, Worker(t) \/ SpuriousWakeup(t)
      PROVE  Born' = Born /\ Rest
  <2>1. \E a \in WorkerStates \ {"unborn", "ended", "retired"} :
        \E b \in WorkerStates \ {"unborn"} : Goes(t, a, b) /\ (a = "detached" => b = "ended")
    BY <1>4
    DEF Worker, Lock, DecideToWait, CondWait, SpuriousWakeup, Rewake, Retire, ExitOnShutdown, Detach, End,
        Take, StartTask, FinishTask, Moves, WorkerStates
  <2>. QED
    BY <2>1 DEF Goes, Born, Unborn, Left, Ended, TypeOK
<1>5. ASSUME NEW c \in Clients, Client(c)
      PROVE  Born' = Born /\ Rest
  BY <1>1, <1>2, <1>3, <1>5 DEF Client, AddCall, AddWait, AddRefused, AddTask, BroadcastNotEmpty
<1>6. ASSUME AdjustGrow
      PROVE  Born \subseteq Born' /\ Rest
  BY <1>6, NewWorkersLock DEF Born, Unborn, Left, Ended
<1>7. ASSUME Adjuster, ~AdjustGrow
      PROVE  Born' = Born /\ Rest
  BY <1>1, <1>3, <1>7
  DEF Adjuster, AdjustLoop, AdjustSnapshot, AdjustSnapshotBusy, AdjustKillsEnded, AdjustNoGrow,
      AdjustShrink,
      AdjustNoShrink, AdjustSignal, PoolUnchanged
<1>8. ASSUME Destroyer
      PROVE  Born' = Born /\ Rest
  BY <1>1, <1>3, <1>8
  DEF Destroyer, Destroy, JoinAdjust, DestroySignal, DestroySignalled, JoinStart, JoinWait, JoinDetached,
      JoinEnded, JoinNoThread,
      JoinedAll, Free, DestroyMoves
<1>9. ASSUME UNCHANGED vars
      PROVE  Born' = Born /\ Rest
  BY <1>1, <1>9 DEF vars, workerVars
<1>10. shutdown => shutdown'
  BY DEF Next, Worker, Client, Adjuster, Destroyer, Lock, DecideToWait, CondWait, SpuriousWakeup, Rewake,
         Retire, ExitOnShutdown, Detach, End, Take, StartTask, FinishTask, Moves, WorkerUnchanged, AddCall,
         AddWait, AddRefused, AddTask, AddUnchanged, AdjustLoop, AdjustSnapshot, AdjustSnapshotBusy,
         AdjustGrow, AdjustKillsEnded, AdjustNoGrow, AdjustShrink, AdjustNoShrink, AdjustSignal,
         AdjustUnchanged,
         Destroy, JoinAdjust, DestroySignal, DestroySignalled, JoinStart, JoinWait, JoinDetached,
         JoinEnded, JoinNoThread, JoinedAll,
         Free, DestroyMoves, DestroyUnchanged, vars, destroyVars
<1>. QED
  BY <1>4, <1>5, <1>6, <1>7, <1>8, <1>9, <1>10 DEF Next

(* So a pool that has grown stays one. *)
LEMMA UngrownBefore ==
  ASSUME TypeOK, [Next]_vars, ~Grown'
  PROVE  ~Grown
<1>1. Born \in SUBSET Tids /\ Born' \in SUBSET Tids
  BY DEF Born
<1>2. IsFiniteSet(Born') /\ Cardinality(Born') \in Nat /\ Cardinality(Born) \in Nat
  BY <1>1, TidSetFinite
<1>3. Cardinality(Born) <= Cardinality(Born')
  BY <1>2, WorkersAge, FS_Subset
<1>. QED
  BY <1>2, <1>3, PoolAssumption DEF Grown, Born

(* The steps adjust_thread never takes while the pool has not grown; the growing *)
(* loop fills at least the last slot, which is empty, and ends that.             *)
LEMMA UngrownAdjuster ==
  ASSUME IInv, FirstWorkersOnly
  PROVE  /\ ~AdjustShrink /\ ~AdjustSignal
         /\ AdjustGrow => Grown' /\ min_thread_num < max_thread_num
<1>1. ~AdjustShrink /\ ~AdjustSignal
  BY PoolAssumption
  DEF IInv, TypeOK, Snapshot, FirstWorkersOnly, AdjustShrink, WantsShrink, AdjustSignal
<1>2. ASSUME AdjustGrow
      PROVE  Grown' /\ min_thread_num < max_thread_num
  <2>1. min_thread_num < max_thread_num
    BY <1>2 DEF AdjustGrow, WantsGrow, FirstWorkersOnly
  <2>2. PICK gone \in SUBSET Ended : \E S \in SUBSET Reusable(gone) :
          /\ Filled(S, gone)
          /\ \E new \in Injection(S, Unborn) :
               wpc' = [t \in Tids |-> IF t \in Range(new) THEN "lock" ELSE wpc[t]]
    BY <1>2 DEF AdjustGrow
  <2>. PICK S \in SUBSET Reusable(gone) :
          /\ Filled(S, gone)
          /\ \E new \in Injection(S, Unborn) :
               wpc' = [t \in Tids |-> IF t \in Range(new) THEN "lock" ELSE wpc[t]]
    BY <2>2
  <2>. PICK new \in Injection(S, Unborn) :
               wpc' = [t \in Tids |-> IF t \in Range(new) THEN "lock" ELSE wpc[t]]
    OBVIOUS
  <2>3. S # {}
    <3>1. max_thread_num - 1 \in Slots /\ ~(max_thread_num - 1 < min_thread_num)
      BY <2>1, PoolAssumption DEF Slots
    <3>2. threads[max_thread_num - 1] \notin Tids
      BY <3>1 DEF FirstWorkersOnly
    <3>3. max_thread_num - 1 \in Reusable(gone)
      BY <3>1, <3>2 DEF Reusable, Ended
    <3>4. max_thread_num - live_thread_num # 0 /\ DEFAULT_THREAD_ADD_SIZE # 0
      BY <2>1, PoolAssumption DEF FirstWorkersOnly
    <3>5. \/ S = Reusable(gone)
          \/ Cardinality(S) # 0
      BY <3>4 DEF Filled
    <3>. QED
      BY <3>3, <3>5, FS_EmptySet
  <2>4. PICK i \in S : TRUE
    BY <2>3
  <2>5. new[i] \in Unborn /\ new[i] \in Range(new)
    BY <2>4, Fun_InjectionProperties, Fun_RangeProperties DEF Range
  <2>6. Born \union {new[i]} \subseteq Born'
    BY <1>2, <2>5, NewWorkersLock DEF Born, Unborn
  <2>7. Born = LiveWorkers
    BY DEF FirstWorkersOnly, Born, Unborn, LiveWorkers
  <2>8. Cardinality(Born) = min_thread_num
    BY <2>7 DEF IInv, CountersExact, FirstWorkersOnly
  <2>9. IsFiniteSet(Born) /\ IsFiniteSet(Born') /\ new[i] \notin Born /\ Cardinality(Born') \in Nat
    <3>1. Born \in SUBSET Tids /\ Born' \in SUBSET Tids
      BY DEF Born
    <3>. QED
      BY <2>5, <3>1, TidSetFinite DEF Born
  <2>10. Cardinality(Born \union {new[i]}) = min_thread_num + 1
    BY <2>8, <2>9, FS_AddElement
  <2>11. Cardinality(Born \union {new[i]}) <= Cardinality(Born')
    BY <2>6, <2>9, FS_Subset
  <2>12. Cardinality(Born') > min_thread_num
    BY <2>9, <2>10, <2>11, PoolAssumption
  <2>. QED
    BY <2>1, <2>12 DEF Grown, Born
<1>. QED
  BY <1>1, <1>2

(* What no step changes in a pool that has not grown. *)
LEMMA UngrownFrame ==
  ASSUME IInv, FirstWorkersOnly, [Next]_vars, ~AdjustGrow
  PROVE  /\ threads' = threads
         /\ live_thread_num' = live_thread_num
         /\ wait_exit_thread_num' = wait_exit_thread_num
<1>1. ASSUME NEW t \in Tids, Worker(t) \/ SpuriousWakeup(t)
      PROVE  UNCHANGED <<threads, live_thread_num, wait_exit_thread_num>>
  <2>1. ~Retire(t)
    BY DEF Retire, FirstWorkersOnly
  <2>2. WorkerUnchanged /\ UNCHANGED <<live_thread_num, wait_exit_thread_num>>
    BY <1>1, <2>1
    DEF Worker, Lock, DecideToWait, CondWait, SpuriousWakeup, Rewake, ExitOnShutdown, Detach, End, Take,
        StartTask, FinishTask, Moves, counterVars
  <2>. QED
    BY <2>2 DEF WorkerUnchanged
<1>2. ASSUME NEW c \in Clients, Client(c)
      PROVE  UNCHANGED <<threads, live_thread_num, wait_exit_thread_num>>
  BY <1>2 DEF Client, AddCall, AddWait, AddRefused, AddTask, AddUnchanged, counterVars
<1>3. ASSUME Adjuster
      PROVE  UNCHANGED <<threads, live_thread_num, wait_exit_thread_num>>
  BY <1>3, UngrownAdjuster
  DEF Adjuster, AdjustLoop, AdjustSnapshot, AdjustSnapshotBusy, AdjustKillsEnded, AdjustNoGrow,
      AdjustNoShrink, PoolUnchanged
<1>4. ASSUME Destroyer
      PROVE  UNCHANGED <<threads, live_thread_num, wait_exit_thread_num>>
  BY <1>4 DEF Destroyer, Destroy, JoinAdjust, DestroySignal, DestroySignalled, JoinStart, JoinWait,
              JoinDetached,
              JoinEnded, JoinNoThread, JoinedAll, Free, DestroyMoves, DestroyUnchanged, counterVars
<1>5. ASSUME UNCHANGED vars
      PROVE  UNCHANGED <<threads, live_thread_num, wait_exit_thread_num>>
  BY <1>5 DEF vars, counterVars
<1>. QED
  BY <1>1, <1>2, <1>3, <1>4, <1>5 DEF Next

LEMMA UngrownWorkers ==
  ASSUME IInv, FirstWorkersOnly, [Next]_vars, ~AdjustGrow
  PROVE  FirstWorkersOnly'
<1>. USE DEF IInv
<1>1. /\ threads' = threads /\ live_thread_num' = live_thread_num
      /\ wait_exit_thread_num' = wait_exit_thread_num
  BY UngrownFrame
<1>2. /\ apc' # "signal"
      /\ apc' \in {"snapped", "grow", "shrink"} => adj'.live = min_thread_num
  <2>1. CASE UNCHANGED adjustVars
    BY <2>1 DEF adjustVars, FirstWorkersOnly
  <2>2. CASE Adjuster
    BY <2>2, UngrownAdjuster
    DEF Adjuster, AdjustLoop, AdjustSnapshot, AdjustSnapshotBusy, AdjustKillsEnded, AdjustNoGrow,
        AdjustNoShrink,
        FirstWorkersOnly, TypeOK, Snapshot
  <2>. QED
    BY <2>1, <2>2
    DEF Next, Worker, Client, Destroyer, Lock, DecideToWait, CondWait, SpuriousWakeup, Rewake, Retire,
        ExitOnShutdown, Detach, End, Take, StartTask, FinishTask, Moves, WorkerUnchanged, AddCall, AddWait,
        AddRefused, AddTask, AddUnchanged, Destroy, JoinAdjust, DestroySignal, DestroySignalled,
        JoinStart, JoinWait, JoinDetached,
        JoinEnded, JoinNoThread, JoinedAll, Free, DestroyMoves, DestroyUnchanged, vars
<1>3. /\ LiveWorkers' = LiveWorkers
      /\ \A t \in Tids : wpc'[t] # "retired"
  <2>1. ASSUME NEW t \in Tids, Worker(t) \/ SpuriousWakeup(t)
        PROVE  \E a \in WorkerStates \ {"unborn", "retired"} :
               \E b \in WorkerStates \ {"unborn", "retired"} : Goes(t, a, b)
    BY <2>1
    DEF Worker, Lock, DecideToWait, CondWait, SpuriousWakeup, Rewake, Retire, ExitOnShutdown, Detach, End,
        Take, StartTask, FinishTask, Moves, WorkerStates, FirstWorkersOnly
  <2>2. ASSUME NEW t \in Tids, Worker(t) \/ SpuriousWakeup(t)
        PROVE  LiveWorkers' = LiveWorkers /\ \A u \in Tids : wpc'[u] # "retired"
    BY <2>1, <2>2 DEF Goes, LiveWorkers, TypeOK, FirstWorkersOnly
  <2>3. CASE wpc' = wpc
    BY <2>3 DEF LiveWorkers, FirstWorkersOnly
  <2>4. ASSUME NEW S \in SUBSET Waiting, Wake(S)
        PROVE  LiveWorkers' = LiveWorkers /\ \A u \in Tids : wpc'[u] # "retired"
    BY <2>4 DEF Wake, Waiting, LiveWorkers, FirstWorkersOnly
  <2>5. CASE SignalNotEmpty
    BY <2>3, <2>4, <2>5 DEF SignalNotEmpty
  <2>6. CASE Adjuster
    BY <2>3, <2>6, UngrownAdjuster
    DEF Adjuster, AdjustLoop, AdjustSnapshot, AdjustSnapshotBusy, AdjustKillsEnded, AdjustNoGrow,
        AdjustNoShrink,
        PoolUnchanged
  <2>7. CASE Destroyer
    BY <2>3, <2>5, <2>7 DEF Destroyer, Destroy, JoinAdjust, DestroySignal, DestroySignalled, JoinStart,
                            JoinWait, JoinDetached,
                            JoinEnded, JoinNoThread, JoinedAll, Free, DestroyMoves
  <2>8. ASSUME NEW c \in Clients, Client(c)
        PROVE  LiveWorkers' = LiveWorkers /\ \A u \in Tids : wpc'[u] # "retired"
    BY <2>3, <2>4, <2>5, <2>8 DEF Client, AddCall, AddWait, AddRefused, AddTask, BroadcastNotEmpty
  <2>9. CASE UNCHANGED vars
    BY <2>3, <2>9 DEF vars, workerVars
  <2>. QED
    BY <2>2, <2>6, <2>7, <2>8, <2>9 DEF Next
<1>. QED
  BY <1>1, <1>2, <1>3 DEF FirstWorkersOnly

(* In any pool: where workers sleep. A worker is woken for each task put into    *)
(* the ring while one waits; only one that retires takes that wakeup with it.    *)
LEMMA SleepersStep ==
  ASSUME IInv, SleepersAreIdle, StrandedOnlyByRetiring, [Next]_vars
  PROVE  SleepersAreIdle' /\ StrandedOnlyByRetiring'
<1>. USE DEF IInv
<1>0. /\ shutdown => shutdown'
      /\ (\A t \in Tids : wpc'[t] # "retired") => NoStrandedTask
  <2>1. \A t \in Tids : wpc[t] = "retired" => wpc'[t] = "retired"
    BY WorkersAge DEF Ended
  <2>. QED
    BY <2>1, WorkersAge DEF StrandedOnlyByRetiring
<1>1. ASSUME UNCHANGED <<wpc, queue_size>>
      PROVE  SleepersAreIdle' /\ StrandedOnlyByRetiring'
  BY <1>0, <1>1, PoolAssumption DEF SleepersAreIdle, StrandedOnlyByRetiring, NoStrandedTask, Awake
<1>2. ASSUME \A t \in Tids : \/ wpc'[t] = wpc[t]
                             \/ wpc[t] \in {"unborn", "waiting"} /\ wpc'[t] \in {"lock", "woken"},
             queue_size' = queue_size
      PROVE  SleepersAreIdle' /\ StrandedOnlyByRetiring'
  <2>1. SleepersAreIdle'
    BY <1>0, <1>2 DEF SleepersAreIdle
  <2>2. Awake \subseteq Awake'
    BY <1>2 DEF Awake
  <2>. QED
    BY <1>0, <1>2, <2>1, <2>2 DEF StrandedOnlyByRetiring, NoStrandedTask
<1>3. ASSUME SignalNotEmpty \/ BroadcastNotEmpty, queue_size' = queue_size
      PROVE  SleepersAreIdle' /\ StrandedOnlyByRetiring'
  <2>1. \A t \in Tids : \/ wpc'[t] = wpc[t]
                        \/ wpc[t] \in {"unborn", "waiting"} /\ wpc'[t] \in {"lock", "woken"}
    BY <1>3 DEF SignalNotEmpty, BroadcastNotEmpty, Wake, Waiting
  <2>. QED
    BY <1>2, <1>3, <2>1
<1>4. CASE UNCHANGED vars
  BY <1>1, <1>4 DEF vars, workerVars, queueVars
<1>5. CASE Adjuster
  <2>1. queue_size' = queue_size
    BY <1>5
    DEF Adjuster, AdjustLoop, AdjustSnapshot, AdjustSnapshotBusy, AdjustGrow, AdjustKillsEnded,
        AdjustNoGrow,
        AdjustShrink, AdjustNoShrink, AdjustSignal, AdjustUnchanged, queueVars
  <2>2. CASE AdjustGrow
    BY <1>2, <2>1, <2>2, NewWorkersLock
  <2>3. CASE AdjustSignal
    BY <1>3, <2>1, <2>3 DEF AdjustSignal
  <2>4. wpc' = wpc \/ AdjustGrow \/ AdjustSignal
    BY <1>5
    DEF Adjuster, AdjustLoop, AdjustSnapshot, AdjustSnapshotBusy, AdjustKillsEnded, AdjustNoGrow,
        AdjustShrink,
        AdjustNoShrink, PoolUnchanged
  <2>. QED
    BY <1>1, <2>1, <2>2, <2>3, <2>4
<1>6. CASE Destroyer
  <2>1. DestroyUnchanged /\ (wpc' = wpc \/ SignalNotEmpty)
    BY <1>6 DEF Destroyer, Destroy, JoinAdjust, DestroySignal, DestroySignalled, JoinStart, JoinWait,
                JoinDetached,
                JoinEnded, JoinNoThread, JoinedAll, Free, DestroyMoves
  <2>. QED
    BY <1>1, <1>3, <2>1 DEF DestroyUnchanged, queueVars
<1>7. ASSUME NEW c \in Clients, AddCall(c) \/ AddWait(c) \/ AddRefused(c)
      PROVE  SleepersAreIdle' /\ StrandedOnlyByRetiring'
  BY <1>1, <1>3, <1>7 DEF AddCall, AddWait, AddRefused, queueVars
<1>8. ASSUME NEW c \in Clients, AddTask(c)
      PROVE  SleepersAreIdle' /\ StrandedOnlyByRetiring'
  <2>1. shutdown' = shutdown /\ ~shutdown /\ MutexFree
    BY <1>8 DEF AddTask, AddUnchanged, destroyVars
  <2>2. \A t \in Tids : wpc'[t] \notin {"towait", "exiting", "detached", "ended"}
    <3>1. \A t \in Tids : wpc[t] \notin {"towait", "exiting", "detached", "ended"}
      BY <2>1 DEF MutexFree, SleepersAreIdle
    <3>. QED
      BY <1>8, <3>1 DEF AddTask, SignalNotEmpty, Wake
  <2>3. Awake' # {}
    <3>1. CASE Waiting = {}
      <4>1. PICK t \in LiveWorkers : TRUE
        <5>1. Cardinality(LiveWorkers) # 0
          BY PoolAssumption DEF CountersExact
        <5>. QED
          BY <5>1, FS_EmptySet
      <4>2. wpc' = wpc
        BY <1>8, <3>1 DEF AddTask, SignalNotEmpty
      <4>3. wpc[t] \in WorkerStates \ {"unborn", "retired", "waiting"}
        BY <3>1, <4>1 DEF LiveWorkers, Waiting, TypeOK
      <4>. QED
        BY <2>2, <4>1, <4>2, <4>3 DEF WorkerStates, Awake, LiveWorkers
    <3>2. CASE Waiting # {}
      BY <1>8, <3>2 DEF AddTask, SignalNotEmpty, Wake, Waiting, Awake
    <3>. QED
      BY <3>1, <3>2
  <2>. QED
    BY <2>2, <2>3 DEF SleepersAreIdle, StrandedOnlyByRetiring, NoStrandedTask
<1>9. ASSUME NEW t \in Tids, Worker(t) \/ SpuriousWakeup(t)
      PROVE  SleepersAreIdle' /\ StrandedOnlyByRetiring'
  <2>2. shutdown' = shutdown
    BY <1>9
    DEF Worker, Lock, DecideToWait, CondWait, SpuriousWakeup, Rewake, Retire, ExitOnShutdown, Detach, End,
        Take, StartTask, FinishTask, Moves, WorkerUnchanged, destroyVars
  <2>3. CASE DecideToWait(t)
    BY <2>2, <2>3
    DEF DecideToWait, Moves, Goes, SleepersAreIdle, StrandedOnlyByRetiring, NoStrandedTask, TypeOK,
        queueVars
  <2>4. CASE CondWait(t) \/ Detach(t) \/ End(t)
    <3>1. SleepersAreIdle'
      BY <2>2, <2>4 DEF CondWait, Detach, End, Moves, Goes, SleepersAreIdle, TypeOK, queueVars
    <3>2. Awake' = Awake /\ queue_size' = queue_size
      BY <2>4 DEF CondWait, Detach, End, Moves, Goes, Awake, TypeOK, queueVars
    <3>. QED
      BY <1>0, <2>2, <3>1, <3>2 DEF StrandedOnlyByRetiring, NoStrandedTask
  <2>5. CASE ExitOnShutdown(t)
    BY <2>2, <2>5
    DEF ExitOnShutdown, Moves, Goes, SleepersAreIdle, StrandedOnlyByRetiring, NoStrandedTask, TypeOK,
        queueVars
  <2>6. ASSUME t \in Awake',
               \A u \in Tids : u # t => wpc'[u] = wpc[u],
               wpc'[t] \notin {"exiting", "detached", "ended", "towait"},
               queue_size' = queue_size \/ \A u \in Tids : wpc[u] # "towait"
        PROVE  SleepersAreIdle' /\ StrandedOnlyByRetiring'
    BY <2>2, <2>6 DEF SleepersAreIdle, StrandedOnlyByRetiring, NoStrandedTask
  <2>7. CASE Lock(t) \/ SpuriousWakeup(t) \/ Rewake(t) \/ StartTask(t) \/ FinishTask(t)
    <3>1. /\ queue_size' = queue_size /\ t \in Awake'
          /\ \A u \in Tids : u # t => wpc'[u] = wpc[u]
          /\ wpc'[t] \notin {"exiting", "detached", "ended", "towait"}
      BY <2>7
      DEF Lock, SpuriousWakeup, Rewake, StartTask, FinishTask, Moves, Goes, Awake, TypeOK, queueVars
    <3>. QED
      BY <2>6, <3>1
  <2>8. CASE Take(t)
    <3>1. /\ t \in Awake'
          /\ \A u \in Tids : u # t => wpc'[u] = wpc[u]
          /\ wpc'[t] \notin {"exiting", "detached", "ended", "towait"}
      BY <2>8 DEF Take, Goes, Awake, TypeOK
    <3>2. \A u \in Tids : wpc[u] # "towait"
      BY <2>8 DEF Take, SleepersAreIdle
    <3>. QED
      BY <2>6, <3>1, <3>2
  <2>9. CASE Retire(t)
    <3>1. /\ queue_size' = queue_size
          /\ wpc' = [wpc EXCEPT ![t] = "retired"] \/ wpc' = [wpc EXCEPT ![t] = "check"]
      BY <2>9 DEF Retire, Goes, queueVars
    <3>2. CASE wpc' = [wpc EXCEPT ![t] = "retired"]
      <4>1. wpc'[t] = "retired" /\ \A u \in Tids : u # t => wpc'[u] = wpc[u]
        BY <3>2 DEF TypeOK
      <4>. QED
        BY <2>2, <3>1, <4>1 DEF SleepersAreIdle, StrandedOnlyByRetiring
    <3>3. CASE wpc' = [wpc EXCEPT ![t] = "check"]
      <4>1. /\ t \in Awake' /\ wpc'[t] = "check"
            /\ \A u \in Tids : u # t => wpc'[u] = wpc[u]
        BY <3>3 DEF TypeOK, Awake
      <4>. QED
        BY <2>6, <3>1, <4>1
    <3>. QED
      BY <3>1, <3>2, <3>3
  <2>. QED
    BY <1>9, <2>3, <2>4, <2>5, <2>7, <2>8, <2>9 DEF Worker
<1>. QED
  BY <1>4, <1>5, <1>6, <1>7, <1>8, <1>9 DEF Next, Client

LEMMA UngrownJoins ==
  ASSUME IInv, FirstWorkersOnly, JoinProgress, JoinsWorkersOnly, [Next]_vars, ~AdjustGrow
  PROVE  JoinProgress' /\ JoinsWorkersOnly'
<1>. USE DEF IInv
<1>1. /\ threads' = threads /\ Left \subseteq Left' /\ live_thread_num = min_thread_num
      /\ \A t \in Ended : wpc'[t] = wpc[t]
      /\ \A i \in Slots : threads[i] \in Tids <=> i < min_thread_num
  BY UngrownFrame, WorkersAge DEF FirstWorkersOnly
<1>2. CASE UNCHANGED <<dpc, di>>
  BY <1>1, <1>2 DEF JoinProgress, JoinsWorkersOnly, Ended
<1>3. CASE Destroyer
  <2>1. CASE Destroy \/ JoinAdjust \/ DestroySignal
    BY <2>1 DEF Destroy, JoinAdjust, DestroySignal, DestroyMoves, JoinProgress, JoinsWorkersOnly
  <2>2. CASE DestroySignalled
    BY <2>2, PoolAssumption
    DEF DestroySignalled, DestroyMoves, JoinProgress, JoinsWorkersOnly, Slots
  <2>3. CASE di' = di + 1 /\ dpc' = "join" /\ dpc \in {"join", "joining"}
             /\ di \in Slots /\ threads[di] \in Tids /\ threads[di] \in Left
    <3>1. di' <= min_thread_num
      BY <1>1, <2>3, PoolAssumption DEF Slots
    <3>2. \A i \in Slots : i < di' => threads[i] \in Left
      BY <2>3, PoolAssumption DEF Slots, JoinProgress
    <3>. QED
      BY <1>1, <2>3, <3>1, <3>2 DEF JoinProgress, JoinsWorkersOnly
  <2>7. CASE JoinStart
    BY <1>1, <2>7 DEF JoinStart, DestroyMoves, JoinProgress, JoinsWorkersOnly
  <2>8. CASE JoinWait
    BY <2>3, <2>8 DEF JoinWait, DestroyMoves, JoinsWorkersOnly, Ended, Left
  <2>9. CASE JoinDetached
    BY <2>3, <2>9 DEF JoinDetached, DestroyMoves, Left
  <2>10. CASE JoinEnded
    <3>1. CASE DestroyMoves("join", "crashed") /\ di' = di
      BY <1>1, <2>10, <3>1 DEF JoinEnded, DestroyMoves, JoinProgress, JoinsWorkersOnly
    <3>. QED
      BY <2>3, <2>10, <3>1 DEF JoinEnded, DestroyMoves, Left
  <2>4. ~JoinNoThread
    BY <1>1, PoolAssumption DEF JoinNoThread, MoreRounds, DestroyMoves, JoinProgress, Slots, TypeOK
  <2>5. CASE JoinedAll
    <3>1. \A i \in Slots : i < min_thread_num => threads[i] \in Left
      BY <1>1, <2>5, PoolAssumption DEF JoinedAll, MoreRounds, DestroyMoves, JoinProgress, Slots
    <3>. QED
      BY <1>1, <2>5, <3>1 DEF JoinedAll, DestroyMoves, JoinProgress, JoinsWorkersOnly
  <2>6. CASE Free
    BY <1>1, <2>6 DEF Free, DestroyMoves, JoinProgress, JoinsWorkersOnly
  <2>. QED
    BY <1>3, <2>1, <2>2, <2>4, <2>5, <2>6, <2>7, <2>8, <2>9, <2>10 DEF Destroyer
<1>. QED
  BY <1>2, <1>3
  DEF Next, Worker, Client, Adjuster, Lock, DecideToWait, CondWait, SpuriousWakeup, Rewake, Retire,
      ExitOnShutdown, Detach, End, Take, StartTask, FinishTask, Moves, WorkerUnchanged, AddCall, AddWait,
      AddRefused, AddTask, AddUnchanged, AdjustLoop, AdjustSnapshot, AdjustSnapshotBusy,
      AdjustKillsEnded, AdjustNoGrow,
      AdjustShrink, AdjustNoShrink, AdjustSignal, AdjustUnchanged, vars, destroyVars

-----------------------------------------------------------------------------
(* The theorems about any pool.                                                *)

LEMMA PoolStep ==
  ASSUME PoolInv, [Next]_vars
  PROVE  PoolInv'
<1>1. IInv'
  BY WorkerIInv, ClientIInv, AdjusterIInv, DestroyerIInv, StutterIInv DEF Next, PoolInv
<1>2. SleepersAreIdle' /\ StrandedOnlyByRetiring'
  BY SleepersStep DEF PoolInv
<1>3. ASSUME ~Grown'
      PROVE  FirstWorkersOnly' /\ JoinProgress' /\ JoinsWorkersOnly'
  <2>1. IInv /\ FirstWorkersOnly /\ JoinProgress /\ JoinsWorkersOnly
    BY <1>3, UngrownBefore DEF PoolInv, UngrownInv, IInv
  <2>2. ~AdjustGrow
    BY <1>3, <2>1, UngrownAdjuster
  <2>. QED
    BY <2>1, <2>2, UngrownWorkers, UngrownJoins
<1>. QED
  BY <1>1, <1>2, <1>3 DEF PoolInv, UngrownInv

LEMMA PoolInvariant == Spec => []PoolInv
<1>1. Init => PoolInv
  BY InitPoolInv
<1>2. PoolInv /\ [Next]_vars => PoolInv'
  BY PoolStep
<1>. QED
  BY <1>1, <1>2, PTL DEF Spec

(* However a pool grows, tasks in the ring never face sleeping workers only     *)
(* until some worker has retired (threadpool.c:150-151, 166-182).               *)
THEOREM RetiringAloneStrands == Spec => []StrandedOnlyByRetiring
<1>1. PoolInv => StrandedOnlyByRetiring
  BY DEF PoolInv
<1>. QED
  BY <1>1, PoolInvariant, PTL

LEMMA UngrownOrder ==
  ASSUME PoolInv, ~Grown
  PROVE  TidRecorded /\ JoinsWorkersOnly /\ FreeIsQuiescent
<1>1. FirstWorkersOnly /\ JoinProgress /\ JoinsWorkersOnly
  BY DEF PoolInv, UngrownInv
<1>2. TidRecorded
  BY <1>1 DEF TidRecorded, FirstWorkersOnly
<1>3. FreeIsQuiescent
  <2>1. ASSUME dpc = "freed", NEW t \in Tids, wpc[t] # "unborn"
        PROVE  wpc[t] \in {"exiting", "detached", "ended", "retired"}
    <3>1. t \in LiveWorkers
      BY <1>1, <2>1 DEF LiveWorkers, FirstWorkersOnly
    <3>2. PICK i \in Slots : threads[i] = t
      BY <1>1, <3>1 DEF FirstWorkersOnly
    <3>3. t \in Left
      BY <1>1, <2>1, <3>2 DEF FirstWorkersOnly, JoinProgress
    <3>. QED
      BY <3>3 DEF Left
  <2>. QED
    BY <2>1 DEF FreeIsQuiescent
<1>. QED
  BY <1>1, <1>2, <1>3

(* A pool that may grow and has not is destroyed in order: every worker is      *)
(* known by its slot, only ids of workers are joined, and the pool is freed     *)
(* after they have left it (threadpool.c:248-255, 300-303).                     *)
THEOREM GrowingAloneBreaksDestroy == Spec => []UngrownEndsInOrder
<1>1. PoolInv => UngrownEndsInOrder
  BY UngrownOrder DEF UngrownEndsInOrder
<1>. QED
  BY <1>1, PoolInvariant, PTL

-----------------------------------------------------------------------------
(* The pool of fixed size never grows.                                         *)

LEMMA FixedInvariant ==
  ASSUME min_thread_num = max_thread_num
  PROVE  Spec => [](PoolInv /\ ~Grown)
<1>1. Init => PoolInv /\ ~Grown
  BY InitPoolInv, PoolAssumption DEF Grown, Born
<1>2. PoolInv /\ ~Grown /\ [Next]_vars => PoolInv' /\ ~Grown'
  <2> SUFFICES ASSUME PoolInv, ~Grown, [Next]_vars PROVE PoolInv' /\ ~Grown'
    OBVIOUS
  <2>1. IInv /\ FirstWorkersOnly
    BY DEF PoolInv, UngrownInv
  <2>2. ~AdjustGrow
    BY <2>1, UngrownAdjuster, PoolAssumption
  <2>3. Born' = Born
    BY <2>1, <2>2, WorkersAge DEF IInv
  <2>. QED
    BY <2>3, PoolStep DEF Grown, Born
<1>. QED
  BY <1>1, <1>2, PTL DEF Spec

(* In a pool of fixed size tasks in the ring never face sleeping workers only   *)
(* (threadpool.c:150-151, 166-168): each signal of threadpool_add finds its     *)
(* worker, because no worker spends it on retiring.                             *)
THEOREM FixedPoolServes ==
  ASSUME min_thread_num = max_thread_num
  PROVE  Spec => []NoStrandedTask
<1>1. PoolInv /\ ~Grown => NoStrandedTask
  BY DEF PoolInv, UngrownInv, FirstWorkersOnly, StrandedOnlyByRetiring
<1>. QED
  BY <1>1, FixedInvariant, PTL

(* In a pool of fixed size threadpool_destroy frees the pool after every worker  *)
(* has left it (threadpool.c:300-303).                                           *)
THEOREM FixedPoolFreedLast ==
  ASSUME min_thread_num = max_thread_num
  PROVE  Spec => []FreeIsQuiescent
<1>1. PoolInv /\ ~Grown => FreeIsQuiescent
  BY UngrownOrder
<1>. QED
  BY <1>1, FixedInvariant, PTL

(* In a pool of fixed size threadpool_destroy joins workers only, never an empty  *)
(* slot or one behind the array: its bound live_thread_num, read anew in every    *)
(* round, does not change under it. What is left undefined is the join of a       *)
(* worker that detached itself and ended first (threadpool.c:189-190, 300-302).   *)
THEOREM FixedPoolJoins ==
  ASSUME min_thread_num = max_thread_num
  PROVE  Spec => []JoinsWorkersOnly
<1>1. PoolInv /\ ~Grown => JoinsWorkersOnly
  BY UngrownOrder
<1>. QED
  BY <1>1, FixedInvariant, PTL
=============================================================================
