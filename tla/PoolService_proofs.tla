------------------------- MODULE PoolService_proofs -------------------------
(***************************************************************************)
(* Theorem about ThreadPool: ring and workers implement TaskService, a     *)
(* bounded first-in first-out service, for every size of pool and ring and *)
(* any tasks and clients.                                                  *)
(***************************************************************************)
EXTENDS ThreadPool_proofs, SequenceTheorems

(* The n-th task in the ring, the clients inside threadpool_add, the workers    *)
(* that hold a task.                                                            *)
Cell(n) == task_queue[(queue_front + n) % queue_max_size]
Places  == 0..(queue_size - 1)
Calling == {c \in Clients : cpc[c] # "idle"}
Holding == {t \in Tids : wpc[t] \in {"start", "run"}}

RearFollows == queue_rear = (queue_front + queue_size) % queue_max_size

(* Every task that was offered is in one place at most: with the client that     *)
(* adds it, in one slot, with one worker, or done.                               *)
Offered ==
  /\ \A c \in Calling : ctask[c] \in offered \ done
  /\ \A n \in Places : Cell(n) \in offered \ done
  /\ \A t \in Holding : wtask[t] \in offered \ done
  /\ done \subseteq offered

Once ==
  /\ \A c, d \in Calling : ctask[c] = ctask[d] => c = d
  /\ \A m, n \in Places : Cell(m) = Cell(n) => m = n
  /\ \A t, u \in Holding : wtask[t] = wtask[u] => t = u

Apart ==
  /\ \A c \in Calling, n \in Places : ctask[c] # Cell(n)
  /\ \A c \in Calling, t \in Holding : ctask[c] # wtask[t]
  /\ \A n \in Places, t \in Holding : Cell(n) # wtask[t]

OnePlace == Offered /\ Once /\ Apart

ServiceInv == IInv /\ RearFollows /\ OnePlace

-----------------------------------------------------------------------------
(* Indices of the ring.                                                      *)

LEMMA ModSmall ==
  ASSUME NEW M \in Nat \ {0}, NEW x \in 0..(M - 1)
  PROVE  x % M = x
OBVIOUS

LEMMA ModWrap ==
  ASSUME NEW M \in Nat \ {0}, NEW x \in M..(2 * M - 1)
  PROVE  x % M = x - M
OBVIOUS

(* An index behind the front, by up to the size of the ring. *)
LEMMA RingIndex ==
  ASSUME NEW M \in Nat \ {0}, NEW f \in 0..(M - 1), NEW n \in 0..M
  PROVE  (f + n) % M = IF f + n < M THEN f + n ELSE f + n - M
<1>1. CASE f + n < M
  BY <1>1, ModSmall
<1>2. CASE ~(f + n < M)
  <2>1. f + n \in M..(2 * M - 1)
    BY <1>2
  <2>. QED
    BY <1>2, <2>1, ModWrap
<1>. QED
  BY <1>1, <1>2

LEMMA RingFacts ==
  ASSUME TypeOK
  PROVE  /\ \A n \in 0..queue_max_size :
              (queue_front + n) % queue_max_size
                = IF queue_front + n < queue_max_size THEN queue_front + n
                                                      ELSE queue_front + n - queue_max_size
         /\ \A n \in 0..queue_max_size : (queue_front + n) % queue_max_size \in RingSlots
         /\ \A m, n \in 0..(queue_max_size - 1) :
              (queue_front + m) % queue_max_size = (queue_front + n) % queue_max_size => m = n
<1>1. queue_max_size \in Nat \ {0} /\ queue_front \in 0..(queue_max_size - 1)
  BY PoolAssumption DEF TypeOK, RingSlots
<1>2. \A n \in 0..queue_max_size :
        (queue_front + n) % queue_max_size
          = IF queue_front + n < queue_max_size THEN queue_front + n
                                                ELSE queue_front + n - queue_max_size
  BY <1>1, RingIndex
<1>. QED
  BY <1>1, <1>2 DEF RingSlots

(* After a step that moves the front by one. *)
LEMMA NextIndex ==
  ASSUME TypeOK, NEW n \in 0..(queue_max_size - 1)
  PROVE  (((queue_front + 1) % queue_max_size) + n) % queue_max_size
           = (queue_front + (n + 1)) % queue_max_size
<1>1. queue_max_size \in Nat \ {0} /\ queue_front \in 0..(queue_max_size - 1)
  BY PoolAssumption DEF TypeOK, RingSlots
<1>2. (queue_front + 1) % queue_max_size
        = IF queue_front + 1 < queue_max_size THEN queue_front + 1
                                              ELSE queue_front + 1 - queue_max_size
  <2>1. 1 \in 0..queue_max_size
    BY <1>1
  <2>. QED
    BY <2>1, RingFacts
<1>3. (queue_front + 1) % queue_max_size \in 0..(queue_max_size - 1)
  BY <1>1, <1>2
<1>4. (((queue_front + 1) % queue_max_size) + n) % queue_max_size
        = IF ((queue_front + 1) % queue_max_size) + n < queue_max_size
          THEN ((queue_front + 1) % queue_max_size) + n
          ELSE ((queue_front + 1) % queue_max_size) + n - queue_max_size
  <2>. DEFINE g == (queue_front + 1) % queue_max_size
  <2>1. g \in 0..(queue_max_size - 1) /\ n \in 0..queue_max_size
    BY <1>1, <1>3
  <2>. HIDE DEF g
  <2>2. (g + n) % queue_max_size = IF g + n < queue_max_size THEN g + n ELSE g + n - queue_max_size
    BY <1>1, <2>1, RingIndex
  <2>. QED
    BY <2>2 DEF g
<1>5. (queue_front + (n + 1)) % queue_max_size
        = IF queue_front + (n + 1) < queue_max_size THEN queue_front + (n + 1)
                                                    ELSE queue_front + (n + 1) - queue_max_size
  <2>1. n + 1 \in 0..queue_max_size
    BY <1>1
  <2>. QED
    BY <2>1, RingFacts
<1>. QED
  BY <1>1, <1>2, <1>4, <1>5

-----------------------------------------------------------------------------
(* What TaskService sees of a state.                                         *)

LEMMA PendingCells ==
  /\ TypeOK => Pending = [n \in 1..queue_size |-> Cell(n - 1)]
  /\ TypeOK' => Pending' = [n \in 1..queue_size' |-> Cell(n - 1)']
<1>1. ASSUME TypeOK PROVE Pending = [n \in 1..queue_size |-> Cell(n - 1)]
  <2>1. \A n \in 1..queue_size : queue_front + n - 1 = queue_front + (n - 1)
    BY <1>1, PoolAssumption DEF TypeOK, RingSlots
  <2>. QED
    BY <2>1 DEF Pending, Cell
<1>2. ASSUME TypeOK' PROVE Pending' = [n \in 1..queue_size' |-> Cell(n - 1)']
  <2>1. \A n \in 1..queue_size' : queue_front' + n - 1 = queue_front' + (n - 1)
    BY <1>2, PoolAssumption DEF TypeOK, RingSlots
  <2>. QED
    BY <2>1 DEF Pending, Cell
<1>. QED
  BY <1>1, <1>2

LEMMA PendingFacts ==
  ASSUME ServiceInv
  PROVE  /\ Pending = [n \in 1..queue_size |-> Cell(n - 1)]
         /\ queue_size \in Nat
         /\ Pending \in Seq(Tasks) /\ Len(Pending) = queue_size
         /\ Service!Queued = {Cell(n) : n \in Places}
<1>1. queue_size \in Nat
  BY PoolAssumption DEF ServiceInv, IInv, TypeOK
<1>2. Pending = [n \in 1..queue_size |-> Cell(n - 1)]
  BY PendingCells DEF ServiceInv, IInv
<1>3. Pending \in [1..queue_size -> Tasks]
  <2>1. \A n \in 1..queue_size : n - 1 \in Places
    BY <1>1 DEF Places
  <2>2. offered \subseteq Tasks
    BY DEF ServiceInv, IInv, TypeOK
  <2>. QED
    BY <1>2, <2>1, <2>2 DEF ServiceInv, OnePlace, Offered
<1>4. Pending \in Seq(Tasks) /\ Len(Pending) = queue_size
  BY <1>1, <1>3
<1>5. Service!Queued = {Cell(n) : n \in Places}
  <2>1. Service!Queued = {Pending[n] : n \in 1..queue_size}
    BY <1>3 DEF Service!Queued
  <2>2. \A n \in 1..queue_size : n - 1 \in Places /\ Pending[n] = Cell(n - 1)
    BY <1>1, <1>2 DEF Places
  <2>3. \A n \in Places : n + 1 \in 1..queue_size /\ Pending[n + 1] = Cell(n)
    BY <1>1, <1>2 DEF Places
  <2>. QED
    BY <2>1, <2>2, <2>3
<1>. QED
  BY <1>1, <1>2, <1>4, <1>5

(* A step that moves no task. *)
LEMMA QuietStep ==
  ASSUME ServiceInv, IInv', UNCHANGED <<queueVars, ctask, wtask, offered, done>>,
         Calling' \subseteq Calling, Holding' = Holding
  PROVE  ServiceInv' /\ UNCHANGED Service!vars
<1>1. Places' = Places /\ \A n : Cell(n)' = Cell(n)
  BY DEF Places, Cell, queueVars
<1>2. RearFollows'
  BY DEF ServiceInv, RearFollows, queueVars
<1>3. OnePlace'
  <2>1. Offered'
    BY <1>1 DEF ServiceInv, OnePlace, Offered
  <2>2. Once'
    BY <1>1 DEF ServiceInv, OnePlace, Once
  <2>3. Apart'
    BY <1>1 DEF ServiceInv, OnePlace, Apart
  <2>. QED
    BY <2>1, <2>2, <2>3 DEF OnePlace
<1>4. Pending' = Pending
  BY DEF Pending, queueVars
<1>5. Running' = Running
  BY DEF Running, Holding
<1>. QED
  BY <1>2, <1>3, <1>4, <1>5 DEF ServiceInv, Service!vars

(* Moves of workers that keep what they hold. *)
LEMMA HoldingKept ==
  ASSUME TypeOK
  PROVE  /\ \A S \in SUBSET Waiting : Wake(S) => Holding' = Holding
         /\ SignalNotEmpty => Holding' = Holding
         /\ \A t \in Tids, a, b \in WorkerStates :
              Goes(t, a, b) /\ (a \in {"start", "run"} <=> b \in {"start", "run"})
                => Holding' = Holding
<1>1. \A S \in SUBSET Waiting : Wake(S) => Holding' = Holding
  BY DEF Wake, Waiting, Holding
<1>2. SignalNotEmpty => Holding' = Holding
  BY <1>1 DEF SignalNotEmpty, Holding
<1>3. ASSUME NEW t \in Tids, NEW a \in WorkerStates, NEW b \in WorkerStates, Goes(t, a, b),
             a \in {"start", "run"} <=> b \in {"start", "run"}
      PROVE  Holding' = Holding
  BY <1>3 DEF Goes, Holding, TypeOK
<1>. QED
  BY <1>1, <1>2, <1>3

-----------------------------------------------------------------------------
(* The steps of a worker: it takes the oldest task, and finishes the one it has. *)

LEMMA TakeStep ==
  ASSUME ServiceInv, IInv', NEW t \in Tids, Take(t)
  PROVE  ServiceInv' /\ Service!Start
<1>1. /\ queue_size \in Nat \ {0} /\ queue_size <= queue_max_size /\ TypeOK
      /\ queue_max_size \in Nat \ {0} /\ queue_front \in RingSlots
  BY PoolAssumption DEF Take, ServiceInv, IInv, TypeOK
<1>2. \A n \in 0..(queue_max_size - 1) : Cell(n)' = Cell(n + 1)
  BY <1>1, NextIndex DEF Take, Cell
<1>3. /\ queue_size' = queue_size - 1 /\ 0 \in Places /\ Places' \subseteq Places
      /\ \A n \in Places' : n \in 0..(queue_max_size - 1) /\ n + 1 \in Places
  BY <1>1 DEF Take, Places
<1>4. Cell(0) = task_queue[queue_front]
  BY <1>1, ModSmall DEF Cell, RingSlots
<1>5. /\ wpc[t] = "check" /\ Holding' = Holding \union {t} /\ t \notin Holding
      /\ wtask' = [wtask EXCEPT ![t] = Cell(0)]
      /\ UNCHANGED <<ctask, offered, done>>
  BY <1>1, <1>4 DEF Take, Goes, Holding, WorkerUnchanged, TypeOK
<1>6. Calling' = Calling
  BY <1>1 DEF Take, BroadcastNotFull, Calling, TypeOK
<1>7. wtask'[t] = Cell(0) /\ \A u \in Holding : u # t /\ wtask'[u] = wtask[u]
  BY <1>1, <1>5 DEF TypeOK, Holding
<1>8. RearFollows'
  <2>1. queue_size - 1 \in 0..(queue_max_size - 1)
    BY <1>1
  <2>2. (((queue_front + 1) % queue_max_size) + (queue_size - 1)) % queue_max_size
          = (queue_front + ((queue_size - 1) + 1)) % queue_max_size
    BY <1>1, <2>1, NextIndex
  <2>3. (queue_size - 1) + 1 = queue_size
    BY <1>1
  <2>. QED
    BY <2>2, <2>3 DEF Take, ServiceInv, RearFollows
<1>9. OnePlace'
  <2>. USE DEF ServiceInv, OnePlace
  <2>1. \A n \in Places' : Cell(n)' = Cell(n + 1) /\ n + 1 \in Places
    BY <1>2, <1>3
  <2>2. \A n \in Places' : n + 1 # 0 /\ n \in Nat
    BY <1>3
  <2>3. Offered'
    BY <1>3, <1>5, <1>6, <1>7, <2>1 DEF Offered
  <2>4. Once'
    <3>1. \A m, n \in Places' : Cell(m)' = Cell(n)' => m = n
      <4>1. \A m, n \in Places' : Cell(m)' = Cell(n)' => m + 1 = n + 1
        BY <2>1 DEF Once
      <4>. QED
        BY <2>2, <4>1
    <3>2. \A u \in Holding : wtask[u] # Cell(0)
      BY <1>3 DEF Apart
    <3>3. \A u, v \in Holding' : wtask'[u] = wtask'[v] => u = v
      BY <1>5, <1>7, <3>2 DEF Once
    <3>4. \A c, d \in Calling' : ctask'[c] = ctask'[d] => c = d
      BY <1>5, <1>6 DEF Once
    <3>. QED
      BY <3>1, <3>3, <3>4 DEF Once
  <2>5. Apart'
    <3>1. \A c \in Calling', n \in Places' : ctask'[c] # Cell(n)'
      BY <1>5, <1>6, <2>1 DEF Apart
    <3>2. \A c \in Calling', u \in Holding' : ctask'[c] # wtask'[u]
      BY <1>3, <1>5, <1>6, <1>7 DEF Apart
    <3>3. \A n \in Places' : Cell(n + 1) # Cell(0)
      BY <1>3, <2>1, <2>2 DEF Once
    <3>4. \A n \in Places', u \in Holding' : Cell(n)' # wtask'[u]
      BY <1>5, <1>7, <2>1, <3>3 DEF Apart
    <3>. QED
      BY <3>1, <3>2, <3>4 DEF Apart
  <2>. QED
    BY <2>3, <2>4, <2>5
<1>10. ServiceInv'
  BY <1>8, <1>9 DEF ServiceInv
<1>11. Running' = Running \union {Cell(0)}
  <2>1. Running' = {wtask'[u] : u \in Holding'}
    BY DEF Running, Holding
  <2>2. Running = {wtask[u] : u \in Holding}
    BY DEF Running, Holding
  <2>. QED
    BY <1>5, <1>7, <2>1, <2>2
<1>12. /\ Pending # <<>> /\ Head(Pending) = Cell(0) /\ Pending' = Tail(Pending)
  <2>1. /\ Pending = [n \in 1..queue_size |-> Cell(n - 1)]
        /\ Pending \in Seq(Tasks) /\ Len(Pending) = queue_size
    BY PendingFacts
  <2>2. Pending # <<>> /\ Pending[1] = Cell(0)
    BY <1>1, <2>1
  <2>3. Head(Pending) = Cell(0)
    BY <2>1, <2>2
  <2>4. /\ Pending' \in Seq(Tasks) /\ Len(Pending') = queue_size - 1
        /\ \A n \in 1..(queue_size - 1) : Pending'[n] = Cell(n - 1)'
    <3>1. Pending' = [n \in 1..(queue_size - 1) |-> Cell(n - 1)']
      BY <1>3, PendingCells DEF IInv
    <3>2. \A n \in 1..(queue_size - 1) : Cell(n - 1)' \in Tasks
      <4>1. \A n \in 1..(queue_size - 1) : n - 1 \in Places'
        BY <1>1, <1>3 DEF Places
      <4>2. offered' \subseteq Tasks
        BY DEF IInv, TypeOK
      <4>. QED
        BY <1>9, <4>1, <4>2 DEF OnePlace, Offered
    <3>3. Pending' \in [1..(queue_size - 1) -> Tasks] /\ queue_size - 1 \in Nat
      BY <1>1, <3>1, <3>2
    <3>. QED
      BY <3>1, <3>3
  <2>5. /\ Tail(Pending) \in Seq(Tasks) /\ Len(Tail(Pending)) = queue_size - 1
        /\ \A n \in 1..(queue_size - 1) : Tail(Pending)[n] = Pending[n + 1]
    <3>1. /\ Tail(Pending) \in Seq(Tasks) /\ Len(Tail(Pending)) = Len(Pending) - 1
          /\ \A n \in 1..Len(Tail(Pending)) : Tail(Pending)[n] = Pending[n + 1]
      <4>. DEFINE p == Pending
      <4>1. p \in Seq(Tasks) /\ p # <<>>
        BY <2>1, <2>2
      <4>. HIDE DEF p
      <4>2. /\ Tail(p) \in Seq(Tasks) /\ Len(Tail(p)) = Len(p) - 1
            /\ \A n \in 1..Len(Tail(p)) : Tail(p)[n] = p[n + 1]
        BY <4>1, HeadTailProperties
      <4>. QED
        BY <4>2 DEF p
    <3>. QED
      BY <2>1, <3>1
  <2>6. ASSUME NEW n \in 1..(queue_size - 1) PROVE Pending'[n] = Tail(Pending)[n]
    <3>1. n - 1 \in 0..(queue_max_size - 1) /\ (n - 1) + 1 = n /\ n + 1 \in 1..queue_size
          /\ (n + 1) - 1 = n
      BY <1>1
    <3>2. Pending'[n] = Cell(n)
      BY <1>2, <2>4, <3>1
    <3>3. Pending[n + 1] = Cell((n + 1) - 1)
      BY <2>1, <3>1
    <3>. QED
      BY <2>5, <3>1, <3>2, <3>3
  <2>. QED
    BY <2>2, <2>3, <2>4, <2>5, <2>6, SeqEqual
<1>. QED
  BY <1>5, <1>10, <1>11, <1>12 DEF Service!Start

LEMMA FinishStep ==
  ASSUME ServiceInv, IInv', NEW t \in Tids, FinishTask(t)
  PROVE  ServiceInv' /\ \E k \in Tasks : Service!Finish(k)
<1>1. /\ t \in Holding /\ Holding' = Holding \ {t}
      /\ done' = done \union {wtask[t]} /\ \A u \in Holding' : wtask'[u] = wtask[u]
      /\ UNCHANGED <<queueVars, cpc, ctask, offered>>
  BY DEF FinishTask, Goes, Holding, WorkerUnchanged, ServiceInv, IInv, TypeOK
<1>2. Places' = Places /\ Calling' = Calling /\ \A n : Cell(n)' = Cell(n)
  BY <1>1 DEF Places, Calling, Cell, queueVars
<1>3. wtask[t] \in Tasks
  BY <1>1 DEF ServiceInv, OnePlace, Offered, IInv, TypeOK
<1>4. OnePlace'
  <2>1. Offered'
    <3>1. \A u \in Holding' : wtask[u] # wtask[t]
      BY <1>1 DEF ServiceInv, OnePlace, Once
    <3>. QED
      BY <1>1, <1>2, <3>1 DEF ServiceInv, OnePlace, Offered, Apart
  <2>2. Once'
    BY <1>1, <1>2 DEF ServiceInv, OnePlace, Once
  <2>3. Apart'
    BY <1>1, <1>2 DEF ServiceInv, OnePlace, Apart
  <2>. QED
    BY <2>1, <2>2, <2>3 DEF OnePlace
<1>5. ServiceInv'
  BY <1>1, <1>4 DEF ServiceInv, RearFollows, queueVars
<1>6. Running' = Running \ {wtask[t]} /\ wtask[t] \in Running
  <2>1. Running = {wtask[u] : u \in Holding} /\ Running' = {wtask'[u] : u \in Holding'}
    BY DEF Running, Holding
  <2>. QED
    BY <1>1, <2>1 DEF ServiceInv, OnePlace, Once
<1>7. Pending' = Pending
  BY <1>1 DEF Pending, queueVars
<1>. QED
  BY <1>1, <1>3, <1>5, <1>6, <1>7 DEF Service!Finish

(* All other steps of a worker move no task. *)
LEMMA WorkerService ==
  ASSUME ServiceInv, IInv', NEW t \in Tids, Worker(t) \/ SpuriousWakeup(t)
  PROVE  ServiceInv' /\ [Service!Next]_Service!vars
<1>1. CASE Take(t)
  BY <1>1, TakeStep DEF Service!Next
<1>2. CASE FinishTask(t)
  BY <1>2, FinishStep DEF Service!Next
<1>3. CASE ~Take(t) /\ ~FinishTask(t)
  <2>1. UNCHANGED <<queueVars, ctask, wtask, offered, done>> /\ cpc' = cpc
    BY <1>3 DEF Worker, Lock, DecideToWait, CondWait, SpuriousWakeup, Rewake, Retire, ExitOnShutdown,
                Detach, End, StartTask, Moves, WorkerUnchanged
  <2>2. \E a, b \in WorkerStates :
          Goes(t, a, b) /\ (a \in {"start", "run"} <=> b \in {"start", "run"})
    BY <1>3 DEF Worker, Lock, DecideToWait, CondWait, SpuriousWakeup, Rewake, Retire, ExitOnShutdown,
                Detach, End, StartTask, Moves, WorkerStates
  <2>3. Holding' = Holding
    BY <2>2, HoldingKept DEF ServiceInv, IInv
  <2>4. Calling' = Calling
    BY <2>1 DEF Calling
  <2>. QED
    BY <2>1, <2>3, <2>4, QuietStep
<1>. QED
  BY <1>1, <1>2, <1>3

-----------------------------------------------------------------------------
(* The steps of a client.                                                    *)

(* A call starts, with a task that was not offered before. *)
LEMMA AddCallStep ==
  ASSUME ServiceInv, IInv', NEW c \in Clients, AddCall(c)
  PROVE  ServiceInv' /\ UNCHANGED Service!vars
<1>1. PICK k \in Tasks \ offered :
        ctask' = [ctask EXCEPT ![c] = k] /\ offered' = offered \union {k}
  BY DEF AddCall
<1>2. /\ Calling' = Calling \union {c} /\ c \notin Calling
      /\ ctask'[c] = k /\ \A d \in Calling : ctask'[d] = ctask[d]
      /\ UNCHANGED <<queueVars, wpc, wtask, done>>
  BY <1>1 DEF AddCall, AddUnchanged, Calling, ServiceInv, IInv, TypeOK
<1>3. /\ Places' = Places /\ Holding' = Holding /\ (\A n : Cell(n)' = Cell(n))
      /\ Pending' = Pending /\ Running' = Running
  BY <1>2 DEF Places, Holding, Cell, Pending, Running, queueVars
<1>4. OnePlace'
  <2>1. Offered'
    BY <1>1, <1>2, <1>3 DEF ServiceInv, OnePlace, Offered
  <2>2. Once'
    BY <1>1, <1>2, <1>3 DEF ServiceInv, OnePlace, Offered, Once
  <2>3. Apart'
    BY <1>1, <1>2, <1>3 DEF ServiceInv, OnePlace, Offered, Apart
  <2>. QED
    BY <2>1, <2>2, <2>3 DEF OnePlace
<1>. QED
  BY <1>2, <1>3, <1>4 DEF ServiceInv, RearFollows, queueVars, Service!vars

(* A call leaves threadpool_add: nobody else's place changes. *)
LEMMA ReturnFacts ==
  ASSUME TypeOK, NEW c \in Clients, cpc[c] = "adding", AddReturn(c)
  PROVE  /\ c \in Calling /\ Calling' = Calling \ {c}
         /\ \A d \in Calling' : ctask'[d] = ctask[d]
BY DEF AddReturn, Calling, TypeOK

(* The pool is shut down and refuses the task. *)
LEMMA AddRefusedStep ==
  ASSUME ServiceInv, IInv', NEW c \in Clients, AddRefused(c)
  PROVE  ServiceInv' /\ UNCHANGED Service!vars
<1>1. /\ Calling' \subseteq Calling /\ \A d \in Calling' : ctask'[d] = ctask[d]
      /\ UNCHANGED <<queueVars, wtask, offered, done>>
  BY ReturnFacts DEF AddRefused, AddUnchanged, ServiceInv, IInv
<1>2. Holding' = Holding
  BY HoldingKept DEF AddRefused, BroadcastNotEmpty, ServiceInv, IInv
<1>3. Places' = Places /\ (\A n : Cell(n)' = Cell(n)) /\ Pending' = Pending /\ Running' = Running
  BY <1>1, <1>2 DEF Places, Cell, Pending, Running, Holding, queueVars
<1>4. OnePlace'
  <2>1. Offered'
    BY <1>1, <1>2, <1>3 DEF ServiceInv, OnePlace, Offered
  <2>2. Once'
    BY <1>1, <1>2, <1>3 DEF ServiceInv, OnePlace, Once
  <2>3. Apart'
    BY <1>1, <1>2, <1>3 DEF ServiceInv, OnePlace, Apart
  <2>. QED
    BY <2>1, <2>2, <2>3 DEF OnePlace
<1>. QED
  BY <1>1, <1>3, <1>4 DEF ServiceInv, RearFollows, queueVars, Service!vars

(* The slot at the rear is behind all tasks in the ring, so writing it changes   *)
(* none of them.                                                                *)
LEMMA RearIsFree ==
  ASSUME ServiceInv, queue_size # queue_max_size, NEW x, queue_front' = queue_front,
         task_queue' = [task_queue EXCEPT ![queue_rear] = x]
  PROVE  /\ \A n \in Places : Cell(n)' = Cell(n)
         /\ \A n : n = queue_size => Cell(n)' = x
<1>1. /\ queue_size \in 0..(queue_max_size - 1) /\ TypeOK
      /\ queue_rear = (queue_front + queue_size) % queue_max_size
  BY PoolAssumption DEF ServiceInv, IInv, TypeOK, RearFollows
<1>2. queue_rear \in RingSlots /\ task_queue'[queue_rear] = x
      /\ \A q \in RingSlots : q # queue_rear => task_queue'[q] = task_queue[q]
  BY <1>1 DEF TypeOK
<1>3. \A n \in Places : /\ n \in 0..(queue_max_size - 1) /\ n # queue_size
                         /\ n \in 0..queue_max_size
  BY <1>1, PoolAssumption DEF Places
<1>4. \A n \in Places : (queue_front + n) % queue_max_size # queue_rear
  BY <1>1, <1>3, RingFacts
<1>5. \A n \in Places : (queue_front + n) % queue_max_size \in RingSlots
  BY <1>1, <1>3, RingFacts
<1>. QED
  BY <1>1, <1>2, <1>4, <1>5 DEF Cell

(* The task joins the ring behind the others, or is dropped. *)
LEMMA AddTaskStep ==
  ASSUME ServiceInv, IInv', NEW c \in Clients, AddTask(c)
  PROVE  ServiceInv' /\ [Service!Next]_Service!vars
<1>1. /\ c \in Calling /\ Calling' = Calling \ {c} /\ \A d \in Calling' : ctask'[d] = ctask[d]
      /\ UNCHANGED <<wtask, offered, done>>
      /\ queue_size # queue_max_size /\ queue_front' = queue_front
  BY ReturnFacts DEF AddTask, Enqueue, AddUnchanged, ServiceInv, IInv
<1>2. Holding' = Holding /\ Running' = Running
  BY <1>1, HoldingKept DEF AddTask, ServiceInv, IInv, Running, Holding
<1>3. /\ queue_size \in 0..(queue_max_size - 1) /\ TypeOK /\ queue_max_size \in Nat \ {0}
  BY <1>1, PoolAssumption DEF ServiceInv, IInv, TypeOK
<1>4. CASE /\ task_queue' = [task_queue EXCEPT ![queue_rear] = NoTask]
           /\ UNCHANGED <<queue_rear, queue_size>>
  <2>1. Places' = Places /\ \A n \in Places : Cell(n)' = Cell(n)
    BY <1>1, <1>4, RearIsFree DEF Places
  <2>2. OnePlace'
    <3>1. Offered'
      BY <1>1, <1>2, <2>1 DEF ServiceInv, OnePlace, Offered
    <3>2. Once'
      BY <1>1, <1>2, <2>1 DEF ServiceInv, OnePlace, Once
    <3>3. Apart'
      BY <1>1, <1>2, <2>1 DEF ServiceInv, OnePlace, Apart
    <3>. QED
      BY <3>1, <3>2, <3>3 DEF OnePlace
  <2>3. ServiceInv'
    BY <1>1, <1>4, <2>2 DEF ServiceInv, RearFollows
  <2>4. Pending' = Pending
    <3>1. \A n \in 1..queue_size : n - 1 \in Places
      BY <1>3 DEF Places
    <3>. QED
      BY <1>4, <2>1, <3>1, PendingCells DEF IInv, ServiceInv
  <2>. QED
    BY <1>1, <1>2, <2>3, <2>4 DEF Service!vars
<1>5. CASE /\ task_queue' = [task_queue EXCEPT ![queue_rear] = ctask[c]]
           /\ queue_rear' = (queue_rear + 1) % queue_max_size
           /\ queue_size' = queue_size + 1
  <2>1. (\A n \in Places : Cell(n)' = Cell(n)) /\ \A n : n = queue_size => Cell(n)' = ctask[c]
    BY <1>1, <1>5, RearIsFree
  <2>2. Places' = Places \union {queue_size} /\ queue_size \notin Places
    BY <1>3, <1>5 DEF Places
  <2>3. RearFollows'
    <3>1. 1 \in 0..queue_max_size /\ queue_size \in 0..queue_max_size
          /\ queue_size + 1 \in 0..queue_max_size
          /\ queue_front \in 0..(queue_max_size - 1)
      BY <1>3 DEF TypeOK, RingSlots
    <3>2. (queue_front + queue_size) % queue_max_size
            = IF queue_front + queue_size < queue_max_size THEN queue_front + queue_size
                                                           ELSE queue_front + queue_size - queue_max_size
      BY <1>3, <3>1, RingFacts
    <3>3. (queue_front + (queue_size + 1)) % queue_max_size
            = IF queue_front + (queue_size + 1) < queue_max_size THEN queue_front + (queue_size + 1)
              ELSE queue_front + (queue_size + 1) - queue_max_size
      BY <1>3, <3>1, RingFacts
    <3>4. queue_rear = (queue_front + queue_size) % queue_max_size
          /\ queue_rear \in 0..(queue_max_size - 1)
      BY <1>3 DEF ServiceInv, RearFollows, TypeOK, RingSlots
    <3>5. (queue_rear + 1) % queue_max_size
            = IF queue_rear + 1 < queue_max_size THEN queue_rear + 1
                                                 ELSE queue_rear + 1 - queue_max_size
      BY <1>3, <3>1, <3>4, RingIndex
    <3>. QED
      BY <1>1, <1>3, <1>5, <3>1, <3>2, <3>3, <3>4, <3>5 DEF RearFollows
  <2>4. OnePlace'
    <3>. USE DEF ServiceInv, OnePlace
    <3>1. Offered'
      BY <1>1, <1>2, <2>1, <2>2 DEF Offered
    <3>2. Once'
      BY <1>1, <1>2, <2>1, <2>2 DEF Once, Apart
    <3>3. Apart'
      BY <1>1, <1>2, <2>1, <2>2 DEF Once, Apart
    <3>. QED
      BY <3>1, <3>2, <3>3
  <2>5. ServiceInv'
    BY <2>3, <2>4 DEF ServiceInv
  <2>6. ctask[c] \in Tasks /\ ctask[c] \notin Service!Queued \union Running \union done
    <3>1. ctask[c] \in offered \ done /\ offered \subseteq Tasks
      BY <1>1, <1>3 DEF ServiceInv, OnePlace, Offered, TypeOK
    <3>2. Service!Queued = {Cell(n) : n \in Places} /\ Running = {wtask[t] : t \in Holding}
      BY PendingFacts DEF Running, Holding
    <3>. QED
      BY <1>1, <3>1, <3>2 DEF ServiceInv, OnePlace, Apart
  <2>7. Len(Pending) < queue_max_size
    BY <1>3, PendingFacts
  <2>8. Pending' = Append(Pending, ctask[c])
    <3>1. /\ Pending = [n \in 1..queue_size |-> Cell(n - 1)]
          /\ Pending \in Seq(Tasks) /\ Len(Pending) = queue_size
      BY PendingFacts
    <3>2. Pending' = [n \in 1..(queue_size + 1) |-> Cell(n - 1)']
      BY <1>5, PendingCells DEF IInv
    <3>3. \A n \in 1..queue_size : n - 1 \in Places
      BY <1>3 DEF Places
    <3>4. \A n \in 1..queue_size : Pending'[n] = Pending[n]
      BY <1>3, <2>1, <3>1, <3>2, <3>3
    <3>5. Pending'[queue_size + 1] = ctask[c]
      <4>1. queue_size + 1 \in 1..(queue_size + 1) /\ (queue_size + 1) - 1 = queue_size
        BY <1>3
      <4>. QED
        BY <2>1, <3>2, <4>1
    <3>6. Pending' \in [1..(queue_size + 1) -> Tasks] /\ queue_size + 1 \in Nat
      <4>1. \A n \in 1..(queue_size + 1) : n \in 1..queue_size \/ n = queue_size + 1
        BY <1>3
      <4>2. \A n \in 1..queue_size : Pending[n] \in Tasks
        BY <3>1, LenProperties
      <4>3. \A n \in 1..(queue_size + 1) : Pending'[n] \in Tasks
        BY <2>6, <3>4, <3>5, <4>1, <4>2
      <4>. QED
        BY <1>3, <3>2, <4>3
    <3>7. Pending' \in Seq(Tasks) /\ Len(Pending') = queue_size + 1
      BY <3>6
    <3>8. /\ Append(Pending, ctask[c]) \in Seq(Tasks)
          /\ Len(Append(Pending, ctask[c])) = queue_size + 1
          /\ \A n \in 1..queue_size : Append(Pending, ctask[c])[n] = Pending[n]
          /\ Append(Pending, ctask[c])[queue_size + 1] = ctask[c]
      <4>. DEFINE p == Pending
                  k == ctask[c]
      <4>1. p \in Seq(Tasks) /\ k \in Tasks
        BY <2>6, <3>1
      <4>. HIDE DEF p, k
      <4>2. /\ Append(p, k) \in Seq(Tasks) /\ Len(Append(p, k)) = Len(p) + 1
            /\ \A n \in 1..Len(p) : Append(p, k)[n] = p[n]
            /\ Append(p, k)[Len(p) + 1] = k
        BY <4>1, AppendProperties
      <4>. QED
        BY <3>1, <4>2 DEF p, k
    <3>9. \A n \in 1..(queue_size + 1) : Pending'[n] = Append(Pending, ctask[c])[n]
      BY <1>3, <3>4, <3>5, <3>8
    <3>. QED
      BY <3>7, <3>8, <3>9, SeqEqual
  <2>9. Service!Submit(ctask[c])
    BY <1>1, <1>2, <2>6, <2>7, <2>8 DEF Service!Submit
  <2>. QED
    BY <2>5, <2>6, <2>9 DEF Service!Next
<1>. QED
  BY <1>4, <1>5 DEF AddTask, Enqueue

LEMMA ClientService ==
  ASSUME ServiceInv, IInv', NEW c \in Clients, Client(c)
  PROVE  ServiceInv' /\ [Service!Next]_Service!vars
<1>1. CASE AddWait(c)
  <2>1. Calling' = Calling /\ Holding' = Holding
    BY <1>1 DEF AddWait, Calling, Holding, ServiceInv, IInv, TypeOK
  <2>. QED
    BY <1>1, <2>1, QuietStep DEF AddWait, AddUnchanged
<1>. QED
  BY <1>1, AddCallStep, AddRefusedStep, AddTaskStep DEF Client

-----------------------------------------------------------------------------
(* The adjuster creates workers that hold nothing; it and the destroying thread   *)
(* wake workers that hold nothing.                                                *)
LEMMA OthersService ==
  ASSUME ServiceInv, IInv', Adjuster \/ Destroyer \/ UNCHANGED vars
  PROVE  ServiceInv' /\ [Service!Next]_Service!vars
<1>1. UNCHANGED <<queueVars, clientVars, wtask, offered, done>>
  BY DEF Adjuster, AdjustLoop, AdjustSnapshot, AdjustSnapshotBusy, AdjustGrow, AdjustKillsEnded,
         AdjustNoGrow,
      AdjustShrink, AdjustNoShrink, AdjustSignal, AdjustUnchanged, Destroyer, Destroy, JoinAdjust,
      DestroySignal, DestroySignalled, JoinStart, JoinWait, JoinDetached,
      JoinEnded, JoinNoThread, JoinedAll, Free, DestroyMoves,
      DestroyUnchanged, vars, workerVars, historyVars
<1>2. Holding' = Holding
  <2>1. CASE SignalNotEmpty
    BY <2>1, HoldingKept DEF ServiceInv, IInv
  <2>2. CASE AdjustGrow
    <3>1. PICK S \in SUBSET Slots : \E new \in Injection(S, Unborn) :
            wpc' = [t \in Tids |-> IF t \in Range(new) THEN "lock" ELSE wpc[t]]
      BY <2>2 DEF AdjustGrow, Reusable
    <3>2. PICK new \in Injection(S, Unborn) :
            wpc' = [t \in Tids |-> IF t \in Range(new) THEN "lock" ELSE wpc[t]]
      BY <3>1
    <3>3. Range(new) \subseteq Unborn
      <4>1. new \in [S -> Unborn]
        BY Fun_InjectionProperties
      <4>. QED
        BY <4>1, Fun_RangeProperties
    <3>. QED
      BY <3>2, <3>3 DEF Holding, Unborn
  <2>3. CASE wpc' = wpc
    BY <2>3 DEF Holding
  <2>. QED
    BY <2>1, <2>2, <2>3
    DEF Adjuster, AdjustLoop, AdjustSnapshot, AdjustSnapshotBusy, AdjustKillsEnded, AdjustNoGrow,
        AdjustShrink,
        AdjustNoShrink, AdjustSignal, PoolUnchanged, Destroyer, Destroy, JoinAdjust, DestroySignal,
        DestroySignalled, JoinStart, JoinWait, JoinDetached,
        JoinEnded, JoinNoThread, JoinedAll, Free, DestroyMoves, vars, workerVars
<1>3. Calling' = Calling
  BY <1>1 DEF Calling, clientVars
<1>. QED
  BY <1>1, <1>2, <1>3, QuietStep DEF clientVars

LEMMA InitService == Init => ServiceInv /\ Service!Init
<1> SUFFICES ASSUME Init PROVE ServiceInv /\ Service!Init
  OBVIOUS
<1>1. IInv
  BY InitIInv
<1>2. Places = {} /\ Calling = {} /\ Holding = {}
  BY DEF Init, Places, Calling, Holding
<1>3. RearFollows
  BY PoolAssumption, ModSmall DEF Init, RearFollows
<1>4. OnePlace
  BY <1>2 DEF Init, OnePlace, Offered, Once, Apart
<1>5. ServiceInv
  BY <1>1, <1>3, <1>4 DEF ServiceInv
<1>6. Pending = <<>> /\ Running = {} /\ done = {}
  BY <1>2, <1>5, PendingFacts DEF Init, Running, Holding
<1>. QED
  BY <1>5, <1>6 DEF Service!Init

(* The ring and the workers are a bounded first-in first-out service, whatever    *)
(* the number of callers, however the ring wraps and whoever is woken: a task is   *)
(* accepted once, taken in its turn and executed once (threadpool.c:122-222). A    *)
(* task that threadpool_add drops (143) is one that is not accepted.               *)
THEOREM ServiceCorrect == Spec => ServiceSpec
<1>1. Init => ServiceInv /\ Service!Init
  BY InitService
<1>2. ServiceInv /\ IInv' /\ [Next]_vars => ServiceInv' /\ [Service!Next]_Service!vars
  BY WorkerService, ClientService, OthersService DEF Next
<1>3. IInv /\ [Next]_vars => IInv'
  BY WorkerIInv, ClientIInv, AdjusterIInv, DestroyerIInv, StutterIInv DEF Next
<1>4. ServiceInv => IInv
  BY DEF ServiceInv
<1>. QED
  BY <1>1, <1>2, <1>3, <1>4, PTL DEF Spec, ServiceSpec, Service!Spec
=============================================================================
