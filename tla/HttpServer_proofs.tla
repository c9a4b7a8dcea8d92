-------------------------- MODULE HttpServer_proofs --------------------------
(***************************************************************************)
(* Theorems about the web server: the work queue stays within its limit    *)
(* and in step with the semaphore, for any number of workers, descriptors  *)
(* and clients.                                                            *)
(***************************************************************************)
EXTENDS HttpServer, FiniteSetTheorems, TLAPS

Popping == {w \in Workers : wpc[w] = "pop"}

(* The types the argument needs; events of connections carry a descriptor.    *)
QueueTypes ==
  /\ m_workqueue \in Seq(Fds) /\ Len(m_workqueue) <= m_max_requests + 1
  /\ m_queuestat \in Nat
  /\ wpc \in [Workers -> {"idle", "pop", "process", "unbind", "store", "modfd"}]
  /\ \A e \in batch : e.kind = "in" => e.fd \in Fds

QueueInv == QueueTypes /\ SemaphoreMatchesQueue

-----------------------------------------------------------------------------
LEMMA PoppingFinite ==
  IsFiniteSet(Popping) /\ Cardinality(Popping) \in Nat
<1>1. Popping \subseteq Workers
  BY DEF Popping
<1>. QED
  BY <1>1, HttpAssumption, FS_Subset, FS_CardinalityType

(* The number of workers between sem_wait and the queue, over a step of one. *)
LEMMA GoesCounts ==
  ASSUME QueueTypes, NEW w \in Workers, NEW a, NEW b, Goes(w, a, b)
  PROVE  Cardinality(Popping') = IF a = "pop" THEN Cardinality(Popping) - (IF b = "pop" THEN 0 ELSE 1)
                                 ELSE IF b = "pop" THEN Cardinality(Popping) + 1
                                 ELSE Cardinality(Popping)
<1>1. Popping' = IF b = "pop" THEN Popping \union {w} ELSE Popping \ {w}
  BY DEF Goes, Popping, QueueTypes
<1>2. w \in Popping <=> a = "pop"
  BY DEF Goes, Popping
<1>3. IsFiniteSet(Popping) /\ Cardinality(Popping) \in Nat
  BY PoppingFinite
<1>4. CASE a = "pop" /\ b = "pop"
  <2>1. Popping' = Popping
    BY <1>1, <1>2, <1>4
  <2>. QED
    BY <1>3, <1>4, <2>1
<1>5. CASE a = "pop" /\ b # "pop"
  BY <1>1, <1>2, <1>3, <1>5, FS_RemoveElement
<1>6. CASE a # "pop" /\ b = "pop"
  BY <1>1, <1>2, <1>3, <1>6, FS_AddElement
<1>7. CASE a # "pop" /\ b # "pop"
  <2>1. Popping' = Popping
    BY <1>1, <1>2, <1>7
  <2>. QED
    BY <1>3, <1>7, <2>1
<1>. QED
  BY <1>4, <1>5, <1>6, <1>7

LEMMA InitQueue ==
  Init => QueueInv
<1> SUFFICES ASSUME Init PROVE QueueInv
  OBVIOUS
<1>1. QueueTypes
  BY HttpAssumption DEF Init, QueueTypes
<1>2. Popping = {} /\ Cardinality({}) = 0
  BY FS_EmptySet DEF Init, Popping
<1>3. m_queuestat = 0 /\ Len(m_workqueue) = 0
  BY DEF Init
<1>4. Cardinality({w \in Workers : wpc[w] = "pop"}) = 0
  BY <1>2 DEF Popping
<1>5. SemaphoreMatchesQueue
  BY <1>3, <1>4 DEF SemaphoreMatchesQueue
<1>. QED
  BY <1>1, <1>5 DEF QueueInv

-----------------------------------------------------------------------------
(* Main, the clients: all but Read leave queue and semaphore alone.          *)

LEMMA QueueFrame ==
  ASSUME QueueInv, UNCHANGED <<m_workqueue, m_queuestat, wpc>>,
         \A e \in batch' : e.kind = "in" => e.fd \in Fds
  PROVE  QueueInv'
BY DEF QueueInv, QueueTypes, SemaphoreMatchesQueue

LEMMA WaitQueue ==
  ASSUME QueueInv, EpollWait
  PROVE  QueueInv'
<1>1. \A e \in batch' : e.kind = "in" => e.fd \in Fds
  <2> SUFFICES ASSUME NEW e \in batch', e.kind = "in"
               PROVE  e.fd \in Fds
    OBVIOUS
  <2>1. CASE e = Listener
    BY <2>1 DEF Listener
  <2>2. CASE \E f \in Fds : \E k \in Kinds(f) : e = [fd |-> f, kind |-> k]
    <3>1. PICK f \in Fds : \E k \in Kinds(f) : e = [fd |-> f, kind |-> k]
      BY <2>2
    <3>2. PICK k \in Kinds(f) : e = [fd |-> f, kind |-> k]
      BY <3>1
    <3>. QED
      BY <3>2
  <2>3. \/ e \in UNION {{[fd |-> f, kind |-> k] : k \in Kinds(f)} : f \in Fds}
        \/ e \in (IF edge THEN {Listener} ELSE {})
    BY Zenon DEF EpollWait
  <2>4. CASE e \in UNION {{[fd |-> f, kind |-> k] : k \in Kinds(f)} : f \in Fds}
    BY <2>2, <2>4, Zenon
  <2>. QED
    BY <2>1, <2>3, <2>4
<1>. QED
  BY <1>1, QueueFrame DEF EpollWait, queueVars, workerVars

LEMMA MainQueue ==
  ASSUME QueueInv,
         \/ AcceptNone \/ MainCounts \/ \E f \in Fds : Accept(f)
         \/ \E e \in batch : HangUp(e) \/ ReadFails(e) \/ WriteGoesOn(e) \/ WriteEnds(e)
  PROVE  QueueInv'
<1>1. UNCHANGED <<m_workqueue, m_queuestat, wpc>> /\ batch' \subseteq batch
  <2>1. CASE AcceptNone \/ MainCounts \/ \E f \in Fds : Accept(f)
    BY <2>1 DEF AcceptNone, MainCounts, Accept, Takes, queueVars, workerVars
  <2>2. ASSUME NEW e \in batch, HangUp(e) \/ ReadFails(e) \/ WriteGoesOn(e) \/ WriteEnds(e)
        PROVE  UNCHANGED <<m_workqueue, m_queuestat, wpc>> /\ batch' \subseteq batch
    BY <2>2 DEF HangUp, ReadFails, WriteGoesOn, WriteEnds, MainCloses, Takes, MainUnchanged,
                queueVars, workerVars
  <2>. QED
    BY <2>1, <2>2
<1>. QED
  BY <1>1, QueueFrame DEF QueueInv, QueueTypes

LEMMA ClientQueue ==
  ASSUME QueueInv, Environment \/ UNCHANGED vars
  PROVE  QueueInv'
<1>1. UNCHANGED <<m_workqueue, m_queuestat, wpc, batch>>
  BY DEF Environment, ClientConnects, ClientActs, vars, queueVars, mainVars, workerVars
<1>. QED
  BY <1>1, QueueFrame DEF QueueInv, QueueTypes

(* A request is appended with its post, or neither. *)
LEMMA ReadQueue ==
  ASSUME QueueInv, NEW e \in batch, Read(e)
  PROVE  QueueInv'
<1>1. e.fd \in Fds
  BY DEF Read, QueueInv, QueueTypes
<1>2. wpc' = wpc /\ batch' \subseteq batch
  BY DEF Read, Takes, MainUnchanged, workerVars
<1>3. CASE /\ Len(m_workqueue) <= m_max_requests
           /\ m_workqueue' = Append(m_workqueue, e.fd) /\ m_queuestat' = m_queuestat + 1
  <2>1. m_workqueue' \in Seq(Fds) /\ Len(m_workqueue') = Len(m_workqueue) + 1
    BY <1>1, <1>3 DEF QueueInv, QueueTypes
  <2>2. SemaphoreMatchesQueue'
    BY <1>2, <1>3, <2>1, PoppingFinite
    DEF QueueInv, QueueTypes, SemaphoreMatchesQueue, Popping
  <2>. QED
    BY <1>2, <1>3, <2>1, <2>2, HttpAssumption DEF QueueInv, QueueTypes
<1>4. CASE UNCHANGED queueVars
  BY <1>2, <1>4, QueueFrame DEF queueVars, QueueInv, QueueTypes
<1>. QED
  BY <1>3, <1>4 DEF Read, AppendRequest

-----------------------------------------------------------------------------
(* A worker.                                                                 *)

LEMMA WorkerQueue ==
  ASSUME QueueInv, NEW w \in Workers, Worker(w)
  PROVE  QueueInv'
<1>1. batch' = batch
  BY DEF Worker, SemWait, Pop, NeedMore, Respond, WorkerCloses, WorkerUnbinds, WorkerCounts,
         WorkerArms, WorkerUnchanged, mainVars
<1>2. wpc' \in [Workers -> {"idle", "pop", "process", "unbind", "store", "modfd"}]
  BY DEF Worker, SemWait, Pop, NeedMore, Respond, WorkerCloses, WorkerUnbinds, WorkerCounts,
         WorkerArms, Goes, QueueInv, QueueTypes
<1>3. Cardinality(Popping) \in Nat
  BY PoppingFinite
<1>4. CASE SemWait(w)
  <2>1. Cardinality(Popping') = Cardinality(Popping) + 1
    BY <1>4, GoesCounts DEF SemWait, QueueInv
  <2>2. m_workqueue' = m_workqueue /\ m_queuestat' \in Nat /\ m_queuestat' = m_queuestat - 1
    BY <1>4 DEF SemWait, QueueInv, QueueTypes
  <2>3. SemaphoreMatchesQueue'
    BY <1>3, <2>1, <2>2 DEF QueueInv, QueueTypes, SemaphoreMatchesQueue, Popping
  <2>. QED
    BY <1>1, <1>2, <2>2, <2>3 DEF QueueInv, QueueTypes
<1>5. CASE Pop(w)
  <2>1. Cardinality(Popping) # 0
    <3>1. Popping # {}
      BY <1>5 DEF Pop, Popping
    <3>. QED
      BY <3>1, PoppingFinite, FS_EmptySet
  <2>2. m_workqueue # <<>>
    BY <1>3, <2>1 DEF QueueInv, QueueTypes, SemaphoreMatchesQueue, Popping
  <2>3. Goes(w, "pop", "process")
    BY <1>5, <2>2 DEF Pop, Goes
  <2>4. Cardinality(Popping') = Cardinality(Popping) - 1
    BY <2>3, GoesCounts DEF QueueInv
  <2>5. m_workqueue' = Tail(m_workqueue) /\ m_queuestat' = m_queuestat
    BY <1>5, <2>2 DEF Pop
  <2>6. m_workqueue' \in Seq(Fds) /\ Len(m_workqueue') = Len(m_workqueue) - 1
    BY <2>2, <2>5 DEF QueueInv, QueueTypes
  <2>7. SemaphoreMatchesQueue'
    BY <1>3, <2>4, <2>5, <2>6 DEF QueueInv, QueueTypes, SemaphoreMatchesQueue, Popping
  <2>8. Len(m_workqueue') <= m_max_requests + 1
    BY <2>6, HttpAssumption DEF QueueInv, QueueTypes
  <2>. QED
    BY <1>1, <1>2, <2>5, <2>6, <2>7, <2>8 DEF QueueInv, QueueTypes
<1>6. CASE ~SemWait(w) /\ ~Pop(w)
  <2>1. Popping' = Popping
    BY <1>6 DEF Worker, NeedMore, Respond, WorkerCloses, WorkerUnbinds, WorkerCounts, WorkerArms,
                Goes, QueueInv, QueueTypes, Popping
  <2>2. UNCHANGED <<m_workqueue, m_queuestat>>
    BY <1>6 DEF Worker, NeedMore, Respond, WorkerCloses, WorkerUnbinds, WorkerCounts, WorkerArms,
                queueVars
  <2>3. SemaphoreMatchesQueue'
    BY <2>1, <2>2 DEF QueueInv, SemaphoreMatchesQueue, Popping
  <2>. QED
    BY <1>1, <1>2, <2>2, <2>3 DEF QueueInv, QueueTypes
<1>. QED
  BY <1>4, <1>5, <1>6

-----------------------------------------------------------------------------
(* The queue holds at most one request more than m_max_requests, and each worker *)
(* that has passed sem_wait finds a request: the test for an empty queue in run  *)
(* never succeeds (httpserver/threadpool.h:71-83, 98-106).                       *)
THEOREM QueueCorrect ==
  Spec => [](SemaphoreMatchesQueue /\ Len(m_workqueue) <= m_max_requests + 1)
<1>1. Init => QueueInv
  BY InitQueue
<1>2. QueueInv /\ [Next]_vars => QueueInv'
  BY WaitQueue, MainQueue, ReadQueue, WorkerQueue, ClientQueue DEF Next, Main
<1>3. QueueInv => SemaphoreMatchesQueue /\ Len(m_workqueue) <= m_max_requests + 1
  BY DEF QueueInv, QueueTypes
<1>. QED
  BY <1>1, <1>2, <1>3, PTL DEF Spec

-----------------------------------------------------------------------------
(* The types of all variables. That backlog does not fall below 0 needs a      *)
(* connection to accept for each event of the listening socket.                *)

Arrived == (IF edge THEN 1 ELSE 0) + (IF Listener \in batch THEN 1 ELSE 0)

ListenInv ==
  /\ mpc = "wait" => batch = {}
  /\ Arrived <= backlog

TypeInv == TypeOK /\ ListenInv

LEMMA InitTypes == Init => TypeInv
<1> SUFFICES ASSUME Init PROVE TypeInv
  OBVIOUS
<1>1. m_workqueue \in Seq(Fds) /\ Len(m_workqueue) <= m_max_requests + 1
  BY HttpAssumption DEF Init
<1>2. clients \in 0..MaxClients /\ backlog \in 0..Backlog
  BY HttpAssumption DEF Init
<1>3. TypeOK
  <2>1. edge \in BOOLEAN /\ miscount \in BOOLEAN
    BY Zenon DEF Init
  <2>2. bound \in [Fds -> BOOLEAN] /\ response \in [Fds -> BOOLEAN]
    BY Zenon DEF Init
  <2>3. /\ inbox \in [Fds -> {"none", "data", "hup"}] /\ armed \in [Fds -> {"none", "off", "in", "out"}]
        /\ wpc \in [Workers -> {"idle", "pop", "process", "unbind", "store", "modfd"}]
        /\ wreq \in [Workers -> Fds \union {NoFd}] /\ wload \in [Workers -> Int]
    BY DEF Init
  <2>4. /\ open \subseteq Fds /\ m_queuestat \in Nat /\ m_user_count \in Int /\ mload \in Int
        /\ mpc \in {"wait", "dispatch", "increment", "decrement"} /\ batch = {}
        /\ dropped \subseteq Fds /\ tainted \subseteq Fds
    BY DEF Init
  <2>. QED
    BY <1>1, <1>2, <2>1, <2>2, <2>3, <2>4 DEF TypeOK
<1>4. ListenInv
  BY DEF Init, ListenInv, Arrived
<1>. QED
  BY <1>3, <1>4 DEF TypeInv

(* Taking an event. *)
LEMMA TakesTypes ==
  ASSUME TypeInv, NEW e \in batch, NEW then \in {"next", "increment", "decrement"}, Takes(e, then)
  PROVE  /\ batch' \subseteq {Listener} \union [fd : Fds, kind : {"hup", "in", "out"}]
         /\ mpc' \in {"wait", "dispatch", "increment", "decrement"}
         /\ mpc' = "wait" => batch' = {}
         /\ Listener \in batch' <=> Listener \in batch /\ e # Listener
<1>1. batch' = batch \ {e} /\ mpc' = IF then = "next" THEN (IF batch' = {} THEN "wait" ELSE "dispatch") ELSE then
  BY DEF Takes
<1>. QED
  BY <1>1 DEF TypeInv, TypeOK

LEMMA WaitTypes ==
  ASSUME TypeInv, EpollWait
  PROVE  TypeInv'
<1>1. /\ UNCHANGED <<open, inbox, clients, backlog, bound, response, m_workqueue, m_queuestat,
                     m_user_count, mload, wpc, wreq, wload, dropped, tainted, miscount>>
      /\ mpc = "wait" /\ mpc' = "dispatch" /\ edge' = FALSE
      /\ armed' = [f \in Fds |-> IF Kinds(f) = {} THEN armed[f] ELSE "off"]
      /\ batch' = (UNION {{[fd |-> f, kind |-> k] : k \in Kinds(f)} : f \in Fds})
                    \union (IF edge THEN {Listener} ELSE {})
  BY DEF EpollWait, objectVars, queueVars, workerVars, historyVars
<1>2. UNION {{[fd |-> f, kind |-> k] : k \in Kinds(f)} : f \in Fds}
        \subseteq [fd : Fds, kind : {"hup", "in", "out"}]
  <2>1. \A f \in Fds : Kinds(f) \subseteq {"hup", "in", "out"}
    BY DEF Kinds
  <2>2. \A f \in Fds : {[fd |-> f, kind |-> k] : k \in Kinds(f)} \subseteq [fd : Fds, kind : {"hup", "in", "out"}]
    BY <2>1
  <2>. QED
    BY <2>2
<1>3. Listener \notin [fd : Fds, kind : {"hup", "in", "out"}]
  BY DEF Listener
<1>4. /\ batch' \subseteq {Listener} \union [fd : Fds, kind : {"hup", "in", "out"}]
      /\ Listener \in batch' <=> edge
  <2>1. CASE edge
    BY <1>1, <1>2, <2>1
  <2>2. CASE ~edge
    BY <1>1, <1>2, <1>3, <2>2
  <2>. QED
    BY <2>1, <2>2
<1>5. armed' \in [Fds -> {"none", "off", "in", "out"}]
  BY <1>1 DEF TypeInv, TypeOK
<1>6. TypeOK'
  BY <1>1, <1>4, <1>5 DEF TypeInv, TypeOK
<1>7. ListenInv'
  BY <1>1, <1>4 DEF TypeInv, TypeOK, ListenInv, Arrived
<1>. QED
  BY <1>6, <1>7 DEF TypeInv

(* The counts stay numbers. *)
LEMMA StoreTypes ==
  ASSUME NEW loaded \in Int, NEW delta \in Int, StoreCount(loaded, delta), m_user_count \in Int,
         miscount \in BOOLEAN
  PROVE  m_user_count' \in Int /\ miscount' \in BOOLEAN
<1>1. m_user_count' = loaded + delta \/ m_user_count' = m_user_count + delta
  BY DEF StoreCount
<1>2. miscount' = TRUE \/ miscount' = miscount
  BY DEF StoreCount
<1>3. m_user_count' \in Int
  BY <1>1
<1>4. miscount' \in BOOLEAN
  BY <1>2
<1>. QED
  BY <1>3, <1>4

LEMMA ListenTypes ==
  ASSUME TypeInv, AcceptNone \/ MainCounts \/ \E f \in Fds : Accept(f)
  PROVE  TypeInv'
<1>1. CASE AcceptNone
  <2>1. /\ Listener \in batch /\ Takes(Listener, "next")
        /\ backlog' = backlog \/ backlog' = backlog - 1
        /\ UNCHANGED <<open, inbox, armed, clients, edge, bound, response, m_workqueue, m_queuestat,
                       m_user_count, mload, wpc, wreq, wload, dropped, tainted, miscount>>
    BY <1>1 DEF AcceptNone, Takes, kernelVars, objectVars, queueVars, workerVars, historyVars
  <2>2. ListenInv' /\ backlog' \in 0..Backlog
    BY <2>1, TakesTypes, HttpAssumption DEF TypeInv, TypeOK, ListenInv, Arrived
  <2>3. TypeOK'
    BY <2>1, <2>2, TakesTypes DEF TypeInv, TypeOK
  <2>. QED
    BY <2>2, <2>3 DEF TypeInv
<1>2. CASE MainCounts
  <2>1. /\ mload' = 0 /\ batch' = batch /\ mpc' = IF batch = {} THEN "wait" ELSE "dispatch"
        /\ UNCHANGED <<open, inbox, armed, clients, backlog, edge, bound, response, m_workqueue,
                       m_queuestat, wpc, wreq, wload, dropped, tainted>>
    BY <1>2 DEF MainCounts, kernelVars, listenVars, objectVars, queueVars, workerVars
  <2>2. m_user_count' \in Int /\ miscount' \in BOOLEAN
    BY <1>2, StoreTypes DEF MainCounts, TypeInv, TypeOK
  <2>3. TypeOK'
    BY <2>1, <2>2 DEF TypeInv, TypeOK
  <2>4. ListenInv'
    BY <2>1 DEF TypeInv, ListenInv, Arrived
  <2>. QED
    BY <2>3, <2>4 DEF TypeInv
<1>3. ASSUME NEW f \in Fds, Accept(f) PROVE TypeInv'
  <2>1. /\ Listener \in batch /\ Takes(Listener, "increment") /\ backlog' = backlog - 1
        /\ open' = open \union {f} /\ inbox' = [inbox EXCEPT ![f] = "none"]
        /\ bound' = [bound EXCEPT ![f] = TRUE] /\ response' = [response EXCEPT ![f] = FALSE]
        /\ armed' = [armed EXCEPT ![f] = "in"]
        /\ mload' = m_user_count /\ dropped' = dropped \ {f}
        /\ tainted' \subseteq tainted \union {f}
        /\ UNCHANGED <<clients, edge, m_workqueue, m_queuestat, m_user_count, wpc, wreq, wload>>
    BY <1>3 DEF Accept, Takes, ResetObject, queueVars, workerVars
  <2>2. miscount' \in BOOLEAN
    BY <1>3 DEF Accept, TypeInv, TypeOK
  <2>3. ListenInv' /\ backlog' \in 0..Backlog
    BY <2>1, TakesTypes, HttpAssumption DEF TypeInv, TypeOK, ListenInv, Arrived
  <2>4. bound' \in [Fds -> BOOLEAN] /\ response' \in [Fds -> BOOLEAN]
    BY <2>1 DEF TypeInv, TypeOK
  <2>5. /\ inbox' \in [Fds -> {"none", "data", "hup"}]
        /\ armed' \in [Fds -> {"none", "off", "in", "out"}]
    BY <2>1 DEF TypeInv, TypeOK
  <2>6. TypeOK'
    BY <2>1, <2>2, <2>3, <2>4, <2>5, TakesTypes DEF TypeInv, TypeOK
  <2>. QED
    BY <2>3, <2>6 DEF TypeInv
<1>. QED
  BY <1>1, <1>2, <1>3

(* An event of a connection. *)
LEMMA EventTypes ==
  ASSUME TypeInv, NEW e \in batch,
         HangUp(e) \/ ReadFails(e) \/ Read(e) \/ WriteGoesOn(e) \/ WriteEnds(e)
  PROVE  TypeInv'
<1>0. PICK f : f = e.fd
  OBVIOUS
<1>1. /\ e.kind \in {"hup", "in", "out"}
      /\ Takes(e, "next") \/ Takes(e, "decrement")
      /\ UNCHANGED <<clients, backlog, edge, m_user_count, wpc, wreq, wload, miscount>>
  BY DEF HangUp, ReadFails, Read, WriteGoesOn, WriteEnds, MainCloses, MainUnchanged, listenVars,
         workerVars, historyVars
<1>2. e # Listener /\ f \in Fds
  BY <1>0, <1>1 DEF Listener, TypeInv, TypeOK
<1>3. /\ batch' \subseteq {Listener} \union [fd : Fds, kind : {"hup", "in", "out"}]
      /\ mpc' \in {"wait", "dispatch", "increment", "decrement"}
      /\ mpc' = "wait" => batch' = {}
      /\ Listener \in batch' <=> Listener \in batch
  BY <1>1, <1>2, TakesTypes
<1>4. ListenInv'
  BY <1>1, <1>3 DEF TypeInv, ListenInv, Arrived
<1>5. /\ open' \subseteq Fds /\ inbox' \in [Fds -> {"none", "data", "hup"}]
      /\ armed' \in [Fds -> {"none", "off", "in", "out"}]
  BY <1>1 DEF HangUp, ReadFails, Read, WriteGoesOn, WriteEnds, MainCloses, RemoveFd, ModFd, kernelVars,
         TypeInv, TypeOK
<1>6. bound' \in [Fds -> BOOLEAN] /\ response' \in [Fds -> BOOLEAN]
  BY <1>1 DEF HangUp, ReadFails, Read, WriteGoesOn, WriteEnds, MainCloses, ResetObject, objectVars,
         TypeInv, TypeOK
<1>7. /\ m_workqueue' \in Seq(Fds) /\ Len(m_workqueue') <= m_max_requests + 1
      /\ m_queuestat' \in Nat
  <2>1. CASE UNCHANGED <<m_workqueue, m_queuestat>>
    BY <2>1 DEF TypeInv, TypeOK
  <2>2. CASE /\ Len(m_workqueue) <= m_max_requests
             /\ m_workqueue' = Append(m_workqueue, f) /\ m_queuestat' = m_queuestat + 1
    BY <1>2, <2>2, HttpAssumption DEF TypeInv, TypeOK
  <2>. QED
    BY <1>0, <1>1, <2>1, <2>2 DEF HangUp, ReadFails, Read, AppendRequest, WriteGoesOn, WriteEnds,
                                  MainCloses, queueVars
<1>8. /\ mload' \in Int /\ dropped' \subseteq Fds /\ tainted' \subseteq Fds
  BY <1>0, <1>1, <1>2 DEF HangUp, ReadFails, Read, AppendRequest, WriteGoesOn, WriteEnds, MainCloses,
                          RemoveFd, historyVars, TypeInv, TypeOK
<1>9. TypeOK'
  BY <1>1, <1>3, <1>5, <1>6, <1>7, <1>8 DEF TypeInv, TypeOK
<1>. QED
  BY <1>4, <1>9 DEF TypeInv

LEMMA WorkerTypes ==
  ASSUME TypeInv, NEW w \in Workers, Worker(w)
  PROVE  TypeInv'
<1>1. UNCHANGED <<clients, backlog, edge, mpc, batch, mload>>
  BY DEF Worker, SemWait, Pop, NeedMore, Respond, WorkerCloses, WorkerUnbinds, WorkerCounts, WorkerArms,
         WorkerUnchanged, listenVars, mainVars
<1>2. ListenInv'
  BY <1>1 DEF TypeInv, ListenInv, Arrived
<1>3. /\ open' \subseteq Fds /\ inbox' \in [Fds -> {"none", "data", "hup"}]
      /\ armed' \in [Fds -> {"none", "off", "in", "out"}]
  <2>0. /\ open \subseteq Fds /\ inbox \in [Fds -> {"none", "data", "hup"}]
        /\ armed \in [Fds -> {"none", "off", "in", "out"}]
    BY DEF TypeInv, TypeOK
  <2>1. CASE UNCHANGED <<open, inbox, armed>>
    BY <2>0, <2>1
  <2>2. CASE RemoveFd(wreq[w])
    BY <2>0, <2>2 DEF RemoveFd
  <2>3. CASE UNCHANGED <<open, inbox>> /\ \E ev \in {"in", "out"} : ModFd(wreq[w], ev)
    BY <2>0, <2>3 DEF ModFd
  <2>. QED
    BY <2>1, <2>2, <2>3 DEF Worker, SemWait, Pop, NeedMore, Respond, WorkerCloses, WorkerUnbinds,
                            WorkerCounts, WorkerArms, kernelVars
<1>4. bound' \in [Fds -> BOOLEAN] /\ response' \in [Fds -> BOOLEAN]
  BY DEF Worker, SemWait, Pop, NeedMore, Respond, WorkerCloses, WorkerUnbinds, WorkerCounts, WorkerArms,
         objectVars, TypeInv, TypeOK
<1>5. wpc' \in [Workers -> {"idle", "pop", "process", "unbind", "store", "modfd"}]
  BY DEF Worker, SemWait, Pop, NeedMore, Respond, WorkerCloses, WorkerUnbinds, WorkerCounts, WorkerArms,
         Goes, TypeInv, TypeOK
<1>6. /\ m_workqueue' \in Seq(Fds) /\ Len(m_workqueue') <= m_max_requests + 1
      /\ wreq' \in [Workers -> Fds \union {NoFd}]
  <2>1. CASE UNCHANGED m_workqueue /\ (wreq' = wreq \/ wreq' = [wreq EXCEPT ![w] = NoFd])
    BY <2>1 DEF TypeInv, TypeOK
  <2>2. CASE /\ m_workqueue # <<>> /\ m_workqueue' = Tail(m_workqueue)
             /\ wreq' = [wreq EXCEPT ![w] = Head(m_workqueue)]
    BY <2>2, HttpAssumption DEF TypeInv, TypeOK
  <2>. QED
    BY <2>1, <2>2 DEF Worker, SemWait, Pop, NeedMore, Respond, WorkerCloses, WorkerUnbinds, WorkerCounts,
                      WorkerArms, Done, queueVars
<1>7. /\ m_queuestat' \in Nat /\ dropped' \subseteq Fds /\ tainted' \subseteq Fds
  BY DEF Worker, SemWait, Pop, NeedMore, Respond, WorkerCloses, WorkerUnbinds, WorkerCounts, WorkerArms,
         RemoveFd, KeepsHistory, queueVars, TypeInv, TypeOK
<1>8. wload' \in [Workers -> Int] /\ m_user_count' \in Int /\ miscount' \in BOOLEAN
  <2>1. wload \in [Workers -> Int] /\ m_user_count \in Int /\ miscount \in BOOLEAN
    BY DEF TypeInv, TypeOK
  <2>2. CASE WorkerCounts(w)
    BY <2>1, <2>2, StoreTypes DEF WorkerCounts
  <2>3. CASE ~WorkerCounts(w)
    <3>1. UNCHANGED <<m_user_count, miscount>>
          /\ (wload' = wload \/ wload' = [wload EXCEPT ![w] = m_user_count])
      BY <2>3 DEF Worker, SemWait, Pop, NeedMore, Respond, WorkerCloses, WorkerUnbinds, WorkerArms
    <3>. QED
      BY <2>1, <3>1
  <2>. QED
    BY <2>2, <2>3
<1>9. TypeOK'
  BY <1>1, <1>3, <1>4, <1>5, <1>6, <1>7, <1>8 DEF TypeInv, TypeOK
<1>. QED
  BY <1>2, <1>9 DEF TypeInv

LEMMA ClientTypes ==
  ASSUME TypeInv, Environment \/ UNCHANGED vars
  PROVE  TypeInv'
<1>1. CASE ClientConnects
  <2>1. /\ clients < MaxClients /\ clients' = clients + 1
        /\ backlog < Backlog /\ backlog' = backlog + 1 /\ edge' = TRUE
        /\ UNCHANGED <<open, inbox, armed, bound, response, m_workqueue, m_queuestat, m_user_count,
                       mpc, batch, mload, wpc, wreq, wload, dropped, tainted, miscount>>
    BY <1>1 DEF ClientConnects, kernelVars, objectVars, queueVars, mainVars, workerVars, historyVars
  <2>2. clients' \in 0..MaxClients /\ backlog' \in 0..Backlog
    BY <2>1, HttpAssumption DEF TypeInv, TypeOK
  <2>3. TypeOK'
    BY <2>1, <2>2 DEF TypeInv, TypeOK
  <2>4. ListenInv'
    BY <2>1 DEF TypeInv, TypeOK, ListenInv, Arrived
  <2>. QED
    BY <2>3, <2>4 DEF TypeInv
<1>2. CASE UNCHANGED vars \/ \E f \in Fds : ClientActs(f, "data") \/ ClientActs(f, "hup")
  <2>1. UNCHANGED <<open, armed, clients, backlog, edge, bound, response, m_workqueue, m_queuestat,
                    m_user_count, mpc, batch, mload, wpc, wreq, wload, dropped, tainted, miscount>>
    BY <1>2 DEF ClientActs, vars, kernelVars, listenVars, objectVars, queueVars, mainVars, workerVars,
                historyVars
  <2>2. inbox' \in [Fds -> {"none", "data", "hup"}]
    BY <1>2 DEF ClientActs, vars, kernelVars, TypeInv, TypeOK
  <2>3. TypeOK'
    BY <2>1, <2>2 DEF TypeInv, TypeOK
  <2>4. ListenInv'
    BY <2>1 DEF TypeInv, ListenInv, Arrived
  <2>. QED
    BY <2>3, <2>4 DEF TypeInv
<1>. QED
  BY <1>1, <1>2 DEF Environment

(* Every variable keeps its type: in particular, accept is called only where a  *)
(* connection waits, although the listening socket reports arrivals and not     *)
(* their number (main.cpp:106-122).                                             *)
THEOREM TypesCorrect == Spec => []TypeOK
<1>1. Init => TypeInv
  BY InitTypes
<1>2. TypeInv /\ [Next]_vars => TypeInv'
  BY WaitTypes, ListenTypes, EventTypes, WorkerTypes, ClientTypes DEF Next, Main
<1>3. TypeInv => TypeOK
  BY DEF TypeInv
<1>. QED
  BY <1>1, <1>2, <1>3, PTL DEF Spec
=============================================================================
