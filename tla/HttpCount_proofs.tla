-------------------------- MODULE HttpCount_proofs --------------------------
(***************************************************************************)
(* Theorem about the web server: m_user_count, which main and workers      *)
(* change without a lock, counts the open connections as long as no two    *)
(* changes overlap, for any number of workers, descriptors and clients.    *)
(***************************************************************************)
EXTENDS HttpHolders_proofs

(* The connections that were closed and are still counted, less the one that *)
(* was opened and is not counted yet.                                        *)
Closing == {w \in Workers : wpc[w] \in {"unbind", "store"}}
Balance == Cardinality(Closing)
             + (IF mpc = "decrement" THEN 1 ELSE IF mpc = "increment" THEN 0 - 1 ELSE 0)

Counted == m_user_count = Cardinality(open) + Balance

(* Whoever is about to act on a connection finds it open. *)
UsedAreOpen ==
  /\ \A e \in batch : e # Listener => e.fd \in open
  /\ \A n \in DOMAIN m_workqueue : m_workqueue[n] \in open
  /\ \A w \in Workers : wpc[w] = "process" => wreq[w] \in open

Right == tainted = {} /\ UsedAreOpen /\ Counted

CountInv == HolderInv /\ (miscount \/ Right)

-----------------------------------------------------------------------------
LEMMA CountFinite ==
  ASSUME HolderTypes
  PROVE  /\ IsFiniteSet(open) /\ Cardinality(open) \in Nat
         /\ IsFiniteSet(Closing) /\ Cardinality(Closing) \in Nat
<1>1. open \subseteq Fds /\ Closing \subseteq Workers
  BY DEF HolderTypes, Closing
<1>. QED
  BY <1>1, HttpAssumption, FS_Subset, FS_CardinalityType

LEMMA InitCount == Init => CountInv
<1> SUFFICES ASSUME Init PROVE CountInv
  OBVIOUS
<1>1. tainted = {} /\ UsedAreOpen
  BY DEF Init, UsedAreOpen
<1>2. open = {} /\ Closing = {} /\ mpc = "wait" /\ m_user_count = 0
  BY DEF Init, Closing
<1>3. Counted
  BY <1>2, FS_EmptySet DEF Counted, Balance
<1>. QED
  BY <1>1, <1>3, InitHolder DEF CountInv, Right

LEMMA CountExact == CountInv => UserCountExact
<1> SUFFICES ASSUME CountInv, mpc \in {"wait", "dispatch"}, ~miscount,
                    \A w \in Workers : wpc[w] \notin {"unbind", "store"}
             PROVE  m_user_count = Cardinality(open)
  BY DEF UserCountExact
<1>1. Counted
  BY DEF CountInv, Right
<1>2. Closing = {}
  BY DEF Closing
<1>. QED
  BY <1>1, <1>2, CountFinite, FS_EmptySet DEF CountInv, HolderInv, Counted, Balance

(* A step that opens, closes and counts nothing. *)
LEMMA QuietCount ==
  ASSUME Right, UNCHANGED <<open, tainted, m_user_count>>, UsedAreOpen',
         mpc' = mpc \/ {mpc, mpc'} \subseteq {"wait", "dispatch"},
         Closing' = Closing
  PROVE  Right'
<1>1. Balance' = Balance
  BY DEF Balance
<1>. QED
  BY <1>1 DEF Right, Counted

(* The value that was loaded is still the count, or the count goes wrong. *)
LEMMA StoreFacts ==
  ASSUME NEW loaded, NEW delta, StoreCount(loaded, delta), ~miscount'
  PROVE  ~miscount /\ m_user_count' = m_user_count + delta
BY DEF StoreCount

-----------------------------------------------------------------------------
(* Main.                                                                     *)

LEMMA WaitCount ==
  ASSUME HolderInv, Right, EpollWait
  PROVE  Right'
<1>1. /\ UNCHANGED <<open, tainted, m_user_count, m_workqueue, wpc, wreq>>
      /\ mpc = "wait" /\ mpc' = "dispatch"
      /\ batch' = (UNION {{[fd |-> f, kind |-> k] : k \in Kinds(f)} : f \in Fds})
                    \union (IF edge THEN {Listener} ELSE {})
  BY DEF EpollWait, queueVars, workerVars, historyVars
<1>2. ASSUME NEW e \in batch', e # Listener PROVE e.fd \in open'
  <2>1. e \in UNION {{[fd |-> f, kind |-> k] : k \in Kinds(f)} : f \in Fds}
    <3>1. CASE edge
      BY <1>1, <1>2, <3>1
    <3>2. CASE ~edge
      BY <1>1, <1>2, <3>2
    <3>. QED
      BY <3>1, <3>2
  <2>2. PICK f \in Fds : e \in {[fd |-> f, kind |-> k] : k \in Kinds(f)}
    BY <2>1
  <2>3. e.fd = f /\ Kinds(f) # {}
    BY <2>2
  <2>4. armed[f] # "none"
    BY <2>3 DEF Kinds
  <2>. QED
    BY <1>1, <2>3, <2>4 DEF HolderInv, Orderly
<1>3. UsedAreOpen'
  BY <1>1, <1>2 DEF Right, UsedAreOpen
<1>4. Closing' = Closing
  BY <1>1 DEF Closing
<1>. QED
  BY <1>1, <1>3, <1>4, QuietCount

LEMMA AcceptCount ==
  ASSUME HolderInv, Right, NEW f \in Fds, Accept(f), ~miscount'
  PROVE  ~miscount /\ Right'
<1>1. /\ UNCHANGED <<m_user_count, m_workqueue, wpc, wreq>>
      /\ mpc = "dispatch" /\ mpc' = "increment" /\ batch' \subseteq batch
      /\ f \notin open /\ open' = open \union {f}
  BY DEF Accept, Takes, queueVars, workerVars
<1>2. ~InUse(f) /\ tainted' = tainted /\ ~miscount
  BY DEF Accept
<1>3. UsedAreOpen'
  BY <1>1 DEF Right, UsedAreOpen
<1>4. Cardinality(open') = Cardinality(open) + 1
  BY <1>1, CountFinite, FS_AddElement DEF HolderInv
<1>5. Closing' = Closing
  BY <1>1 DEF Closing
<1>6. Counted'
  <2>1. m_user_count = Cardinality(open) + Cardinality(Closing)
    BY <1>1, CountFinite DEF Right, Counted, Balance, HolderInv
  <2>2. Balance' = Cardinality(Closing) - 1
    BY <1>1, <1>5, CountFinite DEF Balance, HolderInv
  <2>. QED
    BY <1>1, <1>4, <2>1, <2>2, CountFinite DEF Counted, HolderInv
<1>. QED
  BY <1>2, <1>3, <1>6 DEF Right

LEMMA MainCountsCount ==
  ASSUME HolderInv, Right, MainCounts, ~miscount'
  PROVE  ~miscount /\ Right'
<1>1. /\ UNCHANGED <<open, tainted, batch, m_workqueue, wpc, wreq>>
      /\ mpc' \in {"wait", "dispatch"}
  BY DEF MainCounts, kernelVars, queueVars, workerVars
<1>2. /\ ~miscount
      /\ \/ mpc = "increment" /\ m_user_count' = m_user_count + 1
         \/ mpc = "decrement" /\ m_user_count' = m_user_count + (-1)
  BY StoreFacts DEF MainCounts
<1>3. UsedAreOpen' /\ Closing' = Closing
  BY <1>1 DEF Right, UsedAreOpen, Closing
<1>4. Counted'
  <2>1. Balance' = Cardinality(Closing)
    BY <1>1, <1>3, CountFinite DEF Balance, HolderInv
  <2>. QED
    BY <1>1, <1>2, <2>1, CountFinite DEF Right, Counted, Balance, HolderInv
<1>. QED
  BY <1>1, <1>2, <1>3, <1>4 DEF Right

LEMMA MainClosesCount ==
  ASSUME HolderInv, Right, NEW e \in batch, e.kind \in {"hup", "in", "out"}, MainCloses(e)
  PROVE  Right'
<1> DEFINE f == e.fd
<1>0. f \in open \ tainted
  <2>1. e # Listener
    BY DEF Listener
  <2>. QED
    BY <2>1 DEF Right, UsedAreOpen
<1>1. /\ bound[f] /\ batch' = batch \ {e}
      /\ \A n \in DOMAIN m_workqueue : m_workqueue[n] # f
      /\ \A w \in Workers : wreq[w] # f
      /\ {d \in batch \ {e} : d.fd = f} = {}
  BY <1>0, MainAlone DEF MainCloses, Takes
<1>2. /\ UNCHANGED <<m_user_count, m_workqueue, wpc, wreq>>
      /\ mpc = "dispatch" /\ mpc' = "decrement"
      /\ open' = open \ {f} /\ tainted' = tainted \ {f}
  BY <1>1 DEF MainCloses, Takes, RemoveFd, MainUnchanged, queueVars, workerVars
<1>3. UsedAreOpen'
  BY <1>1, <1>2 DEF Right, UsedAreOpen
<1>4. Cardinality(open') = Cardinality(open) - 1
  BY <1>0, <1>2, CountFinite, FS_RemoveElement DEF HolderInv
<1>5. Closing' = Closing
  BY <1>2 DEF Closing
<1>6. Counted'
  <2>1. m_user_count = Cardinality(open) + Cardinality(Closing)
    BY <1>2, CountFinite DEF Right, Counted, Balance, HolderInv
  <2>2. Balance' = Cardinality(Closing) + 1
    BY <1>2, <1>5, CountFinite DEF Balance, HolderInv
  <2>. QED
    BY <1>2, <1>4, <2>1, <2>2, CountFinite DEF Counted, HolderInv
<1>. QED
  BY <1>2, <1>3, <1>6 DEF Right

(* The other steps of main take an event and may queue its connection. *)
LEMMA MainOnCount ==
  ASSUME HolderInv, Right,
         AcceptNone \/ \E e \in batch : Read(e) \/ WriteGoesOn(e)
  PROVE  Right'
<1>1. /\ UNCHANGED <<open, tainted, m_user_count, wpc, wreq>>
      /\ mpc = "dispatch" /\ mpc' \in {"wait", "dispatch"} /\ batch' \subseteq batch
  BY DEF AcceptNone, Read, WriteGoesOn, Takes, MainUnchanged, kernelVars, workerVars, historyVars
<1>2. \A n \in DOMAIN m_workqueue' : m_workqueue'[n] \in open
  <2>1. CASE m_workqueue' = m_workqueue
    BY <2>1 DEF Right, UsedAreOpen
  <2>2. CASE \E e \in batch : Read(e)
    <3>1. PICK e \in batch : Read(e)
      BY <2>2
    <3>2. e.fd \in open
      BY <3>1 DEF Read, Listener, Right, UsedAreOpen
    <3>3. m_workqueue \in Seq(Fds) /\ e.fd \in Fds
      BY <3>2 DEF HolderInv, HolderTypes
    <3>4. m_workqueue' = m_workqueue \/ m_workqueue' = Append(m_workqueue, e.fd)
      BY <3>1 DEF Read, AppendRequest, queueVars
    <3>. QED
      BY <3>2, <3>3, <3>4 DEF Right, UsedAreOpen
  <2>. QED
    BY <2>1, <2>2 DEF AcceptNone, WriteGoesOn, queueVars
<1>3. UsedAreOpen'
  BY <1>1, <1>2 DEF Right, UsedAreOpen
<1>4. Closing' = Closing
  BY <1>1 DEF Closing
<1>. QED
  BY <1>1, <1>3, <1>4, QuietCount

-----------------------------------------------------------------------------
(* Workers.                                                                  *)

LEMMA TakeWorkCount ==
  ASSUME HolderInv, Right, NEW w \in Workers, SemWait(w) \/ Pop(w)
  PROVE  Right'
<1>1. /\ UNCHANGED <<open, tainted, m_user_count, batch, mpc>>
      /\ wpc[w] \in {"idle", "pop"} /\ m_workqueue \in Seq(Fds)
      /\ wpc \in [Workers -> {"idle", "pop", "process", "unbind", "store", "modfd"}]
      /\ wreq \in [Workers -> Fds \union {NoFd}]
  BY DEF SemWait, Pop, Goes, WorkerUnchanged, KeepsHistory, kernelVars, mainVars, HolderInv, HolderTypes
<1>2. \/ /\ UNCHANGED <<m_workqueue, wreq>>
         /\ wpc' = [wpc EXCEPT ![w] = "pop"] \/ wpc' = [wpc EXCEPT ![w] = "idle"]
      \/ /\ m_workqueue # <<>> /\ m_workqueue' = Tail(m_workqueue)
         /\ wpc' = [wpc EXCEPT ![w] = "process"]
         /\ wreq' = [wreq EXCEPT ![w] = Head(m_workqueue)]
  BY DEF SemWait, Pop, Goes
<1>3. UsedAreOpen'
  <2>1. CASE UNCHANGED <<m_workqueue, wreq>>
               /\ (wpc' = [wpc EXCEPT ![w] = "pop"] \/ wpc' = [wpc EXCEPT ![w] = "idle"])
    BY <1>1, <2>1 DEF Right, UsedAreOpen
  <2>2. CASE /\ m_workqueue # <<>> /\ m_workqueue' = Tail(m_workqueue)
             /\ wpc' = [wpc EXCEPT ![w] = "process"]
             /\ wreq' = [wreq EXCEPT ![w] = Head(m_workqueue)]
    <3>1. \A n \in DOMAIN m_workqueue : m_workqueue[n] \in open
      BY DEF Right, UsedAreOpen
    <3>2. Head(m_workqueue) \in open
      BY <1>1, <2>2, <3>1
    <3>3. \A n \in DOMAIN m_workqueue' : m_workqueue'[n] \in open
      BY <1>1, <2>2, <3>1
    <3>. QED
      BY <1>1, <2>2, <3>2, <3>3 DEF Right, UsedAreOpen
  <2>. QED
    BY <1>2, <2>1, <2>2
<1>4. Closing' = Closing
  BY <1>1, <1>2 DEF Closing
<1>. QED
  BY <1>1, <1>3, <1>4, QuietCount

LEMMA ArmsCount ==
  ASSUME HolderInv, Right, NEW w \in Workers, NeedMore(w) \/ Respond(w) \/ WorkerArms(w)
  PROVE  Right'
<1>1. /\ UNCHANGED <<open, tainted, m_user_count, batch, mpc, m_workqueue>>
      /\ wpc[w] \in {"process", "modfd"} /\ wpc' = [wpc EXCEPT ![w] = "idle"]
      /\ wreq' = [wreq EXCEPT ![w] = NoFd]
      /\ wpc \in [Workers -> {"idle", "pop", "process", "unbind", "store", "modfd"}]
      /\ wreq \in [Workers -> Fds \union {NoFd}]
  BY DEF NeedMore, Respond, WorkerArms, Goes, Done, WorkerUnchanged, KeepsHistory, mainVars,
         queueVars, HolderInv, HolderTypes
<1>2. UsedAreOpen'
  BY <1>1 DEF Right, UsedAreOpen
<1>3. Closing' = Closing
  BY <1>1 DEF Closing
<1>. QED
  BY <1>1, <1>2, <1>3, QuietCount

(* Closing a connection leaves it counted, until the worker stores the count. *)
LEMMA WorkerClosesCount ==
  ASSUME HolderInv, Right, NEW w \in Workers, WorkerCloses(w)
  PROVE  Right'
<1>0. PICK f : f = wreq[w]
  OBVIOUS
<1>1. f \in open \ tainted /\ wpc[w] = "process"
  BY <1>0 DEF WorkerCloses, Goes, Right, UsedAreOpen
<1>2. /\ bound[f]
      /\ \A e \in batch : e.fd # f
      /\ \A n \in DOMAIN m_workqueue : m_workqueue[n] # f
      /\ \A v \in Workers : v # w => wreq[v] # f
  BY <1>0, <1>1, WorkerAlone
<1>3. /\ UNCHANGED <<m_user_count, m_workqueue, wreq, batch, mpc>>
      /\ wpc' = [wpc EXCEPT ![w] = "unbind"]
      /\ open' = open \ {f} /\ tainted' = tainted \ {f}
      /\ wpc \in [Workers -> {"idle", "pop", "process", "unbind", "store", "modfd"}]
  BY <1>0, <1>2 DEF WorkerCloses, Goes, RemoveFd, WorkerUnchanged, queueVars, mainVars,
                    HolderInv, HolderTypes
<1>4. UsedAreOpen'
  BY <1>0, <1>2, <1>3 DEF Right, UsedAreOpen
<1>5. Cardinality(open') = Cardinality(open) - 1
  BY <1>1, <1>3, CountFinite, FS_RemoveElement DEF HolderInv
<1>6. Cardinality(Closing') = Cardinality(Closing) + 1
  <2>1. Closing' = Closing \union {w} /\ w \notin Closing
    BY <1>1, <1>3 DEF Closing
  <2>. QED
    BY <2>1, CountFinite, FS_AddElement DEF HolderInv
<1>7. Counted'
  BY <1>3, <1>5, <1>6, CountFinite DEF Right, Counted, Balance, HolderInv
<1>. QED
  BY <1>3, <1>4, <1>7 DEF Right

LEMMA WorkerUnbindsCount ==
  ASSUME HolderInv, Right, NEW w \in Workers, WorkerUnbinds(w)
  PROVE  Right'
<1>1. /\ UNCHANGED <<open, tainted, m_user_count, m_workqueue, wreq, batch, mpc>>
      /\ wpc[w] = "unbind" /\ wpc' = [wpc EXCEPT ![w] = "store"]
      /\ wpc \in [Workers -> {"idle", "pop", "process", "unbind", "store", "modfd"}]
  BY DEF WorkerUnbinds, Goes, WorkerUnchanged, KeepsHistory, kernelVars, queueVars, mainVars,
         HolderInv, HolderTypes
<1>2. UsedAreOpen'
  BY <1>1 DEF Right, UsedAreOpen
<1>3. Closing' = Closing
  BY <1>1 DEF Closing
<1>. QED
  BY <1>1, <1>2, <1>3, QuietCount

LEMMA WorkerCountsCount ==
  ASSUME HolderInv, Right, NEW w \in Workers, WorkerCounts(w), ~miscount'
  PROVE  ~miscount /\ Right'
<1>1. /\ UNCHANGED <<open, tainted, m_workqueue, wreq, batch, mpc>>
      /\ wpc[w] = "store" /\ wpc' = [wpc EXCEPT ![w] = "modfd"]
      /\ wpc \in [Workers -> {"idle", "pop", "process", "unbind", "store", "modfd"}]
  BY DEF WorkerCounts, Goes, WorkerUnchanged, KeepsHistory, kernelVars, queueVars, mainVars,
         HolderInv, HolderTypes
<1>2. ~miscount /\ m_user_count' = m_user_count + (-1)
  BY StoreFacts DEF WorkerCounts
<1>3. UsedAreOpen'
  BY <1>1 DEF Right, UsedAreOpen
<1>4. Cardinality(Closing') = Cardinality(Closing) - 1
  <2>1. Closing' = Closing \ {w} /\ w \in Closing
    BY <1>1 DEF Closing
  <2>. QED
    BY <2>1, CountFinite, FS_RemoveElement DEF HolderInv
<1>5. Counted'
  BY <1>1, <1>2, <1>4, CountFinite DEF Right, Counted, Balance, HolderInv
<1>. QED
  BY <1>1, <1>2, <1>3, <1>5 DEF Right

-----------------------------------------------------------------------------
(* A count that is wrong is not trusted again. *)
LEMMA MiscountStays == [Next]_vars /\ miscount => miscount'
<1> SUFFICES ASSUME [Next]_vars, miscount PROVE miscount'
  OBVIOUS
<1>1. CASE Main
  BY <1>1 DEF Main, EpollWait, AcceptNone, MainCounts, StoreCount, Accept, HangUp, ReadFails, Read,
              WriteGoesOn, WriteEnds, MainCloses, historyVars
<1>2. CASE \E w \in Workers : Worker(w)
  BY <1>2 DEF Worker, SemWait, Pop, NeedMore, Respond, WorkerCloses, WorkerUnbinds, WorkerCounts,
              StoreCount, WorkerArms
<1>3. CASE Environment \/ UNCHANGED vars
  BY <1>3 DEF Environment, ClientConnects, ClientActs, vars, historyVars
<1>. QED
  BY <1>1, <1>2, <1>3 DEF Next

LEMMA StepCount == CountInv /\ [Next]_vars => CountInv'
<1> SUFFICES ASSUME CountInv, [Next]_vars PROVE CountInv'
  OBVIOUS
<1>1. HolderInv'
  BY StepHolder DEF CountInv
<1>2. SUFFICES ASSUME ~miscount' PROVE Right'
  BY <1>1 DEF CountInv
<1>3. HolderInv /\ Right
  BY <1>2, MiscountStays DEF CountInv
<1>4. CASE Main
  <2>1. CASE EpollWait
    BY <1>3, <2>1, WaitCount
  <2>2. CASE \E f \in Fds : Accept(f)
    BY <1>2, <1>3, <2>2, AcceptCount
  <2>3. CASE MainCounts
    BY <1>2, <1>3, <2>3, MainCountsCount
  <2>4. CASE \E e \in batch : HangUp(e) \/ ReadFails(e) \/ WriteEnds(e)
    BY <1>3, <2>4, MainClosesCount DEF HangUp, ReadFails, WriteEnds
  <2>5. CASE AcceptNone \/ \E e \in batch : Read(e) \/ WriteGoesOn(e)
    BY <1>3, <2>5, MainOnCount
  <2>. QED
    BY <1>4, <2>1, <2>2, <2>3, <2>4, <2>5 DEF Main
<1>5. ASSUME NEW w \in Workers, Worker(w) PROVE Right'
  <2>1. CASE SemWait(w) \/ Pop(w)
    BY <1>3, <2>1, TakeWorkCount
  <2>2. CASE NeedMore(w) \/ Respond(w) \/ WorkerArms(w)
    BY <1>3, <2>2, ArmsCount
  <2>3. CASE WorkerCloses(w)
    BY <1>3, <2>3, WorkerClosesCount
  <2>4. CASE WorkerUnbinds(w)
    BY <1>3, <2>4, WorkerUnbindsCount
  <2>5. CASE WorkerCounts(w)
    BY <1>2, <1>3, <2>5, WorkerCountsCount
  <2>. QED
    BY <1>5, <2>1, <2>2, <2>3, <2>4, <2>5 DEF Worker
<1>6. CASE Environment \/ UNCHANGED vars
  <2>1. UNCHANGED <<open, tainted, m_user_count, batch, mpc, m_workqueue, wpc, wreq>>
    BY <1>6 DEF Environment, ClientConnects, ClientActs, vars, kernelVars, queueVars, mainVars,
                workerVars, historyVars
  <2>2. UsedAreOpen' /\ Closing' = Closing
    BY <1>3, <2>1 DEF Right, UsedAreOpen, Closing
  <2>. QED
    BY <1>3, <2>1, <2>2, QuietCount
<1>. QED
  BY <1>4, <1>5, <1>6 DEF Next

(* While nobody is updating it, m_user_count is the number of open connections, *)
(* unless two threads have updated it at the same time                          *)
(* (http_conn.cpp:59, 73; main.cpp:116).                                        *)
THEOREM CountCorrect == Spec => []UserCountExact
<1>1. Init => CountInv
  BY InitCount
<1>2. CountInv /\ [Next]_vars => CountInv'
  BY StepCount
<1>3. CountInv => UserCountExact
  BY CountExact
<1>. QED
  BY <1>1, <1>2, <1>3, PTL DEF Spec
=============================================================================
