-------------------------- MODULE HttpHolders_proofs --------------------------
(***************************************************************************)
(* Theorem about the web server: an open connection is in exactly one      *)
(* place, for any number of workers, descriptors and clients, except where *)
(* close_conn gave its descriptor back too early.                          *)
(***************************************************************************)
EXTENDS HttpServer, FiniteSetTheorems, TLAPS

Event == [fd : Fds, kind : {"hup", "in", "out"}]

(* The types the argument needs; events exist only while main handles them, a   *)
(* worker has a request exactly from pop to the end of process, and epoll knows *)
(* the open connections.                                                        *)
HolderTypes ==
  /\ open \subseteq Fds /\ armed \in [Fds -> {"none", "off", "in", "out"}]
  /\ bound \in [Fds -> BOOLEAN] /\ m_workqueue \in Seq(Fds)
  /\ mpc \in {"wait", "dispatch", "increment", "decrement"}
  /\ batch \subseteq Event \union {Listener}
  /\ wpc \in [Workers -> {"idle", "pop", "process", "unbind", "store", "modfd"}]
  /\ wreq \in [Workers -> Fds \union {NoFd}]

Orderly ==
  /\ mpc = "wait" => batch = {}
  /\ \A w \in Workers : wpc[w] \in {"idle", "pop"} <=> wreq[w] = NoFd
  /\ \A f \in Fds : f \in open <=> armed[f] # "none"

(* OneHolder of one descriptor, without counting. No worker that has closed the *)
(* connection has still to come back to it.                                     *)
Held(f) ==
  f \in open \ tainted =>
    /\ bound[f]
    /\ \A w \in Workers : wreq[w] = f => wpc[w] = "process"
    /\ f \in dropped => Holders(f) = {}
    /\ f \notin dropped => \E h : Holders(f) = {h}

HolderInv == HolderTypes /\ Orderly /\ \A f \in Fds : Held(f)

-----------------------------------------------------------------------------
(* The members of Holders, in a state and in the next one.                   *)

Holds(f, h) ==
  \/ armed[f] \in {"in", "out"} /\ h = <<"epoll", f>>
  \/ \E e \in batch : e.fd = f /\ h = <<"main", e.kind>>
  \/ \E n \in DOMAIN m_workqueue : m_workqueue[n] = f /\ h = <<"queue", n>>
  \/ \E w \in Workers : wreq[w] = f /\ wpc[w] = "process" /\ h = <<"worker", w>>

LEMMA HoldersHold ==
  ASSUME NEW f
  PROVE  /\ \A h : h \in Holders(f) <=> Holds(f, h)
         /\ \A h : h \in Holders(f)' <=> Holds(f, h)'
BY DEF Holders, Holds

(* A step that is not about f keeps its holders. *)
LEMMA HeldFrame ==
  ASSUME NEW f \in Fds, Held(f),
         f \in open' => f \in open,
         f \in tainted => f \in tainted',
         bound[f] => bound'[f],
         f \in dropped' <=> f \in dropped,
         armed'[f] \in {"in", "out"} <=> armed[f] \in {"in", "out"},
         {e \in batch' : e.fd = f} = {e \in batch : e.fd = f},
         {n \in DOMAIN m_workqueue' : m_workqueue'[n] = f}
           = {n \in DOMAIN m_workqueue : m_workqueue[n] = f},
         \A w \in Workers : /\ wreq'[w] = f <=> wreq[w] = f
                            /\ wreq[w] = f => wpc'[w] = wpc[w]
  PROVE  Held(f)'
<1>1. {w \in Workers : wreq'[w] = f /\ wpc'[w] = "process"}
        = {w \in Workers : wreq[w] = f /\ wpc[w] = "process"}
  OBVIOUS
<1>2. {armed'[f]} \intersect {"in", "out"} = {} <=> {armed[f]} \intersect {"in", "out"} = {}
  OBVIOUS
<1>3. {<<"epoll", f>> : x \in {armed'[f]} \intersect {"in", "out"}}
        = {<<"epoll", f>> : x \in {armed[f]} \intersect {"in", "out"}}
  BY <1>2
<1>4. Holders(f)' = Holders(f)
  BY <1>1, <1>3 DEF Holders
<1>. QED
  BY <1>4 DEF Held

LEMMA InitHolder == Init => HolderInv
<1> SUFFICES ASSUME Init PROVE HolderInv
  OBVIOUS
<1>1. HolderTypes
  BY DEF Init, HolderTypes
<1>2. Orderly
  BY DEF Init, Orderly
<1>. QED
  BY <1>1, <1>2 DEF HolderInv, Held, Init

(* OneHolder counts what Held says. *)
LEMMA HeldCounts == HolderInv => OneHolder
<1> SUFFICES ASSUME HolderInv, NEW f \in open \ tainted
             PROVE  /\ bound[f]
                    /\ Cardinality(Holders(f)) = IF f \in dropped THEN 0 ELSE 1
  BY DEF OneHolder
<1>1. Held(f) /\ f \in Fds
  BY DEF HolderInv, HolderTypes
<1>2. CASE f \in dropped
  BY <1>1, <1>2, FS_EmptySet DEF Held
<1>3. CASE f \notin dropped
  BY <1>1, <1>3, FS_Singleton DEF Held
<1>. QED
  BY <1>1, <1>2, <1>3 DEF Held

-----------------------------------------------------------------------------
(* Main.                                                                     *)

(* Taking an event leaves the events of other descriptors. *)
LEMMA TakesFacts ==
  ASSUME HolderTypes, Orderly, NEW e \in batch, NEW then \in {"next", "increment", "decrement"},
         Takes(e, then)
  PROVE  /\ batch' = batch \ {e} /\ batch' \subseteq Event \union {Listener}
         /\ mpc' \in {"wait", "dispatch", "increment", "decrement"}
         /\ mpc' = "wait" => batch' = {}
         /\ \A f \in Fds : f # e.fd => {d \in batch' : d.fd = f} = {d \in batch : d.fd = f}
<1>1. batch' = batch \ {e} /\ mpc' = IF then = "next" THEN (IF batch' = {} THEN "wait" ELSE "dispatch") ELSE then
  BY DEF Takes
<1>. QED
  BY <1>1 DEF HolderTypes

(* The events of a descriptor that holds one of them only. *)
LEMMA OneEvent ==
  ASSUME HolderInv, NEW e \in batch, e.fd \in open \ tainted
  PROVE  /\ e.fd \notin dropped /\ Holders(e.fd) = {<<"main", e.kind>>}
         /\ {d \in batch \ {e} : d.fd = e.fd} = {}
<1>1. Held(e.fd) /\ e \in Event /\ e.fd \in Fds
  BY HttpAssumption DEF HolderInv, HolderTypes, Listener
<1>2. <<"main", e.kind>> \in Holders(e.fd)
  BY HoldersHold DEF Holds
<1>3. e.fd \notin dropped /\ Holders(e.fd) = {<<"main", e.kind>>}
  BY <1>1, <1>2 DEF Held
<1>4. ASSUME NEW d \in batch, d # e PROVE d.fd # e.fd
  <2> SUFFICES ASSUME d.fd = e.fd PROVE FALSE
    OBVIOUS
  <2>1. d \in Event
    BY <1>1, HttpAssumption DEF HolderInv, HolderTypes, Listener
  <2>2. <<"main", d.kind>> \in Holders(e.fd)
    BY HoldersHold DEF Holds
  <2>3. d.kind = e.kind
    BY <1>3, <2>2
  <2>. QED
    BY <1>1, <1>4, <2>1, <2>3 DEF Event
<1>. QED
  BY <1>3, <1>4

(* What epoll_wait reports. *)
LEMMA WaitEvents ==
  ASSUME EpollWait
  PROVE  \A e : e \in batch' <=> \/ \E f \in Fds : \E k \in Kinds(f) : e = [fd |-> f, kind |-> k]
                                 \/ edge /\ e = Listener
<1>1. batch' = (UNION {{[fd |-> f, kind |-> k] : k \in Kinds(f)} : f \in Fds})
                 \union (IF edge THEN {Listener} ELSE {})
  BY DEF EpollWait
<1>2. \A e : e \in UNION {{[fd |-> f, kind |-> k] : k \in Kinds(f)} : f \in Fds}
              <=> \E f \in Fds : \E k \in Kinds(f) : e = [fd |-> f, kind |-> k]
  <2> DEFINE Of(f) == {[fd |-> f, kind |-> k] : k \in Kinds(f)}
  <2>1. \A f, e : e \in Of(f) <=> \E k \in Kinds(f) : e = [fd |-> f, kind |-> k]
    OBVIOUS
  <2> HIDE DEF Of
  <2>2. \A e : e \in UNION {Of(f) : f \in Fds} <=> \E f \in Fds : e \in Of(f)
    OBVIOUS
  <2>3. \A e : e \in UNION {Of(f) : f \in Fds}
                 <=> \E f \in Fds : \E k \in Kinds(f) : e = [fd |-> f, kind |-> k]
    BY <2>1, <2>2
  <2>. QED
    BY <2>3 DEF Of
<1>3. CASE edge
  BY <1>1, <1>2, <1>3
<1>4. CASE ~edge
  BY <1>1, <1>2, <1>4
<1>. QED
  BY <1>3, <1>4

(* epoll_wait: a ready descriptor goes from epoll to main. *)
LEMMA WaitHolder ==
  ASSUME HolderInv, EpollWait
  PROVE  HolderInv'
<1>1. mpc = "wait" /\ batch = {} /\ mpc' = "dispatch"
      /\ armed' = [f \in Fds |-> IF Kinds(f) = {} THEN armed[f] ELSE "off"]
      /\ UNCHANGED <<open, bound, m_workqueue, wpc, wreq, dropped, tainted>>
  BY DEF EpollWait, HolderInv, Orderly, objectVars, queueVars, workerVars, historyVars
<1>2. \A e : e \in batch' <=> \/ \E f \in Fds : \E k \in Kinds(f) : e = [fd |-> f, kind |-> k]
                              \/ edge /\ e = Listener
  BY WaitEvents
<1>3. \A f \in Fds : /\ Kinds(f) \subseteq {"hup", "in", "out"}
                     /\ Kinds(f) # {} => armed[f] \in {"in", "out"} /\ \E k : Kinds(f) = {k}
  BY DEF Kinds
<1>4. HolderTypes'
  <2>1. batch' \subseteq Event \union {Listener}
    BY <1>2, <1>3 DEF Event
  <2>. QED
    BY <1>1, <2>1 DEF HolderInv, HolderTypes
<1>5. Orderly'
  BY <1>1, <1>3 DEF HolderInv, HolderTypes, Orderly
<1>6. ASSUME NEW f \in Fds PROVE Held(f)'
  <2>1. \A e \in batch' : e.fd = f <=> \E k \in Kinds(f) : e = [fd |-> f, kind |-> k]
    <3>1. Listener.fd # f
      BY HttpAssumption DEF Listener
    <3>. QED
      BY <1>2, <3>1
  <2>2. CASE Kinds(f) = {}
    <3>1. {e \in batch' : e.fd = f} = {e \in batch : e.fd = f}
      BY <1>1, <2>1, <2>2
    <3>. QED
      BY <1>1, <2>2, <3>1, HeldFrame DEF HolderInv
  <2>3. CASE Kinds(f) # {} /\ f \in open \ tainted
    <3>1. PICK k : Kinds(f) = {k}
      BY <1>3, <2>3
    <3>2. <<"epoll", f>> \in Holders(f)
      BY <1>3, <2>3, HoldersHold DEF Holds
    <3>3. f \notin dropped /\ Holders(f) = {<<"epoll", f>>}
      BY <2>3, <3>2 DEF HolderInv, Held
    <3>4. armed'[f] = "off"
      BY <1>1, <2>3
    <3>5. \E e \in batch' : e.fd = f /\ e.kind = k
      <4>1. [fd |-> f, kind |-> k] \in batch'
        BY <1>2, <3>1
      <4>. QED
        BY <4>1
    <3>6. \A e \in batch' : e.fd = f => e.kind = k
      BY <2>1, <3>1
    <3>7. \A h : Holds(f, h)' <=> h = <<"main", k>>
      <4>0. \A h : Holds(f, h) => h = <<"epoll", f>>
        BY <3>3, HoldersHold
      <4>1. ASSUME NEW n \in DOMAIN m_workqueue PROVE m_workqueue[n] # f
        <5>1. <<"queue", n>> # <<"epoll", f>>
          OBVIOUS
        <5>. QED
          BY <4>0, <5>1 DEF Holds
      <4>2. ASSUME NEW w \in Workers PROVE ~(wreq[w] = f /\ wpc[w] = "process")
        <5>1. <<"worker", w>> # <<"epoll", f>>
          OBVIOUS
        <5>. QED
          BY <4>0, <5>1 DEF Holds
      <4>. QED
        BY <1>1, <3>4, <3>5, <3>6, <4>1, <4>2 DEF Holds
    <3>8. Holders(f)' = {<<"main", k>>}
      BY <3>7, HoldersHold
    <3>. QED
      BY <1>1, <2>3, <3>3, <3>8 DEF HolderInv, Held
  <2>4. CASE f \notin open \ tainted
    BY <1>1, <2>4 DEF Held
  <2>. QED
    BY <2>2, <2>3, <2>4
<1>. QED
  BY <1>4, <1>5, <1>6 DEF HolderInv

(* accept: a descriptor that nobody uses is armed; one that a worker has closed *)
(* and still uses is given out at once to a tainted connection.                 *)
LEMMA AcceptHolder ==
  ASSUME HolderInv, NEW f \in Fds, Accept(f)
  PROVE  HolderInv'
<1>1. /\ Takes(Listener, "increment") /\ Listener \in batch
      /\ f \notin open /\ open' = open \union {f}
      /\ bound' = [bound EXCEPT ![f] = TRUE] /\ armed' = [armed EXCEPT ![f] = "in"]
      /\ dropped' = dropped \ {f}
      /\ tainted' = IF InUse(f) THEN tainted \union {f} ELSE tainted
      /\ UNCHANGED <<m_workqueue, wpc, wreq>>
  BY DEF Accept, Takes, queueVars, workerVars
<1>2. /\ batch' = batch \ {Listener} /\ batch' \subseteq Event \union {Listener}
      /\ mpc' \in {"wait", "dispatch", "increment", "decrement"} /\ (mpc' = "wait" => batch' = {})
      /\ \A g \in Fds : {d \in batch' : d.fd = g} = {d \in batch : d.fd = g}
  <2>1. \A g \in Fds : g # Listener.fd
    BY HttpAssumption DEF Listener
  <2>. QED
    BY <1>1, <2>1, TakesFacts DEF HolderInv
<1>3. HolderTypes'
  BY <1>1, <1>2 DEF HolderInv, HolderTypes
<1>4. Orderly'
  BY <1>1, <1>2 DEF HolderInv, HolderTypes, Orderly
<1>5. ASSUME NEW g \in Fds PROVE Held(g)'
  <2>1. CASE g # f
    <3>1. armed'[g] = armed[g] /\ bound'[g] = bound[g]
      BY <1>1, <2>1 DEF HolderInv, HolderTypes
    <3>. QED
      BY <1>1, <1>2, <2>1, <3>1, HeldFrame DEF HolderInv
  <2>2. CASE g = f /\ InUse(f)
    BY <1>1, <2>2 DEF Held
  <2>3. CASE g = f /\ ~InUse(f)
    <3>1. /\ \A n \in DOMAIN m_workqueue : m_workqueue[n] # f
          /\ \A w \in Workers : wreq[w] # f
          /\ \A e \in batch : e.fd # f
      BY <2>3 DEF InUse, Queued
    <3>2. armed'[f] = "in" /\ bound'[f]
      BY <1>1 DEF HolderInv, HolderTypes
    <3>3. \A h : Holds(f, h)' <=> h = <<"epoll", f>>
      BY <1>1, <1>2, <3>1, <3>2 DEF Holds
    <3>4. Holders(f)' = {<<"epoll", f>>}
      BY <3>3, HoldersHold
    <3>. QED
      BY <1>1, <2>3, <3>1, <3>2, <3>4 DEF Held
  <2>. QED
    BY <2>1, <2>2, <2>3
<1>. QED
  BY <1>3, <1>4, <1>5 DEF HolderInv

(* The holder found is the only one. *)
LEMMA OnlyHolder ==
  ASSUME HolderInv, NEW f \in Fds, f \in open \ tainted, NEW h, Holds(f, h)
  PROVE  /\ bound[f] /\ f \notin dropped /\ armed[f] # "none"
         /\ \A w \in Workers : wreq[w] = f => wpc[w] = "process"
         /\ \A k : Holds(f, k) => k = h
<1>1. Held(f) /\ h \in Holders(f)
  BY HoldersHold DEF HolderInv
<1>2. f \notin dropped /\ Holders(f) = {h}
  BY <1>1 DEF Held
<1>3. \A k : Holds(f, k) => k = h
  BY <1>2, HoldersHold
<1>. QED
  BY <1>1, <1>2, <1>3 DEF Held, HolderInv, Orderly

(* A connection with one holder is held. *)
LEMMA HeldByOne ==
  ASSUME NEW f, bound'[f], f \notin dropped',
         \A w \in Workers : wreq'[w] = f => wpc'[w] = "process",
         NEW h, \A k : Holds(f, k)' <=> k = h
  PROVE  Held(f)'
<1>1. Holders(f)' = {h}
  BY HoldersHold
<1>. QED
  BY <1>1 DEF Held

(* While main has an event of a connection, nobody else acts on it. *)
LEMMA MainAlone ==
  ASSUME HolderInv, NEW e \in batch, e.fd \in open \ tainted
  PROVE  /\ bound[e.fd] /\ e.fd \notin dropped /\ armed[e.fd] \notin {"none", "in", "out"}
         /\ \A n \in DOMAIN m_workqueue : m_workqueue[n] # e.fd
         /\ \A w \in Workers : wreq[w] # e.fd
         /\ {d \in batch \ {e} : d.fd = e.fd} = {}
<1> DEFINE f == e.fd
<1>1. f \in Fds /\ Holds(f, <<"main", e.kind>>)
  BY DEF HolderInv, HolderTypes, Holds
<1>2. /\ bound[f] /\ f \notin dropped /\ armed[f] # "none"
      /\ \A w \in Workers : wreq[w] = f => wpc[w] = "process"
      /\ \A k : Holds(f, k) => k = <<"main", e.kind>>
  BY <1>1, OnlyHolder
<1>3. armed[f] \notin {"in", "out"}
  <2>1. <<"epoll", f>> # <<"main", e.kind>>
    OBVIOUS
  <2>. QED
    BY <1>2, <2>1 DEF Holds
<1>4. ASSUME NEW n \in DOMAIN m_workqueue PROVE m_workqueue[n] # f
  <2>1. <<"queue", n>> # <<"main", e.kind>>
    OBVIOUS
  <2>. QED
    BY <1>2, <2>1 DEF Holds
<1>5. ASSUME NEW w \in Workers PROVE wreq[w] # f
  <2>1. <<"worker", w>> # <<"main", e.kind>>
    OBVIOUS
  <2>. QED
    BY <1>2, <2>1 DEF Holds
<1>. QED
  BY <1>2, <1>3, <1>4, <1>5, OneEvent

(* While a worker processes a connection, nobody else acts on it; a worker past *)
(* that point has no connection that counts.                                    *)
LEMMA WorkerAlone ==
  ASSUME HolderInv, NEW w \in Workers, wreq[w] \in open \ tainted
  PROVE  /\ wpc[w] = "process" /\ bound[wreq[w]] /\ wreq[w] \notin dropped
         /\ armed[wreq[w]] \notin {"none", "in", "out"}
         /\ \A e \in batch : e.fd # wreq[w]
         /\ \A n \in DOMAIN m_workqueue : m_workqueue[n] # wreq[w]
         /\ \A v \in Workers : v # w => wreq[v] # wreq[w]
<1> DEFINE f == wreq[w]
<1>1. f \in Fds /\ wpc[w] = "process"
  BY DEF HolderInv, HolderTypes, Held
<1>2. Holds(f, <<"worker", w>>)
  BY <1>1 DEF Holds
<1>3. /\ bound[f] /\ f \notin dropped /\ armed[f] # "none"
      /\ \A v \in Workers : wreq[v] = f => wpc[v] = "process"
      /\ \A k : Holds(f, k) => k = <<"worker", w>>
  BY <1>1, <1>2, OnlyHolder
<1>4. armed[f] \notin {"in", "out"}
  <2>1. <<"epoll", f>> # <<"worker", w>>
    OBVIOUS
  <2>. QED
    BY <1>3, <2>1 DEF Holds
<1>5. ASSUME NEW e \in batch PROVE e.fd # f
  <2>1. <<"main", e.kind>> # <<"worker", w>>
    OBVIOUS
  <2>. QED
    BY <1>3, <2>1 DEF Holds
<1>6. ASSUME NEW n \in DOMAIN m_workqueue PROVE m_workqueue[n] # f
  <2>1. <<"queue", n>> # <<"worker", w>>
    OBVIOUS
  <2>. QED
    BY <1>3, <2>1 DEF Holds
<1>7. ASSUME NEW v \in Workers, v # w PROVE wreq[v] # f
  <2>1. <<"worker", v>> # <<"worker", w>>
    BY <1>7
  <2>. QED
    BY <1>3, <2>1 DEF Holds
<1>. QED
  BY <1>1, <1>3, <1>4, <1>5, <1>6, <1>7

(* modfd changes one armed entry, and does not fail on a connection that counts. *)
LEMMA ModFdFacts ==
  ASSUME HolderInv, NEW f \in Fds, NEW ev \in {"in", "out"}, ModFd(f, ev)
  PROVE  /\ armed' \in [Fds -> {"none", "off", "in", "out"}]
         /\ \A g \in Fds : armed'[g] = "none" <=> armed[g] = "none"
         /\ \A g \in Fds : g # f => armed'[g] = armed[g]
         /\ f \in open \ tainted => armed'[f] = ev
<1>1. armed \in [Fds -> {"none", "off", "in", "out"}] /\ (f \in open \ tainted => bound[f])
  BY DEF HolderInv, HolderTypes, Held
<1>2. f \in open => armed[f] # "none"
  BY DEF HolderInv, Orderly
<1>3. CASE bound[f] /\ armed[f] # "none"
  BY <1>1, <1>3 DEF ModFd
<1>4. CASE ~(bound[f] /\ armed[f] # "none")
  BY <1>1, <1>2, <1>4 DEF ModFd
<1>. QED
  BY <1>3, <1>4

LEMMA AcceptNoneHolder ==
  ASSUME HolderInv, AcceptNone
  PROVE  HolderInv'
<1>1. /\ Takes(Listener, "next") /\ Listener \in batch
      /\ UNCHANGED <<open, armed, bound, m_workqueue, wpc, wreq, dropped, tainted>>
  BY DEF AcceptNone, Takes, kernelVars, objectVars, queueVars, workerVars, historyVars
<1>2. /\ batch' \subseteq Event \union {Listener}
      /\ mpc' \in {"wait", "dispatch", "increment", "decrement"} /\ (mpc' = "wait" => batch' = {})
      /\ \A g \in Fds : {d \in batch' : d.fd = g} = {d \in batch : d.fd = g}
  <2>1. \A g \in Fds : g # Listener.fd
    BY HttpAssumption DEF Listener
  <2>. QED
    BY <1>1, <2>1, TakesFacts DEF HolderInv
<1>3. HolderTypes'
  BY <1>1, <1>2 DEF HolderInv, HolderTypes
<1>4. Orderly'
  BY <1>1, <1>2 DEF HolderInv, HolderTypes, Orderly
<1>5. ASSUME NEW g \in Fds PROVE Held(g)'
  BY <1>1, <1>2, HeldFrame DEF HolderInv
<1>. QED
  BY <1>3, <1>4, <1>5 DEF HolderInv

(* Steps that leave the connections alone: counts, posts, arrivals. *)
LEMMA QuietHolder ==
  ASSUME HolderInv,
         UNCHANGED <<open, armed, bound, m_workqueue, batch, wreq, dropped, tainted>>,
         mpc' \in {"wait", "dispatch", "increment", "decrement"}, mpc' = "wait" => batch = {},
         wpc' \in [Workers -> {"idle", "pop", "process", "unbind", "store", "modfd"}],
         \A w \in Workers : /\ wpc'[w] \in {"idle", "pop"} <=> wpc[w] \in {"idle", "pop"}
                            /\ wpc'[w] = "process" <=> wpc[w] = "process"
  PROVE  HolderInv'
<1>1. HolderTypes'
  BY DEF HolderInv, HolderTypes
<1>2. Orderly'
  BY DEF HolderInv, Orderly
<1>3. ASSUME NEW f \in Fds PROVE Held(f)'
  <2>1. \A h : Holds(f, h)' <=> Holds(f, h)
    BY DEF Holds
  <2>2. Holders(f)' = Holders(f)
    BY <2>1, HoldersHold
  <2>. QED
    BY <2>2 DEF HolderInv, Held
<1>. QED
  BY <1>1, <1>2, <1>3 DEF HolderInv

LEMMA MainCountsHolder ==
  ASSUME HolderInv, MainCounts
  PROVE  HolderInv'
<1>1. /\ UNCHANGED <<open, armed, bound, m_workqueue, batch, wreq, wpc, dropped, tainted>>
      /\ mpc' = IF batch = {} THEN "wait" ELSE "dispatch"
  BY DEF MainCounts, kernelVars, objectVars, queueVars, workerVars
<1>. QED
  BY <1>1, QuietHolder DEF HolderInv, HolderTypes

(* close_conn by main closes a connection that it alone acts on. *)
LEMMA MainClosesHolder ==
  ASSUME HolderInv, NEW e \in batch, e.kind \in {"hup", "in", "out"}, MainCloses(e)
  PROVE  HolderInv'
<1> DEFINE f == e.fd
<1>1. f \in Fds
  BY DEF HolderInv, HolderTypes, Event, Listener
<1>2. /\ UNCHANGED <<m_workqueue, wpc, wreq>>
      /\ \/ /\ bound[f] /\ Takes(e, "decrement")
            /\ open' = open \ {f} /\ bound' = [bound EXCEPT ![f] = FALSE]
            /\ armed' = [armed EXCEPT ![f] = "none"]
            /\ dropped' = dropped \ {f} /\ tainted' = tainted \ {f}
         \/ /\ ~bound[f] /\ Takes(e, "next")
            /\ UNCHANGED <<open, armed, bound, dropped, tainted>>
  BY DEF MainCloses, RemoveFd, MainUnchanged, queueVars, workerVars, kernelVars
<1>3. /\ batch' \subseteq Event \union {Listener}
      /\ mpc' \in {"wait", "dispatch", "increment", "decrement"} /\ (mpc' = "wait" => batch' = {})
      /\ \A g \in Fds : g # f => {d \in batch' : d.fd = g} = {d \in batch : d.fd = g}
  <2>1. CASE Takes(e, "decrement")
    BY <2>1, TakesFacts DEF HolderInv
  <2>2. CASE Takes(e, "next")
    BY <2>2, TakesFacts DEF HolderInv
  <2>. QED
    BY <1>2, <2>1, <2>2
<1>4. HolderTypes'
  BY <1>1, <1>2, <1>3 DEF HolderInv, HolderTypes
<1>5. Orderly'
  BY <1>1, <1>2, <1>3 DEF HolderInv, HolderTypes, Orderly
<1>6. ASSUME NEW g \in Fds PROVE Held(g)'
  <2>1. CASE g # f
    <3>1. /\ armed'[g] = armed[g] /\ bound'[g] = bound[g]
          /\ g \in open' <=> g \in open
          /\ g \in tainted' <=> g \in tainted
          /\ g \in dropped' <=> g \in dropped
      BY <1>2, <2>1 DEF HolderInv, HolderTypes
    <3>. QED
      BY <1>2, <1>3, <2>1, <3>1, HeldFrame DEF HolderInv
  <2>2. CASE g = f
    <3>1. f \in open \ tainted => bound[f]
      BY <1>1 DEF HolderInv, Held
    <3>2. f \notin open' \ tainted'
      BY <1>2, <3>1
    <3>. QED
      BY <2>2, <3>2 DEF Held
  <2>. QED
    BY <2>1, <2>2
<1>. QED
  BY <1>4, <1>5, <1>6 DEF HolderInv

(* A request read goes to the end of the queue, or nowhere. *)
LEMMA ReadHolder ==
  ASSUME HolderInv, NEW e \in batch, Read(e)
  PROVE  HolderInv'
<1> DEFINE f == e.fd
           q == m_workqueue
<1>1. f \in Fds /\ q \in Seq(Fds)
  BY DEF Read, HolderInv, HolderTypes, Event, Listener
<1>2. /\ Takes(e, "next") /\ UNCHANGED <<open, armed, bound, wpc, wreq, tainted>>
      /\ \/ m_workqueue' = Append(q, f) /\ dropped' = dropped
         \/ m_workqueue' = q /\ dropped' = dropped \union {f}
  BY DEF Read, AppendRequest, MainUnchanged, objectVars, queueVars, workerVars
<1>3. /\ batch' = batch \ {e} /\ batch' \subseteq Event \union {Listener}
      /\ mpc' \in {"wait", "dispatch", "increment", "decrement"} /\ (mpc' = "wait" => batch' = {})
      /\ \A g \in Fds : g # f => {d \in batch' : d.fd = g} = {d \in batch : d.fd = g}
  BY <1>2, TakesFacts DEF HolderInv
<1>4. m_workqueue' \in Seq(Fds)
  BY <1>1, <1>2
<1>5. HolderTypes'
  BY <1>2, <1>3, <1>4 DEF HolderInv, HolderTypes
<1>6. Orderly'
  BY <1>2, <1>3 DEF HolderInv, Orderly
<1>7. ASSUME NEW g \in Fds, g # f PROVE Held(g)'
  <2>1. {n \in DOMAIN m_workqueue' : m_workqueue'[n] = g} = {n \in DOMAIN q : q[n] = g}
    <3>1. CASE m_workqueue' = Append(q, f)
      BY <1>1, <1>7, <3>1
    <3>. QED
      BY <1>2, <3>1
  <2>2. g \in dropped' <=> g \in dropped
    BY <1>2, <1>7
  <2>. QED
    BY <1>2, <1>3, <1>7, <2>1, <2>2, HeldFrame DEF HolderInv
<1>8. ASSUME f \in open \ tainted PROVE Held(f)'
  <2>1. /\ bound[f] /\ f \notin dropped /\ armed[f] \notin {"none", "in", "out"}
        /\ \A n \in DOMAIN q : q[n] # f
        /\ \A w \in Workers : wreq[w] # f
        /\ \A d \in batch' : d.fd # f
    BY <1>3, <1>8, MainAlone
  <2>2. CASE m_workqueue' = Append(q, f) /\ dropped' = dropped
    <3>1. \A n \in DOMAIN m_workqueue' : m_workqueue'[n] = f <=> n = Len(q) + 1
      BY <1>1, <2>1, <2>2
    <3>2. Len(q) + 1 \in DOMAIN m_workqueue'
      BY <1>1, <2>2
    <3>3. \A h : Holds(f, h)' <=> h = <<"queue", Len(q) + 1>>
      BY <1>2, <2>1, <3>1, <3>2 DEF Holds
    <3>. QED
      BY <1>2, <2>1, <2>2, <3>3, HeldByOne
  <2>3. CASE m_workqueue' = q /\ dropped' = dropped \union {f}
    <3>1. \A h : ~Holds(f, h)'
      BY <1>2, <2>1, <2>3 DEF Holds
    <3>2. Holders(f)' = {}
      BY <3>1, HoldersHold
    <3>. QED
      BY <1>2, <2>1, <2>3, <3>2 DEF Held
  <2>. QED
    BY <1>2, <2>2, <2>3
<1>9. ASSUME f \notin open \ tainted PROVE Held(f)'
  BY <1>2, <1>9 DEF Held
<1>. QED
  BY <1>5, <1>6, <1>7, <1>8, <1>9 DEF HolderInv

(* A connection that main has written to goes back to epoll. *)
LEMMA WriteGoesOnHolder ==
  ASSUME HolderInv, NEW e \in batch, WriteGoesOn(e)
  PROVE  HolderInv'
<1> DEFINE f == e.fd
<1>1. f \in Fds
  BY DEF WriteGoesOn, HolderInv, HolderTypes, Event, Listener
<1>2. PICK ev \in {"in", "out"} : ModFd(f, ev)
  BY DEF WriteGoesOn
<1>3. /\ Takes(e, "next")
      /\ UNCHANGED <<open, bound, m_workqueue, wpc, wreq, dropped, tainted>>
  BY DEF WriteGoesOn, MainUnchanged, queueVars, workerVars, historyVars
<1>4. /\ batch' = batch \ {e} /\ batch' \subseteq Event \union {Listener}
      /\ mpc' \in {"wait", "dispatch", "increment", "decrement"} /\ (mpc' = "wait" => batch' = {})
      /\ \A g \in Fds : g # f => {d \in batch' : d.fd = g} = {d \in batch : d.fd = g}
  BY <1>3, TakesFacts DEF HolderInv
<1>5. /\ armed' \in [Fds -> {"none", "off", "in", "out"}]
      /\ \A g \in Fds : armed'[g] = "none" <=> armed[g] = "none"
      /\ \A g \in Fds : g # f => armed'[g] = armed[g]
      /\ f \in open \ tainted => armed'[f] = ev
  BY <1>1, <1>2, ModFdFacts
<1>6. HolderTypes'
  BY <1>3, <1>4, <1>5 DEF HolderInv, HolderTypes
<1>7. Orderly'
  BY <1>3, <1>4, <1>5 DEF HolderInv, Orderly
<1>8. ASSUME NEW g \in Fds, g # f PROVE Held(g)'
  BY <1>3, <1>4, <1>5, <1>8, HeldFrame DEF HolderInv
<1>9. ASSUME f \in open \ tainted PROVE Held(f)'
  <2>1. /\ bound[f] /\ f \notin dropped
        /\ \A n \in DOMAIN m_workqueue : m_workqueue[n] # f
        /\ \A w \in Workers : wreq[w] # f
        /\ \A d \in batch' : d.fd # f
    BY <1>4, <1>9, MainAlone
  <2>2. \A h : Holds(f, h)' <=> h = <<"epoll", f>>
    BY <1>3, <1>5, <1>9, <2>1 DEF Holds
  <2>. QED
    BY <1>3, <2>1, <2>2, HeldByOne
<1>10. ASSUME f \notin open \ tainted PROVE Held(f)'
  BY <1>3, <1>10 DEF Held
<1>. QED
  BY <1>6, <1>7, <1>8, <1>9, <1>10 DEF HolderInv

-----------------------------------------------------------------------------
(* Workers.                                                                  *)

LEMMA SemWaitHolder ==
  ASSUME HolderInv, NEW w \in Workers, SemWait(w)
  PROVE  HolderInv'
<1>1. /\ UNCHANGED <<open, armed, bound, m_workqueue, batch, mpc, wreq, dropped, tainted>>
      /\ wpc[w] = "idle" /\ wpc' = [wpc EXCEPT ![w] = "pop"]
  BY DEF SemWait, Goes, WorkerUnchanged, KeepsHistory, kernelVars, objectVars, mainVars
<1>2. wpc \in [Workers -> {"idle", "pop", "process", "unbind", "store", "modfd"}]
  BY DEF HolderInv, HolderTypes
<1>3. /\ wpc' \in [Workers -> {"idle", "pop", "process", "unbind", "store", "modfd"}]
      /\ \A v \in Workers : /\ wpc'[v] \in {"idle", "pop"} <=> wpc[v] \in {"idle", "pop"}
                            /\ wpc'[v] = "process" <=> wpc[v] = "process"
  BY <1>1, <1>2
<1>4. mpc' \in {"wait", "dispatch", "increment", "decrement"} /\ (mpc' = "wait" => batch = {})
  BY <1>1 DEF HolderInv, HolderTypes, Orderly
<1>. QED
  BY <1>1, <1>3, <1>4, QuietHolder

(* The head of the queue goes to the worker; the others move up. *)
LEMMA PopHolder ==
  ASSUME HolderInv, NEW w \in Workers, Pop(w)
  PROVE  HolderInv'
<1> DEFINE q == m_workqueue
           f == Head(q)
<1>1. /\ UNCHANGED <<open, armed, bound, batch, mpc, dropped, tainted>>
      /\ wpc[w] = "pop" /\ q \in Seq(Fds)
  BY DEF Pop, WorkerUnchanged, KeepsHistory, kernelVars, objectVars, mainVars, HolderInv, HolderTypes
<1>2. wpc \in [Workers -> {"idle", "pop", "process", "unbind", "store", "modfd"}]
      /\ wreq \in [Workers -> Fds \union {NoFd}] /\ wreq[w] = NoFd
  BY <1>1 DEF HolderInv, HolderTypes, Orderly
<1>3. mpc' \in {"wait", "dispatch", "increment", "decrement"} /\ (mpc' = "wait" => batch = {})
  BY <1>1 DEF HolderInv, HolderTypes, Orderly
<1>4. CASE q = <<>>
  <2>1. UNCHANGED <<m_workqueue, wreq>> /\ wpc' = [wpc EXCEPT ![w] = "idle"]
    BY <1>4 DEF Pop
  <2>2. /\ wpc' \in [Workers -> {"idle", "pop", "process", "unbind", "store", "modfd"}]
        /\ \A v \in Workers : /\ wpc'[v] \in {"idle", "pop"} <=> wpc[v] \in {"idle", "pop"}
                              /\ wpc'[v] = "process" <=> wpc[v] = "process"
    BY <1>1, <1>2, <2>1
  <2>. QED
    BY <1>1, <1>3, <2>1, <2>2, QuietHolder
<1>5. CASE q # <<>>
  <2>1. /\ wpc' = [wpc EXCEPT ![w] = "process"] /\ wreq' = [wreq EXCEPT ![w] = f]
        /\ m_workqueue' = Tail(q)
    BY <1>5 DEF Pop
  <2>2. /\ f \in Fds /\ Tail(q) \in Seq(Fds) /\ 1 \in DOMAIN q /\ q[1] = f
        /\ DOMAIN Tail(q) = {n \in Nat : n + 1 \in DOMAIN q /\ n # 0}
        /\ \A n \in DOMAIN Tail(q) : Tail(q)[n] = q[n + 1]
    BY <1>1, <1>5
  <2>3. /\ f # NoFd
        /\ wpc' \in [Workers -> {"idle", "pop", "process", "unbind", "store", "modfd"}]
        /\ wreq' \in [Workers -> Fds \union {NoFd}]
        /\ wpc'[w] = "process" /\ wreq'[w] = f
        /\ \A v \in Workers : v # w => wpc'[v] = wpc[v] /\ wreq'[v] = wreq[v]
    BY <1>2, <2>1, <2>2, HttpAssumption
  <2>4. HolderTypes'
    BY <1>1, <1>3, <2>1, <2>2, <2>3 DEF HolderInv, HolderTypes
  <2>5. Orderly'
    BY <1>1, <1>3, <2>3 DEF HolderInv, Orderly
  <2>6. ASSUME NEW g \in open \ tainted, \A n \in DOMAIN q : q[n] # g PROVE Held(g)'
    <3>1. g \in Fds /\ g # f
      BY <2>2, <2>6 DEF HolderInv, HolderTypes
    <3>2. {n \in DOMAIN m_workqueue' : m_workqueue'[n] = g} = {n \in DOMAIN q : q[n] = g}
      BY <2>1, <2>2, <2>6
    <3>3. \A v \in Workers : /\ wreq'[v] = g <=> wreq[v] = g
                             /\ wreq[v] = g => wpc'[v] = wpc[v]
      BY <1>2, <2>3, <3>1, HttpAssumption
    <3>. QED
      BY <1>1, <3>1, <3>2, <3>3, HeldFrame DEF HolderInv
  <2>7. ASSUME NEW g \in open \ tainted, NEW n \in DOMAIN q, q[n] = g PROVE Held(g)'
    <3>1. g \in Fds /\ Holds(g, <<"queue", n>>) /\ n \in Nat /\ n # 0
      BY <1>1, <2>7 DEF Holds
    <3>2. /\ bound[g] /\ g \notin dropped
          /\ \A k : Holds(g, k) => k = <<"queue", n>>
      BY <3>1, OnlyHolder
    <3>3. armed[g] \notin {"in", "out"}
      <4>1. <<"epoll", g>> # <<"queue", n>>
        OBVIOUS
      <4>. QED
        BY <3>2, <4>1 DEF Holds
    <3>4. ASSUME NEW e \in batch PROVE e.fd # g
      <4>1. <<"main", e.kind>> # <<"queue", n>>
        OBVIOUS
      <4>. QED
        BY <3>2, <4>1 DEF Holds
    <3>5. ASSUME NEW v \in Workers PROVE wreq[v] # g
      <4>1. <<"worker", v>> # <<"queue", n>>
        OBVIOUS
      <4>2. wreq[v] = g => wpc[v] = "process"
        BY <3>1, OnlyHolder
      <4>. QED
        BY <3>2, <4>1, <4>2 DEF Holds
    <3>6. ASSUME NEW m \in DOMAIN q, m # n PROVE q[m] # g
      <4>1. <<"queue", m>> # <<"queue", n>>
        BY <3>6
      <4>. QED
        BY <3>2, <4>1 DEF Holds
    <3>7. CASE n = 1
      <4>1. f = g
        BY <2>2, <2>7, <3>7
      <4>2. \A m \in DOMAIN m_workqueue' : m_workqueue'[m] # g
        BY <2>1, <2>2, <3>6, <3>7
      <4>3. \A h : Holds(g, h)' <=> h = <<"worker", w>>
        BY <1>1, <2>3, <3>3, <3>4, <3>5, <4>1, <4>2 DEF Holds
      <4>4. \A v \in Workers : wreq'[v] = g => wpc'[v] = "process"
        BY <2>3, <3>5
      <4>. QED
        BY <1>1, <3>2, <4>3, <4>4, HeldByOne
    <3>8. CASE n # 1
      <4>1. f # g
        BY <2>2, <3>6, <3>8
      <4>2. /\ n - 1 \in DOMAIN m_workqueue'
            /\ \A m \in DOMAIN m_workqueue' : m_workqueue'[m] = g <=> m = n - 1
        BY <2>1, <2>2, <2>7, <3>1, <3>6, <3>8
      <4>3. \A v \in Workers : wreq'[v] # g
        BY <2>3, <3>5, <4>1
      <4>4. \A h : Holds(g, h)' <=> h = <<"queue", n - 1>>
        BY <1>1, <3>3, <3>4, <4>2, <4>3 DEF Holds
      <4>. QED
        BY <1>1, <3>2, <4>3, <4>4, HeldByOne
    <3>. QED
      BY <3>7, <3>8
  <2>8. ASSUME NEW g \in Fds PROVE Held(g)'
    BY <1>1, <2>6, <2>7 DEF Held
  <2>. QED
    BY <2>4, <2>5, <2>8 DEF HolderInv
<1>. QED
  BY <1>4, <1>5

(* A worker that is done arms its connection. *)
LEMMA WorkerArmsHolder ==
  ASSUME HolderInv, NEW w \in Workers, NeedMore(w) \/ Respond(w) \/ WorkerArms(w)
  PROVE  HolderInv'
<1>0. PICK f : f = wreq[w]
  OBVIOUS
<1>1. PICK ev \in {"in", "out"} : ModFd(f, ev)
  BY <1>0 DEF NeedMore, Respond, WorkerArms
<1>2. /\ UNCHANGED <<open, bound, m_workqueue, batch, mpc, dropped, tainted>>
      /\ wpc[w] \in {"process", "modfd"} /\ wpc' = [wpc EXCEPT ![w] = "idle"]
      /\ wreq' = [wreq EXCEPT ![w] = NoFd]
  BY DEF NeedMore, Respond, WorkerArms, Goes, Done, WorkerUnchanged, KeepsHistory, objectVars,
         queueVars, mainVars
<1>3. /\ wpc \in [Workers -> {"idle", "pop", "process", "unbind", "store", "modfd"}]
      /\ wreq \in [Workers -> Fds \union {NoFd}] /\ f \in Fds
  BY <1>0, <1>2 DEF HolderInv, HolderTypes, Orderly
<1>4. /\ armed' \in [Fds -> {"none", "off", "in", "out"}]
      /\ \A g \in Fds : armed'[g] = "none" <=> armed[g] = "none"
      /\ \A g \in Fds : g # f => armed'[g] = armed[g]
      /\ f \in open \ tainted => armed'[f] = ev
  BY <1>1, <1>3, ModFdFacts
<1>5. /\ wpc' \in [Workers -> {"idle", "pop", "process", "unbind", "store", "modfd"}]
      /\ wreq' \in [Workers -> Fds \union {NoFd}]
      /\ wpc'[w] = "idle" /\ wreq'[w] = NoFd
      /\ \A v \in Workers : v # w => wpc'[v] = wpc[v] /\ wreq'[v] = wreq[v]
  BY <1>2, <1>3
<1>6. HolderTypes'
  BY <1>2, <1>4, <1>5 DEF HolderInv, HolderTypes
<1>7. Orderly'
  BY <1>2, <1>4, <1>5 DEF HolderInv, Orderly
<1>8. ASSUME NEW g \in Fds, g # f PROVE Held(g)'
  <2>1. \A v \in Workers : /\ wreq'[v] = g <=> wreq[v] = g
                           /\ wreq[v] = g => wpc'[v] = wpc[v]
    BY <1>0, <1>3, <1>5, <1>8, HttpAssumption
  <2>. QED
    BY <1>2, <1>4, <1>8, <2>1, HeldFrame DEF HolderInv
<1>9. ASSUME f \in open \ tainted PROVE Held(f)'
  <2>1. /\ bound[f] /\ f \notin dropped
        /\ \A e \in batch : e.fd # f
        /\ \A n \in DOMAIN m_workqueue : m_workqueue[n] # f
        /\ \A v \in Workers : v # w => wreq[v] # f
    BY <1>0, <1>9, WorkerAlone
  <2>2. \A v \in Workers : wreq'[v] # f
    BY <1>3, <1>5, <2>1, HttpAssumption
  <2>3. \A h : Holds(f, h)' <=> h = <<"epoll", f>>
    BY <1>2, <1>4, <1>9, <2>1, <2>2 DEF Holds
  <2>. QED
    BY <1>2, <2>1, <2>2, <2>3, HeldByOne
<1>10. ASSUME f \notin open \ tainted PROVE Held(f)'
  BY <1>2, <1>10 DEF Held
<1>. QED
  BY <1>6, <1>7, <1>8, <1>9, <1>10 DEF HolderInv

(* A worker that closes a connection: it is not open, or given out again. *)
LEMMA WorkerClosesHolder ==
  ASSUME HolderInv, NEW w \in Workers, WorkerCloses(w) \/ WorkerUnbinds(w) \/ WorkerCounts(w)
  PROVE  HolderInv'
<1>0. PICK f : f = wreq[w]
  OBVIOUS
<1>1. /\ UNCHANGED <<m_workqueue, batch, mpc, wreq>>
      /\ wpc[w] \in {"process", "unbind", "store"}
      /\ \E to \in {"unbind", "store", "modfd"} : wpc' = [wpc EXCEPT ![w] = to]
      /\ \/ /\ open' = open \ {f} /\ armed' = [armed EXCEPT ![f] = "none"] /\ bound' = bound
            /\ dropped' = dropped \ {f} /\ tainted' = tainted \ {f}
         \/ /\ UNCHANGED <<open, armed, dropped, tainted>>
            /\ f \notin open \ tainted \/ ~bound[f]
            /\ bound' = bound \/ bound' = [bound EXCEPT ![f] = FALSE]
  <2>1. f \in open \ tainted => wpc[w] = "process"
    BY <1>0, WorkerAlone
  <2>2. CASE WorkerCloses(w)
    BY <1>0, <2>2 DEF WorkerCloses, RemoveFd, Goes, WorkerUnchanged, KeepsHistory, kernelVars, objectVars,
                queueVars, mainVars
  <2>3. CASE WorkerUnbinds(w)
    BY <1>0, <2>1, <2>3 DEF WorkerUnbinds, Goes, WorkerUnchanged, KeepsHistory, kernelVars, queueVars, mainVars
  <2>4. CASE WorkerCounts(w)
    BY <1>0, <2>1, <2>4 DEF WorkerCounts, Goes, WorkerUnchanged, KeepsHistory, kernelVars, objectVars,
                      queueVars, mainVars
  <2>. QED
    BY <2>2, <2>3, <2>4
<1>2. /\ wpc \in [Workers -> {"idle", "pop", "process", "unbind", "store", "modfd"}]
      /\ wreq \in [Workers -> Fds \union {NoFd}] /\ f \in Fds
  BY <1>0, <1>1 DEF HolderInv, HolderTypes, Orderly
<1>3. /\ wpc' \in [Workers -> {"idle", "pop", "process", "unbind", "store", "modfd"}]
      /\ wpc'[w] \in {"unbind", "store", "modfd"}
      /\ \A v \in Workers : v # w => wpc'[v] = wpc[v]
  BY <1>1, <1>2
<1>4. /\ open' \subseteq Fds /\ armed' \in [Fds -> {"none", "off", "in", "out"}]
      /\ bound' \in [Fds -> BOOLEAN]
  BY <1>1 DEF HolderInv, HolderTypes
<1>5. HolderTypes'
  BY <1>1, <1>3, <1>4 DEF HolderInv, HolderTypes
<1>6. Orderly'
  <2>1. \A g \in Fds : g \in open' <=> armed'[g] # "none"
    BY <1>1, <1>2 DEF HolderInv, HolderTypes, Orderly
  <2>2. \A v \in Workers : wpc'[v] \in {"idle", "pop"} <=> wreq'[v] = NoFd
    BY <1>1, <1>3 DEF HolderInv, Orderly
  <2>. QED
    BY <1>1, <2>1, <2>2 DEF HolderInv, Orderly
<1>7. ASSUME NEW g \in Fds, g # f PROVE Held(g)'
  <2>1. /\ g \in open' <=> g \in open
        /\ g \in tainted' <=> g \in tainted
        /\ g \in dropped' <=> g \in dropped
    BY <1>1, <1>7
  <2>2. armed'[g] = armed[g] /\ bound'[g] = bound[g]
    BY <1>1, <1>7 DEF HolderInv, HolderTypes
  <2>3. \A v \in Workers : /\ wreq'[v] = g <=> wreq[v] = g
                           /\ wreq[v] = g => wpc'[v] = wpc[v]
    BY <1>0, <1>1, <1>3, <1>7
  <2>. QED
    BY <1>1, <1>7, <2>1, <2>2, <2>3, HeldFrame DEF HolderInv
<1>8. Held(f)'
  <2>1. f \in open \ tainted => bound[f]
    BY <1>2 DEF HolderInv, Held
  <2>2. f \notin open' \ tainted'
    BY <1>1, <2>1
  <2>. QED
    BY <2>2 DEF Held
<1>. QED
  BY <1>5, <1>6, <1>7, <1>8 DEF HolderInv

-----------------------------------------------------------------------------
(* Every step.                                                               *)

LEMMA StepHolder == HolderInv /\ [Next]_vars => HolderInv'
<1> SUFFICES ASSUME HolderInv, [Next]_vars PROVE HolderInv'
  OBVIOUS
<1>1. CASE EpollWait
  BY <1>1, WaitHolder
<1>2. CASE \E f \in Fds : Accept(f)
  BY <1>2, AcceptHolder
<1>3. CASE AcceptNone
  BY <1>3, AcceptNoneHolder
<1>4. CASE MainCounts
  BY <1>4, MainCountsHolder
<1>5. CASE \E e \in batch : HangUp(e) \/ ReadFails(e) \/ WriteEnds(e)
  BY <1>5, MainClosesHolder DEF HangUp, ReadFails, WriteEnds
<1>6. CASE \E e \in batch : Read(e) \/ WriteGoesOn(e)
  BY <1>6, ReadHolder, WriteGoesOnHolder
<1>7. CASE \E w \in Workers : SemWait(w) \/ Pop(w)
  BY <1>7, SemWaitHolder, PopHolder
<1>8. CASE \E w \in Workers : NeedMore(w) \/ Respond(w) \/ WorkerArms(w)
  BY <1>8, WorkerArmsHolder
<1>9. CASE \E w \in Workers : WorkerCloses(w) \/ WorkerUnbinds(w) \/ WorkerCounts(w)
  BY <1>9, WorkerClosesHolder
<1>10. CASE Environment \/ UNCHANGED vars
  <2>1. /\ UNCHANGED <<open, armed, bound, m_workqueue, batch, wreq, wpc, mpc, dropped, tainted>>
    BY <1>10 DEF Environment, ClientConnects, ClientActs, vars, kernelVars, objectVars, queueVars,
                 mainVars, workerVars, historyVars
  <2>2. /\ mpc' \in {"wait", "dispatch", "increment", "decrement"} /\ (mpc' = "wait" => batch = {})
        /\ wpc' \in [Workers -> {"idle", "pop", "process", "unbind", "store", "modfd"}]
    BY <2>1 DEF HolderInv, HolderTypes, Orderly
  <2>. QED
    BY <2>1, <2>2, QuietHolder
<1>. QED
  BY <1>1, <1>2, <1>3, <1>4, <1>5, <1>6, <1>7, <1>8, <1>9, <1>10 DEF Next, Main, Worker

(* An open connection is in exactly one place, epoll, main, the queue or one    *)
(* worker, unless append dropped its request or close_conn gave its descriptor  *)
(* back too early (http_conn.cpp:52-61, 534-550; main.cpp:122-145).             *)
THEOREM ConnectionsHeldOnce == Spec => []OneHolder
<1>1. Init => HolderInv
  BY InitHolder
<1>2. HolderInv /\ [Next]_vars => HolderInv'
  BY StepHolder
<1>3. HolderInv => OneHolder
  BY HeldCounts
<1>. QED
  BY <1>1, <1>2, <1>3, PTL DEF Spec

-----------------------------------------------------------------------------
(* The server keeps to ConnectionProtocol: an object holds an answer exactly    *)
(* while its connection is answering, and a step moves one connection at most.  *)

Agrees(f) == (f \in open \ tainted /\ response[f]) <=> Phase(f) = "answering"

AnswerInv ==
  /\ response \in [Fds -> BOOLEAN] /\ tainted \subseteq open
  /\ \A f \in Fds : Agrees(f)

Moves ==
  {<<"closed", "reading">>, <<"closed", "astray">>, <<"reading", "processing">>,
   <<"reading", "refused">>, <<"processing", "reading">>, <<"processing", "answering">>,
   <<"answering", "reading">>, <<"reading", "closed">>, <<"processing", "closed">>,
   <<"answering", "closed">>, <<"astray", "closed">>}

Follows(f) == Phase(f)' = Phase(f) \/ <<Phase(f), Phase(f)'>> \in Moves

ServerStep ==
  /\ AnswerInv'
  /\ \/ \A f \in Fds : Phase(f)' = Phase(f)
     \/ \E f \in Fds : Follows(f) /\ \A g \in Fds \ {f} : Phase(g)' = Phase(g)

(* A step that is not about f; of a connection that is closed or astray only     *)
(* that matters.                                                                 *)
Untouched(f) ==
  /\ f \in open' <=> f \in open
  /\ f \in open => (f \in tainted' <=> f \in tainted)
  /\ f \in open \ tainted =>
       /\ f \in dropped' <=> f \in dropped
       /\ armed'[f] = "out" <=> armed[f] = "out"
       /\ Processed(f)' <=> Processed(f)
       /\ {e \in batch' : e.fd = f} = {e \in batch : e.fd = f}
       /\ response'[f] = response[f]

LEMMA UntouchedKeeps ==
  ASSUME NEW f, Untouched(f)
  PROVE  Phase(f)' = Phase(f) /\ (Agrees(f) => Agrees(f)')
<1>1. CASE f \notin open \/ f \in tainted
  BY <1>1 DEF Untouched, Phase, Agrees
<1>2. CASE f \in open \ tainted
  <2>1. \A e : e \in batch' /\ e.fd = f <=> e \in batch /\ e.fd = f
    BY <1>2 DEF Untouched
  <2>2. (\E e \in batch' : e.fd = f /\ (e.kind = "out" \/ (e.kind = "hup" /\ response'[f])))
          <=> (\E e \in batch : e.fd = f /\ (e.kind = "out" \/ (e.kind = "hup" /\ response[f])))
    BY <1>2, <2>1 DEF Untouched
  <2>3. Phase(f)' = Phase(f)
    BY <1>2, <2>2 DEF Untouched, Phase
  <2>. QED
    BY <1>2, <2>3 DEF Untouched, Agrees
<1>. QED
  BY <1>1, <1>2

LEMMA OneMoves ==
  ASSUME AnswerInv, response' \in [Fds -> BOOLEAN], tainted' \subseteq open',
         NEW f \in Fds, Agrees(f)', Follows(f), \A g \in Fds \ {f} : Untouched(g)
  PROVE  ServerStep
<1>1. \A g \in Fds \ {f} : Phase(g)' = Phase(g) /\ Agrees(g)'
  BY UntouchedKeeps DEF AnswerInv
<1>. QED
  BY <1>1 DEF ServerStep, AnswerInv

LEMMA NoneMoves ==
  ASSUME AnswerInv, response' \in [Fds -> BOOLEAN], tainted' \subseteq open',
         \A g \in Fds : Untouched(g)
  PROVE  ServerStep
<1>1. \A g \in Fds : Phase(g)' = Phase(g) /\ Agrees(g)'
  BY UntouchedKeeps DEF AnswerInv
<1>. QED
  BY <1>1 DEF ServerStep, AnswerInv

(* An event of a connection that counts tells its phase; a worker processes it.  *)
LEMMA EventPhase ==
  ASSUME HolderInv, NEW e \in batch, e.fd \in open \ tainted
  PROVE  /\ e.fd \notin dropped /\ ~Processed(e.fd)
         /\ Phase(e.fd) = IF e.kind = "out" \/ (e.kind = "hup" /\ response[e.fd])
                          THEN "answering" ELSE "reading"
<1>1. /\ e.fd \notin dropped /\ armed[e.fd] # "out"
      /\ \A n \in DOMAIN m_workqueue : m_workqueue[n] # e.fd
      /\ \A w \in Workers : wreq[w] # e.fd
      /\ {d \in batch \ {e} : d.fd = e.fd} = {}
  BY MainAlone
<1>2. ~Processed(e.fd)
  BY <1>1 DEF Processed, Queued
<1>3. \A d \in batch : d.fd = e.fd => d = e
  BY <1>1
<1>. QED
  BY <1>1, <1>2, <1>3 DEF Phase

LEMMA WorkerPhase ==
  ASSUME HolderInv, NEW w \in Workers, wreq[w] \in open \ tainted
  PROVE  Phase(wreq[w]) = "processing" /\ wpc[w] = "process"
BY WorkerAlone DEF Phase, Processed

-----------------------------------------------------------------------------
(* Main.                                                                        *)

(* A reported hang-up is one of a connection that was read or answered.         *)
LEMMA WaitProtocol ==
  ASSUME HolderInv, AnswerInv, EpollWait
  PROVE  ServerStep
<1>1. batch = {} /\ armed' = [f \in Fds |-> IF Kinds(f) = {} THEN armed[f] ELSE "off"]
      /\ UNCHANGED <<open, m_workqueue, wpc, wreq, response, dropped, tainted>>
  BY DEF EpollWait, HolderInv, Orderly, objectVars, queueVars, workerVars, historyVars
<1>2. ASSUME NEW f \in Fds PROVE Phase(f)' = Phase(f) /\ Agrees(f)'
  <2>1. Processed(f)' <=> Processed(f)
    BY <1>1 DEF Processed, Queued
  <2>2. \A e \in batch' : e.fd = f <=> \E k \in Kinds(f) : e = [fd |-> f, kind |-> k]
    <3>1. Listener.fd # f
      BY HttpAssumption DEF Listener
    <3>. QED
      BY <3>1, WaitEvents
  <2>3. \A k : (\E e \in batch' : e.fd = f /\ e.kind = k) <=> k \in Kinds(f)
    <3>1. ASSUME NEW k \in Kinds(f) PROVE \E e \in batch' : e.fd = f /\ e.kind = k
      <4>1. [fd |-> f, kind |-> k] \in batch'
        BY WaitEvents
      <4>. QED
        BY <4>1
    <3>2. \A e \in batch' : e.fd = f => e.kind \in Kinds(f)
      BY <2>2
    <3>. QED
      BY <3>1, <3>2
  <2>4. CASE f \in open \ tainted /\ f \notin dropped /\ ~Processed(f)
    <3>1. response[f] <=> armed[f] = "out"
      BY <1>1, <2>4 DEF AnswerInv, Agrees, Phase
    <3>2. armed'[f] # "out" /\ ("out" \in Kinds(f) \/ ("hup" \in Kinds(f) /\ response[f]) <=> armed[f] = "out")
      BY <1>1, <3>1 DEF Kinds
    <3>3. (\E e \in batch' : e.fd = f /\ (e.kind = "out" \/ (e.kind = "hup" /\ response'[f])))
            <=> armed[f] = "out"
      BY <1>1, <2>3, <3>2
    <3>4. Phase(f)' = Phase(f)
      BY <1>1, <2>1, <2>4, <3>2, <3>3 DEF Phase
    <3>. QED
      BY <1>1, <3>4 DEF AnswerInv, Agrees
  <2>5. CASE ~(f \in open \ tainted /\ f \notin dropped /\ ~Processed(f))
    BY <1>1, <2>1, <2>5 DEF AnswerInv, Agrees, Phase
  <2>. QED
    BY <2>4, <2>5
<1>. QED
  BY <1>1, <1>2 DEF ServerStep, AnswerInv

LEMMA AcceptProtocol ==
  ASSUME HolderInv, AnswerInv, NEW f \in Fds, Accept(f)
  PROVE  ServerStep
<1>1. /\ batch' = batch \ {Listener} /\ f \notin open /\ open' = open \union {f}
      /\ armed' = [armed EXCEPT ![f] = "in"] /\ response' = [response EXCEPT ![f] = FALSE]
      /\ dropped' = dropped \ {f}
      /\ tainted' = IF InUse(f) THEN tainted \union {f} ELSE tainted
      /\ UNCHANGED <<m_workqueue, wpc, wreq>>
  BY DEF Accept, Takes, ResetObject, queueVars, workerVars
<1>2. armed \in [Fds -> {"none", "off", "in", "out"}] /\ response \in [Fds -> BOOLEAN]
      /\ tainted \subseteq open
  BY DEF HolderInv, HolderTypes, AnswerInv
<1>3. response' \in [Fds -> BOOLEAN] /\ tainted' \subseteq open' /\ ~response'[f]
      /\ armed'[f] = "in"
  BY <1>1, <1>2
<1>4. ASSUME NEW g \in Fds \ {f} PROVE Untouched(g)
  <2>1. Listener.fd # g
    BY HttpAssumption DEF Listener
  <2>2. {e \in batch' : e.fd = g} = {e \in batch : e.fd = g}
    BY <1>1, <2>1
  <2>3. Processed(g)' <=> Processed(g)
    BY <1>1 DEF Processed, Queued
  <2>. QED
    BY <1>1, <1>2, <2>2, <2>3 DEF Untouched
<1>5. Phase(f) = "closed"
  BY <1>1 DEF Phase
<1>6. Phase(f)' \in {"reading", "astray"}
  <2>1. CASE InUse(f)
    BY <1>1, <2>1 DEF Phase
  <2>2. CASE ~InUse(f)
    <3>1. ~Processed(f)' /\ ~(\E e \in batch' : e.fd = f)
      BY <1>1, <2>2 DEF InUse, Processed, Queued
    <3>2. f \in open' /\ f \notin tainted' /\ f \notin dropped'
      BY <1>1, <1>2, <2>2
    <3>. QED
      BY <1>3, <3>1, <3>2 DEF Phase
  <2>. QED
    BY <2>1, <2>2
<1>7. Agrees(f)' /\ Follows(f)
  BY <1>3, <1>5, <1>6 DEF Agrees, Follows, Moves
<1>. QED
  BY <1>3, <1>4, <1>7, OneMoves

(* close_conn by main. *)
LEMMA MainClosesProtocol ==
  ASSUME HolderInv, AnswerInv, NEW e \in batch, e.kind \in {"hup", "in", "out"}, MainCloses(e)
  PROVE  ServerStep
<1> DEFINE f == e.fd
<1>1. f \in Fds
  BY DEF HolderInv, HolderTypes, Event, Listener
<1>2. /\ UNCHANGED <<m_workqueue, wpc, wreq, response>> /\ batch' = batch \ {e}
      /\ \/ /\ bound[f] /\ open' = open \ {f} /\ armed' = [armed EXCEPT ![f] = "none"]
            /\ dropped' = dropped \ {f} /\ tainted' = tainted \ {f}
         \/ ~bound[f] /\ UNCHANGED <<open, armed, dropped, tainted>>
  BY DEF MainCloses, RemoveFd, Takes, MainUnchanged, queueVars, workerVars, kernelVars
<1>3. response' \in [Fds -> BOOLEAN] /\ tainted' \subseteq open'
  BY <1>2 DEF AnswerInv
<1>4. ASSUME NEW g \in Fds \ {f} PROVE Untouched(g)
  <2>1. {d \in batch' : d.fd = g} = {d \in batch : d.fd = g}
    BY <1>2
  <2>2. Processed(g)' <=> Processed(g)
    BY <1>2 DEF Processed, Queued
  <2>3. armed'[g] = armed[g] /\ (g \in open' <=> g \in open) /\ (g \in tainted' <=> g \in tainted)
        /\ (g \in dropped' <=> g \in dropped)
    BY <1>2 DEF HolderInv, HolderTypes
  <2>. QED
    BY <1>2, <2>1, <2>2, <2>3 DEF Untouched
<1>5. CASE bound[f]
  <2>1. f \notin open'
    BY <1>2, <1>5
  <2>2. Phase(f)' = "closed" /\ Agrees(f)'
    BY <2>1 DEF Phase, Agrees
  <2>3. Phase(f) \in {"closed", "astray", "reading", "answering"}
    <3>1. CASE f \in open \ tainted
      BY <3>1, EventPhase
    <3>2. CASE f \notin open \ tainted
      BY <3>2 DEF Phase
    <3>. QED
      BY <3>1, <3>2
  <2>4. Follows(f)
    BY <2>2, <2>3 DEF Follows, Moves
  <2>. QED
    BY <1>1, <1>3, <1>4, <2>2, <2>4, OneMoves
<1>6. CASE ~bound[f]
  <2>1. f \notin open \ tainted
    BY <1>1, <1>6 DEF HolderInv, Held
  <2>2. Untouched(f)
    BY <1>2, <1>6, <2>1 DEF Untouched
  <2>. QED
    BY <1>1, <1>3, <1>4, <2>2, NoneMoves
<1>. QED
  BY <1>5, <1>6

(* A request read is queued or refused. *)
LEMMA ReadProtocol ==
  ASSUME HolderInv, AnswerInv, NEW e \in batch, Read(e)
  PROVE  ServerStep
<1> DEFINE f == e.fd
           q == m_workqueue
<1>1. f \in Fds /\ q \in Seq(Fds) /\ e.kind = "in"
  BY DEF Read, HolderInv, HolderTypes, Event, Listener
<1>2. /\ batch' = batch \ {e} /\ UNCHANGED <<open, armed, response, wpc, wreq, tainted>>
      /\ \/ m_workqueue' = Append(q, f) /\ dropped' = dropped
         \/ m_workqueue' = q /\ dropped' = dropped \union {f}
  BY DEF Read, AppendRequest, Takes, MainUnchanged, objectVars, queueVars, workerVars
<1>3. response' \in [Fds -> BOOLEAN] /\ tainted' \subseteq open'
  BY <1>2 DEF AnswerInv
<1>4. ASSUME NEW g \in Fds \ {f} PROVE Untouched(g)
  <2>1. {d \in batch' : d.fd = g} = {d \in batch : d.fd = g}
    BY <1>2
  <2>2. Queued(g)' <=> Queued(g)
    <3>1. CASE m_workqueue' = Append(q, f)
      BY <1>1, <3>1 DEF Queued
    <3>2. CASE m_workqueue' = q
      BY <3>2 DEF Queued
    <3>. QED
      BY <1>2, <3>1, <3>2
  <2>3. Processed(g)' <=> Processed(g)
    BY <1>2, <2>2 DEF Processed
  <2>. QED
    BY <1>2, <2>1, <2>3 DEF Untouched
<1>5. CASE f \in open \ tainted
  <2>1. f \notin dropped /\ Phase(f) = "reading"
    BY <1>1, <1>5, EventPhase
  <2>2. ~response[f]
    BY <1>1, <1>5, <2>1 DEF AnswerInv, Agrees
  <2>3. Phase(f)' \in {"processing", "refused"}
    <3>1. CASE m_workqueue' = Append(q, f) /\ dropped' = dropped
      <4>1. Len(q) + 1 \in DOMAIN m_workqueue' /\ m_workqueue'[Len(q) + 1] = f
        BY <1>1, <3>1
      <4>2. Processed(f)'
        BY <4>1 DEF Processed, Queued
      <4>. QED
        BY <1>2, <1>5, <2>1, <3>1, <4>2 DEF Phase
    <3>2. CASE dropped' = dropped \union {f}
      BY <1>2, <1>5, <3>2 DEF Phase
    <3>. QED
      BY <1>2, <3>1, <3>2
  <2>4. Agrees(f)' /\ Follows(f)
    BY <1>2, <2>1, <2>2, <2>3 DEF Agrees, Follows, Moves
  <2>. QED
    BY <1>1, <1>3, <1>4, <2>4, OneMoves
<1>6. CASE f \notin open \ tainted
  <2>1. Untouched(f)
    BY <1>2, <1>6 DEF Untouched
  <2>. QED
    BY <1>1, <1>3, <1>4, <2>1, NoneMoves
<1>. QED
  BY <1>5, <1>6

(* write() goes on with the answer or has sent it all. *)
LEMMA WriteGoesOnProtocol ==
  ASSUME HolderInv, AnswerInv, NEW e \in batch, WriteGoesOn(e)
  PROVE  ServerStep
<1> DEFINE f == e.fd
<1>1. f \in Fds /\ e.kind = "out"
  BY DEF WriteGoesOn, HolderInv, HolderTypes, Event, Listener
<1>2. /\ batch' = batch \ {e} /\ UNCHANGED <<open, m_workqueue, wpc, wreq, dropped, tainted>>
  BY DEF WriteGoesOn, Takes, MainUnchanged, queueVars, workerVars, historyVars
<1>3. PICK ev \in {"in", "out"} :
        /\ ModFd(f, ev)
        /\ IF ev = "out" THEN response[f] /\ UNCHANGED response
                         ELSE response' = [response EXCEPT ![f] = FALSE]
  BY DEF WriteGoesOn, ResetObject
<1>4. /\ \A g \in Fds : g # f => armed'[g] = armed[g]
      /\ f \in open \ tainted => armed'[f] = ev
  BY <1>1, <1>3, ModFdFacts
<1>5. /\ response' \in [Fds -> BOOLEAN] /\ tainted' \subseteq open'
      /\ \A g \in Fds : g # f => response'[g] = response[g]
      /\ response'[f] <=> ev = "out"
  BY <1>1, <1>2, <1>3 DEF AnswerInv
<1>6. ASSUME NEW g \in Fds \ {f} PROVE Untouched(g)
  <2>1. {d \in batch' : d.fd = g} = {d \in batch : d.fd = g}
    BY <1>2
  <2>2. Processed(g)' <=> Processed(g)
    BY <1>2 DEF Processed, Queued
  <2>. QED
    BY <1>2, <1>4, <1>5, <2>1, <2>2 DEF Untouched
<1>7. CASE f \in open \ tainted
  <2>1. f \notin dropped /\ ~Processed(f) /\ Phase(f) = "answering"
    BY <1>1, <1>7, EventPhase
  <2>2. {d \in batch' : d.fd = f} = {}
    BY <1>2, <1>7, MainAlone
  <2>3. ~Processed(f)'
    BY <1>2, <2>1 DEF Processed, Queued
  <2>4. Phase(f)' = IF ev = "out" THEN "answering" ELSE "reading"
    BY <1>2, <1>4, <1>7, <2>1, <2>2, <2>3 DEF Phase
  <2>5. Agrees(f)'
    BY <1>2, <1>5, <1>7, <2>4 DEF Agrees
  <2>6. Follows(f)
    BY <2>1, <2>4 DEF Follows, Moves
  <2>. QED
    BY <1>1, <1>5, <1>6, <2>5, <2>6, OneMoves
<1>8. CASE f \notin open \ tainted
  <2>1. Untouched(f)
    BY <1>2, <1>8 DEF Untouched
  <2>. QED
    BY <1>1, <1>5, <1>6, <2>1, NoneMoves
<1>. QED
  BY <1>7, <1>8

-----------------------------------------------------------------------------
(* Workers.                                                                     *)

(* A request that a worker takes is processed before and after. *)
LEMMA PopProtocol ==
  ASSUME HolderInv, AnswerInv, NEW w \in Workers, Pop(w)
  PROVE  ServerStep
<1> DEFINE q == m_workqueue
<1>1. /\ UNCHANGED <<open, armed, response, batch, dropped, tainted>>
      /\ wpc[w] = "pop" /\ q \in Seq(Fds)
      /\ wpc \in [Workers -> {"idle", "pop", "process", "unbind", "store", "modfd"}]
      /\ wreq \in [Workers -> Fds \union {NoFd}]
  BY DEF Pop, WorkerUnchanged, KeepsHistory, kernelVars, objectVars, mainVars, HolderInv, HolderTypes
<1>2. ASSUME NEW g \in Fds PROVE Processed(g)' <=> Processed(g)
  <2>1. CASE q = <<>>
    <3>1. UNCHANGED <<m_workqueue, wreq>> /\ wpc' = [wpc EXCEPT ![w] = "idle"]
      BY <2>1 DEF Pop
    <3>2. \A v \in Workers : wpc'[v] = "process" <=> wpc[v] = "process"
      BY <1>1, <3>1
    <3>. QED
      BY <3>1, <3>2 DEF Processed, Queued
  <2>2. CASE q # <<>>
    <3>1. /\ wpc' = [wpc EXCEPT ![w] = "process"] /\ wreq' = [wreq EXCEPT ![w] = Head(q)]
          /\ m_workqueue' = Tail(q)
      BY <2>2 DEF Pop
    <3>2. wpc'[w] = "process" /\ wreq'[w] = Head(q)
          /\ \A v \in Workers : v # w => wpc'[v] = wpc[v] /\ wreq'[v] = wreq[v]
      BY <1>1, <3>1
    <3>3. Queued(g) <=> Head(q) = g \/ Queued(g)'
      <4>1. /\ 1 \in DOMAIN q /\ Head(q) = q[1]
            /\ DOMAIN Tail(q) = {n \in Nat : n + 1 \in DOMAIN q /\ n # 0}
            /\ \A n \in DOMAIN Tail(q) : Tail(q)[n] = q[n + 1]
        BY <1>1, <2>2
      <4>2. \A n \in DOMAIN q : n = 1 \/ (n - 1 \in DOMAIN Tail(q) /\ Tail(q)[n - 1] = q[n])
        BY <1>1, <4>1
      <4>. QED
        BY <3>1, <4>1, <4>2 DEF Queued
    <3>4. (\E v \in Workers : wreq'[v] = g /\ wpc'[v] = "process")
            <=> Head(q) = g \/ \E v \in Workers : wreq[v] = g /\ wpc[v] = "process"
      BY <1>1, <3>2
    <3>. QED
      BY <3>3, <3>4 DEF Processed
  <2>. QED
    BY <2>1, <2>2
<1>3. \A g \in Fds : Untouched(g)
  BY <1>1, <1>2 DEF Untouched
<1>. QED
  BY <1>1, <1>3, NoneMoves DEF AnswerInv

(* A worker that wants more input, or has prepared an answer; or one that is    *)
(* past close_conn and arms a connection that does not count.                   *)
LEMMA WorkerArmsProtocol ==
  ASSUME HolderInv, AnswerInv, NEW w \in Workers, NeedMore(w) \/ Respond(w) \/ WorkerArms(w)
  PROVE  ServerStep
<1>0. PICK f : f = wreq[w]
  OBVIOUS
<1>1. /\ UNCHANGED <<open, m_workqueue, batch, dropped, tainted>>
      /\ wpc[w] \in {"process", "modfd"} /\ wpc' = [wpc EXCEPT ![w] = "idle"]
      /\ wreq' = [wreq EXCEPT ![w] = NoFd]
  BY DEF NeedMore, Respond, WorkerArms, Goes, Done, WorkerUnchanged, KeepsHistory, objectVars,
         queueVars, mainVars
<1>2. /\ wpc \in [Workers -> {"idle", "pop", "process", "unbind", "store", "modfd"}]
      /\ wreq \in [Workers -> Fds \union {NoFd}] /\ f \in Fds
  BY <1>0, <1>1 DEF HolderInv, HolderTypes, Orderly
<1>3. PICK ev \in {"in", "out"} :
        /\ ModFd(f, ev)
        /\ \/ ev = "out" /\ response' = [response EXCEPT ![f] = TRUE]
           \/ (ev = "in" \/ wpc[w] = "modfd") /\ UNCHANGED response
  BY <1>0 DEF NeedMore, Respond, WorkerArms, Goes, objectVars
<1>4. /\ \A g \in Fds : g # f => armed'[g] = armed[g]
      /\ f \in open \ tainted => armed'[f] = ev
  BY <1>2, <1>3, ModFdFacts
<1>5. /\ response' \in [Fds -> BOOLEAN] /\ tainted' \subseteq open'
      /\ \A g \in Fds : g # f => response'[g] = response[g]
  BY <1>1, <1>2, <1>3 DEF AnswerInv
<1>6. ASSUME NEW g \in Fds \ {f} PROVE Untouched(g)
  <2>1. \A v \in Workers : wreq'[v] = g /\ wpc'[v] = "process" <=> wreq[v] = g /\ wpc[v] = "process"
    BY <1>0, <1>1, <1>2, HttpAssumption
  <2>2. Processed(g)' <=> Processed(g)
    BY <1>1, <2>1 DEF Processed, Queued
  <2>. QED
    BY <1>1, <1>4, <1>5, <2>2 DEF Untouched
<1>7. CASE f \in open \ tainted
  <2>1. Phase(f) = "processing" /\ wpc[w] = "process"
    BY <1>0, <1>7, WorkerPhase
  <2>2. /\ f \notin dropped /\ \A e \in batch : e.fd # f
        /\ \A n \in DOMAIN m_workqueue : m_workqueue[n] # f
        /\ \A v \in Workers : v # w => wreq[v] # f
    BY <1>0, <1>7, WorkerAlone
  <2>3. ~Processed(f)'
    <3>1. \A v \in Workers : wreq'[v] # f
      BY <1>1, <1>2, <2>2, HttpAssumption
    <3>. QED
      BY <1>1, <2>2, <3>1 DEF Processed, Queued
  <2>4. Phase(f)' = IF ev = "out" THEN "answering" ELSE "reading"
    BY <1>1, <1>4, <1>7, <2>2, <2>3 DEF Phase
  <2>5. response'[f] <=> ev = "out"
    <3>1. ~response[f]
      BY <1>2, <1>7, <2>1 DEF AnswerInv, Agrees
    <3>2. response \in [Fds -> BOOLEAN]
      BY DEF AnswerInv
    <3>. QED
      BY <1>2, <1>3, <2>1, <3>1, <3>2
  <2>6. Agrees(f)'
    BY <1>1, <1>7, <2>4, <2>5 DEF Agrees
  <2>7. Follows(f)
    BY <2>1, <2>4 DEF Follows, Moves
  <2>. QED
    BY <1>2, <1>5, <1>6, <2>6, <2>7, OneMoves
<1>8. CASE f \notin open \ tainted
  <2>1. Untouched(f)
    BY <1>1, <1>8 DEF Untouched
  <2>. QED
    BY <1>2, <1>5, <1>6, <2>1, NoneMoves
<1>. QED
  BY <1>7, <1>8

(* close_conn by a worker; what it does after that is not seen. *)
LEMMA WorkerClosesProtocol ==
  ASSUME HolderInv, AnswerInv, NEW w \in Workers, WorkerCloses(w) \/ WorkerUnbinds(w) \/ WorkerCounts(w)
  PROVE  ServerStep
<1>0. PICK f : f = wreq[w]
  OBVIOUS
<1>1. /\ UNCHANGED <<m_workqueue, batch, wreq, response>>
      /\ wpc[w] \in {"process", "unbind", "store"}
      /\ \E to \in {"unbind", "store", "modfd"} : wpc' = [wpc EXCEPT ![w] = to]
      /\ \/ /\ open' = open \ {f} /\ armed' = [armed EXCEPT ![f] = "none"]
            /\ dropped' = dropped \ {f} /\ tainted' = tainted \ {f}
         \/ /\ UNCHANGED <<open, armed, dropped, tainted>>
            /\ wpc[w] # "process" \/ ~bound[f]
  BY <1>0 DEF WorkerCloses, WorkerUnbinds, WorkerCounts, RemoveFd, Goes, WorkerUnchanged, KeepsHistory,
       kernelVars, objectVars, queueVars, mainVars
<1>2. /\ wpc \in [Workers -> {"idle", "pop", "process", "unbind", "store", "modfd"}] /\ f \in Fds
  BY <1>0, <1>1 DEF HolderInv, HolderTypes, Orderly
<1>3. response' \in [Fds -> BOOLEAN] /\ tainted' \subseteq open'
  BY <1>1 DEF AnswerInv
<1>4. ASSUME NEW g \in Fds \ {f} PROVE Untouched(g)
  <2>1. \A v \in Workers : wreq'[v] = g /\ wpc'[v] = "process" <=> wreq[v] = g /\ wpc[v] = "process"
    BY <1>0, <1>1, <1>2
  <2>2. Processed(g)' <=> Processed(g)
    BY <1>1, <2>1 DEF Processed, Queued
  <2>3. armed'[g] = armed[g] /\ (g \in open' <=> g \in open) /\ (g \in tainted' <=> g \in tainted)
        /\ (g \in dropped' <=> g \in dropped)
    BY <1>1 DEF HolderInv, HolderTypes
  <2>. QED
    BY <1>1, <2>2, <2>3 DEF Untouched
<1>5. CASE open' = open \ {f}
  <2>1. Phase(f)' = "closed" /\ Agrees(f)'
    BY <1>5 DEF Phase, Agrees
  <2>2. Phase(f) \in {"closed", "astray", "processing"}
    <3>1. CASE f \in open \ tainted
      BY <1>0, <3>1, WorkerPhase
    <3>2. CASE f \notin open \ tainted
      BY <3>2 DEF Phase
    <3>. QED
      BY <3>1, <3>2
  <2>3. Follows(f)
    BY <2>1, <2>2 DEF Follows, Moves
  <2>. QED
    BY <1>2, <1>3, <1>4, <2>1, <2>3, OneMoves
<1>6. CASE UNCHANGED <<open, tainted>> /\ (wpc[w] # "process" \/ ~bound[f])
  <2>1. f \notin open \ tainted
    BY <1>0, <1>6, WorkerAlone
  <2>2. Untouched(f)
    BY <1>6, <2>1 DEF Untouched
  <2>. QED
    BY <1>2, <1>3, <1>4, <2>2, NoneMoves
<1>. QED
  BY <1>1, <1>5, <1>6

(* Counts, posts, arrivals, and connections that are not let in. *)
LEMMA QuietProtocol ==
  ASSUME HolderInv, AnswerInv,
         \/ AcceptNone \/ MainCounts \/ Environment \/ UNCHANGED vars
         \/ \E w \in Workers : SemWait(w)
  PROVE  ServerStep
<1>1. /\ UNCHANGED <<open, armed, response, m_workqueue, wreq, dropped, tainted>>
      /\ batch' = batch \/ batch' = batch \ {Listener}
  BY DEF AcceptNone, Takes, MainCounts, Environment, ClientConnects, ClientActs, SemWait, WorkerUnchanged,
         KeepsHistory, vars, kernelVars, objectVars, queueVars, mainVars, workerVars, historyVars
<1>2. \A v \in Workers : wpc'[v] = "process" <=> wpc[v] = "process"
  <2>1. CASE \E w \in Workers : SemWait(w)
    BY <2>1 DEF SemWait, Goes, HolderInv, HolderTypes
  <2>2. CASE AcceptNone \/ MainCounts \/ Environment \/ UNCHANGED vars
    BY <2>2 DEF AcceptNone, MainCounts, Environment, ClientConnects, ClientActs, vars, workerVars
  <2>. QED
    BY <2>1, <2>2
<1>3. ASSUME NEW g \in Fds PROVE Untouched(g)
  <2>1. Listener.fd # g
    BY HttpAssumption DEF Listener
  <2>2. {e \in batch' : e.fd = g} = {e \in batch : e.fd = g}
    BY <1>1, <2>1
  <2>3. Processed(g)' <=> Processed(g)
    BY <1>1, <1>2 DEF Processed, Queued
  <2>. QED
    BY <1>1, <2>2, <2>3 DEF Untouched
<1>. QED
  BY <1>1, <1>3, NoneMoves DEF AnswerInv

-----------------------------------------------------------------------------
(* Every step.                                                                  *)

LEMMA EveryServerStep == HolderInv /\ AnswerInv /\ [Next]_vars => ServerStep
<1> SUFFICES ASSUME HolderInv, AnswerInv, [Next]_vars PROVE ServerStep
  OBVIOUS
<1>1. CASE EpollWait \/ \E f \in Fds : Accept(f)
  BY <1>1, WaitProtocol, AcceptProtocol
<1>2. CASE \E e \in batch : HangUp(e) \/ ReadFails(e) \/ WriteEnds(e)
  BY <1>2, MainClosesProtocol DEF HangUp, ReadFails, WriteEnds
<1>3. CASE \E e \in batch : Read(e) \/ WriteGoesOn(e)
  BY <1>3, ReadProtocol, WriteGoesOnProtocol
<1>4. CASE \E w \in Workers : Pop(w) \/ NeedMore(w) \/ Respond(w) \/ WorkerArms(w)
  BY <1>4, PopProtocol, WorkerArmsProtocol
<1>5. CASE \E w \in Workers : WorkerCloses(w) \/ WorkerUnbinds(w) \/ WorkerCounts(w)
  BY <1>5, WorkerClosesProtocol
<1>6. CASE \/ AcceptNone \/ MainCounts \/ Environment \/ UNCHANGED vars
           \/ \E w \in Workers : SemWait(w)
  BY <1>6, QuietProtocol
<1>. QED
  BY <1>1, <1>2, <1>3, <1>4, <1>5, <1>6 DEF Next, Main, Worker

LEMMA ChangedAt ==
  ASSUME NEW S, NEW p, NEW q, NEW x \in S,
         p = [y \in S |-> p[y]], q = [y \in S |-> q[y]], \A y \in S \ {x} : q[y] = p[y]
  PROVE  q = [p EXCEPT ![x] = q[x]]
OBVIOUS

(* One connection that moves as Moves allows takes a step of the protocol. *)
LEMMA MoveIsStep ==
  ASSUME AnswerInv, ServerStep
  PROVE  [Protocol!Next]_Protocol!vars
<1> DEFINE P == [f \in Fds |-> Phase(f)]
           A == [f \in Fds |-> f \in open \ tainted /\ response[f]]
<1>1. /\ A = [f \in Fds |-> Phase(f) = "answering"]
      /\ A' = [f \in Fds |-> Phase(f)' = "answering"]
      /\ P' = [f \in Fds |-> Phase(f)']
  BY DEF AnswerInv, ServerStep, Agrees
<1>2. CASE \A f \in Fds : Phase(f)' = Phase(f)
  <2>1. P' = P /\ A' = A
    BY <1>1, <1>2
  <2>. QED
    BY <2>1 DEF Protocol!vars
<1>3. ASSUME NEW f \in Fds, <<Phase(f), Phase(f)'>> \in Moves, Phase(f)' # Phase(f),
             \A g \in Fds \ {f} : Phase(g)' = Phase(g)
      PROVE  Protocol!Next
  <2>0. /\ P[f] = Phase(f) /\ P'[f] = Phase(f)' /\ A'[f] = (Phase(f)' = "answering")
        /\ \A g \in Fds \ {f} : P'[g] = P[g] /\ A'[g] = A[g]
        /\ P = [g \in Fds |-> P[g]] /\ P' = [g \in Fds |-> P'[g]]
        /\ A = [g \in Fds |-> A[g]] /\ A' = [g \in Fds |-> A'[g]]
    BY <1>1, <1>3
  <2> HIDE DEF P, A
  <2>1. P[f] = Phase(f) /\ P' = [P EXCEPT ![f] = Phase(f)'] /\ P'[f] # P[f]
    <3>1. P' = [P EXCEPT ![f] = P'[f]]
      BY <2>0, ChangedAt
    <3>. QED
      BY <1>3, <2>0, <3>1
  <2>2. A' = [A EXCEPT ![f] = (Phase(f)' = "answering")]
    <3>1. A' = [A EXCEPT ![f] = A'[f]]
      BY <2>0, ChangedAt
    <3>. QED
      BY <2>0, <3>1
  <2> USE DEF P, A
  <2>3. \A from, to, answer :
          Phase(f) = from /\ Phase(f)' = to /\ answer = (Phase(f)' = "answering")
            => Protocol!Goes(f, from, to, answer)
    BY <2>1, <2>2 DEF Protocol!Goes
  <2>4. \/ Protocol!Accept(f) \/ Protocol!Stray(f) \/ Protocol!Arrive(f) \/ Protocol!Refuse(f)
        \/ Protocol!AskMore(f) \/ Protocol!Prepare(f) \/ Protocol!Sent(f) \/ Protocol!Close(f)
    BY <1>3, <2>3 DEF Moves, Protocol!Accept, Protocol!Stray, Protocol!Arrive, Protocol!Refuse,
                      Protocol!AskMore, Protocol!Prepare, Protocol!Sent, Protocol!Close
  <2>. QED
    BY <2>1, <2>4 DEF Protocol!Next
<1>. QED
  BY <1>2, <1>3 DEF ServerStep, Follows

LEMMA InitProtocol == Init => AnswerInv /\ Protocol!Init
<1> SUFFICES ASSUME Init PROVE AnswerInv /\ Protocol!Init
  OBVIOUS
<1>1. \A f \in Fds : Phase(f) = "closed" /\ f \notin open
  BY DEF Init, Phase
<1>2. AnswerInv
  BY <1>1 DEF Init, AnswerInv, Agrees
<1>. QED
  BY <1>1, <1>2 DEF Protocol!Init

(* However many workers and clients there are and however they take turns, a    *)
(* connection is read, processed and answered in turn, and its object holds an  *)
(* answer exactly while it waits for write() (main.cpp:96-157;                  *)
(* http_conn.cpp:52-104, 341-402, 534-550).                                     *)
THEOREM ServerKeepsProtocol == Spec => ProtocolSpec
<1>1. Init => HolderInv /\ AnswerInv /\ Protocol!Init
  BY InitHolder, InitProtocol
<1>2. HolderInv /\ AnswerInv /\ [Next]_vars => HolderInv' /\ AnswerInv'
  BY StepHolder, EveryServerStep DEF ServerStep
<1>3. AnswerInv /\ HolderInv /\ [Next]_vars => [Protocol!Next]_Protocol!vars
  BY EveryServerStep, MoveIsStep
<1>. QED
  BY <1>1, <1>2, <1>3, PTL DEF Spec, ProtocolSpec, Protocol!Spec
=============================================================================
