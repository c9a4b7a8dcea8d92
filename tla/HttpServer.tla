----------------------------- MODULE HttpServer -----------------------------
(***************************************************************************)
(* The web server of httpserver/: the main thread waits on epoll, accepts, *)
(* reads and writes; a pool of workers parses requests and prepares        *)
(* responses. A connection is armed for one event at a time (EPOLLONESHOT):*)
(* that alone keeps two threads off the same http_conn object. The object  *)
(* of descriptor f is users[f]; what a request says and how far it has     *)
(* arrived is left to HttpParser, so here process_read may always ask for  *)
(* more.                                                                   *)
(***************************************************************************)
EXTENDS Integers, Sequences, FiniteSets

CONSTANTS
  Workers,      \* the pool's threads
  NoFd,         \* a worker holds no request
  Fds,          \* descriptors a connection can get
  MAX_FD,       \* connections above which main turns clients away
  m_max_requests,
  Backlog,      \* connections the kernel queues before accept
  MaxClients    \* bound: connections made

ASSUME HttpAssumption ==
  /\ IsFiniteSet(Workers) /\ IsFiniteSet(Fds) /\ NoFd \notin Fds
  /\ MAX_FD \in Nat \ {0} /\ m_max_requests \in Nat \ {0} /\ Backlog \in Nat \ {0} /\ MaxClients \in Nat

VARIABLES
  open, inbox,      \* kernel: open connections, what each has to read
  clients,          \* connections made so far
  backlog, edge,    \* kernel: connections to accept; has one arrived since the last report
  armed,            \* kernel: the epoll entry of each descriptor
  bound,            \* users[f].m_sockfd is f, and not -1
  response,         \* users[f].m_write_idx > 0: a response is prepared
  m_workqueue, m_queuestat,
  m_user_count,
  mpc, batch,       \* main: where it is, the events it has not handled
  mload,            \* main: the value of m_user_count it is about to replace
  wpc, wreq, wload, \* each worker: where it is, its request, the same value
  dropped,          \* history: connections whose request append refused
  tainted,          \*          descriptors given out again while in use
  miscount          \*          m_user_count may be wrong for good

objectVars == <<bound, response>>
kernelVars == <<open, inbox, armed>>
queueVars  == <<m_workqueue, m_queuestat>>
listenVars == <<clients, backlog, edge>>
mainVars   == <<mpc, batch, mload>>
workerVars == <<wpc, wreq, wload>>
historyVars == <<dropped, tainted, miscount>>
vars == <<kernelVars, listenVars, objectVars, queueVars, m_user_count, mainVars,
          workerVars, historyVars>>

Init ==
  /\ open = {} /\ inbox = [f \in Fds |-> "none"] /\ armed = [f \in Fds |-> "none"]
  /\ clients = 0 /\ backlog = 0 /\ edge = FALSE
  /\ bound = [f \in Fds |-> FALSE] /\ response = [f \in Fds |-> FALSE]
  /\ m_workqueue = <<>> /\ m_queuestat = 0 /\ m_user_count = 0
  /\ mpc = "wait" /\ batch = {} /\ mload = 0
  /\ wpc = [w \in Workers |-> "idle"] /\ wreq = [w \in Workers |-> NoFd]
  /\ wload = [w \in Workers |-> 0]
  /\ dropped = {} /\ tainted = {} /\ miscount = FALSE

-----------------------------------------------------------------------------
(* Calls that several threads make.                                           *)

(* modfd on users[f].m_sockfd: it fails, unnoticed, on -1 and on a descriptor  *)
(* that is not in epoll.                                                       *)
ModFd(f, ev) ==
  armed' = IF bound[f] /\ armed[f] # "none" THEN [armed EXCEPT ![f] = ev] ELSE armed

(* removefd: out of epoll, then closed; what was not read is gone. *)
RemoveFd(f) ==
  /\ dropped' = dropped \ {f} /\ tainted' = tainted \ {f}
  /\ armed' = [armed EXCEPT ![f] = "none"]
  /\ open' = open \ {f}
  /\ inbox' = [inbox EXCEPT ![f] = "none"]

(* Mutant: init() leaves m_write_idx as it is. *)
KeepsResponse(f) == UNCHANGED response

(* The private init(): a new request, no response. *)
ResetObject(f) == response' = [response EXCEPT ![f] = FALSE]

(* m_user_count++ and m_user_count--, which no lock protects: the value loaded *)
(* earlier is replaced. Bound: this is followed once; when the count is wrong  *)
(* already, an update is applied to the count as it is.                        *)
StoreCount(loaded, delta) ==
  IF loaded # m_user_count /\ ~miscount
  THEN m_user_count' = loaded + delta /\ miscount' = TRUE
  ELSE m_user_count' = m_user_count + delta /\ UNCHANGED miscount

-----------------------------------------------------------------------------
(* main: epoll_wait                                                           *)

Listener == [fd |-> NoFd, kind |-> "accept"]

Kinds(f) ==
  IF inbox[f] = "hup" /\ armed[f] \in {"in", "out"} THEN {"hup"}
  ELSE IF armed[f] = "in" /\ inbox[f] = "data" THEN {"in"}
  ELSE IF armed[f] = "out" THEN {"out"} ELSE {}

(* Mutant: connections are not registered with EPOLLONESHOT. *)
EpollWaitLevel ==
  /\ mpc = "wait"
  /\ batch' = (UNION {{[fd |-> f, kind |-> k] : k \in Kinds(f)} : f \in Fds})
                \union (IF edge THEN {Listener} ELSE {})
  /\ batch' # {}
  /\ edge' = FALSE
  /\ mpc' = "dispatch"
  /\ UNCHANGED <<kernelVars, clients, backlog, objectVars, queueVars, m_user_count, mload,
                 workerVars, historyVars>>

(* Every ready entry is reported and disarmed; the listening socket is edge     *)
(* triggered.                                                                   *)
EpollWait ==
  /\ mpc = "wait"
  /\ batch' = (UNION {{[fd |-> f, kind |-> k] : k \in Kinds(f)} : f \in Fds})
                \union (IF edge THEN {Listener} ELSE {})
  /\ batch' # {}
  /\ armed' = [f \in Fds |-> IF Kinds(f) = {} THEN armed[f] ELSE "off"]
  /\ edge' = FALSE
  /\ mpc' = "dispatch"
  /\ UNCHANGED <<open, inbox, clients, backlog, objectVars, queueVars, m_user_count, mload,
                 workerVars, historyVars>>

(* Main takes an event; without a count to store it goes on with the next one. *)
Takes(e, then) ==
  /\ mpc = "dispatch" /\ e \in batch
  /\ batch' = batch \ {e}
  /\ mpc' = IF then = "next" THEN (IF batch' = {} THEN "wait" ELSE "dispatch") ELSE then

MainUnchanged == UNCHANGED <<listenVars, workerVars>>

-----------------------------------------------------------------------------
(* main: the listening socket                                                  *)

(* Somebody still works on the connection that had descriptor f before: *)
(* close_conn by a worker gave the descriptor back too early.           *)
Queued(f) == \E n \in DOMAIN m_workqueue : m_workqueue[n] = f
InUse(f)  == Queued(f) \/ (\E w \in Workers : wreq[w] = f) \/ \E e \in batch : e.fd = f

(* One connection is accepted per event (TypeOK says that there is one).       *)
(* init(sockfd, addr) binds the object and adds the descriptor to epoll, armed *)
(* for reading, before it counts the connection and resets the object.         *)
Accept(f) ==
  /\ Takes(Listener, "increment")
  /\ f \notin open /\ m_user_count < MAX_FD
  /\ backlog' = backlog - 1
  /\ open' = open \union {f} /\ inbox' = [inbox EXCEPT ![f] = "none"]
  /\ bound' = [bound EXCEPT ![f] = TRUE]
  /\ armed' = [armed EXCEPT ![f] = "in"]
  /\ mload' = m_user_count
  /\ dropped' = dropped \ {f}
  /\ IF InUse(f) THEN tainted' = tainted \union {f} /\ miscount' = TRUE
                 ELSE UNCHANGED <<tainted, miscount>>
  /\ ResetObject(f)
  /\ UNCHANGED <<clients, edge, queueVars, m_user_count, workerVars>>

(* accept fails: no descriptor is left. Or the server is full and the          *)
(* connection is closed at once (show_error).                                  *)
AcceptNone ==
  /\ Takes(Listener, "next")
  /\ \/ open = Fds /\ UNCHANGED backlog
     \/ open # Fds /\ m_user_count >= MAX_FD /\ backlog' = backlog - 1
  /\ UNCHANGED <<clients, edge, kernelVars, objectVars, queueVars, m_user_count, mload,
                 workerVars, historyVars>>

MainCounts ==
  /\ \/ mpc = "increment" /\ StoreCount(mload, 1)
     \/ mpc = "decrement" /\ StoreCount(mload, -1)
  /\ mload' = 0
  /\ mpc' = IF batch = {} THEN "wait" ELSE "dispatch"
  /\ UNCHANGED <<kernelVars, listenVars, objectVars, queueVars, batch, workerVars, dropped, tainted>>

-----------------------------------------------------------------------------
(* main: events of a connection                                                *)

(* close_conn called by main: nothing happens if the object is not bound. *)
MainCloses(e) ==
  /\ \/ /\ bound[e.fd]
        /\ Takes(e, "decrement")
        /\ RemoveFd(e.fd) /\ bound' = [bound EXCEPT ![e.fd] = FALSE]
        /\ mload' = m_user_count
     \/ /\ ~bound[e.fd]
        /\ Takes(e, "next")
        /\ UNCHANGED <<kernelVars, bound, mload, dropped, tainted>>
  /\ MainUnchanged /\ UNCHANGED <<response, queueVars, m_user_count, miscount>>

(* The client closed its side, or the connection failed. *)
HangUp(e) == e.kind = "hup" /\ MainCloses(e)

(* read() fails: its buffer is full, the peer has closed, or the descriptor is *)
(* not valid.                                                                  *)
ReadFails(e) == e.kind = "in" /\ MainCloses(e)

(* Mutant: append posts the semaphore for a request it refuses. *)
AppendPosts(f) ==
  \/ /\ Len(m_workqueue) <= m_max_requests
     /\ m_workqueue' = Append(m_workqueue, f) /\ m_queuestat' = m_queuestat + 1
     /\ UNCHANGED dropped
  \/ /\ Len(m_workqueue) > m_max_requests
     /\ dropped' = dropped \union {f} /\ m_queuestat' = m_queuestat + 1
     /\ UNCHANGED m_workqueue

(* Mutant: append does not look at the length of the queue. *)
AppendUnbounded(f) ==
  /\ m_workqueue' = Append(m_workqueue, f) /\ m_queuestat' = m_queuestat + 1
  /\ UNCHANGED dropped

(* threadpool::append: it accepts one request more than m_max_requests, and    *)
(* main ignores that it refuses one. The post follows the unlock at once; no   *)
(* worker looks at the queue on account of a post that is still to come.       *)
AppendRequest(f) ==
  \/ /\ Len(m_workqueue) <= m_max_requests
     /\ m_workqueue' = Append(m_workqueue, f) /\ m_queuestat' = m_queuestat + 1
     /\ UNCHANGED dropped
  \/ /\ Len(m_workqueue) > m_max_requests
     /\ dropped' = dropped \union {f}
     /\ UNCHANGED queueVars

(* read() drains the socket; the request is handed to the workers. *)
Read(e) ==
  /\ e.kind = "in" /\ bound[e.fd]
  /\ Takes(e, "next")
  /\ inbox[e.fd] = "data" /\ inbox' = [inbox EXCEPT ![e.fd] = "none"]
  /\ AppendRequest(e.fd)
  /\ MainUnchanged
  /\ UNCHANGED <<open, armed, objectVars, m_user_count, mload, tainted, miscount>>

(* write() returns true: there was nothing to send; or the socket's buffer is  *)
(* full; or all is sent and the connection is kept.                            *)
WriteGoesOn(e) ==
  /\ e.kind = "out" /\ Takes(e, "next")
  /\ \/ ~response[e.fd] /\ ModFd(e.fd, "in") /\ ResetObject(e.fd)
     \/ response[e.fd] /\ ModFd(e.fd, "out") /\ UNCHANGED response
     \/ response[e.fd] /\ ModFd(e.fd, "in") /\ ResetObject(e.fd)
  /\ MainUnchanged
  /\ UNCHANGED <<open, inbox, bound, queueVars, m_user_count, mload, historyVars>>

(* write() returns false: sending failed, or all is sent and the connection is *)
(* not kept (it is armed for reading and closed at once).                      *)
WriteEnds(e) == e.kind = "out" /\ response[e.fd] /\ MainCloses(e)

-----------------------------------------------------------------------------
(* A worker                                                                    *)

WorkerUnchanged == UNCHANGED <<listenVars, mainVars>>

KeepsHistory == UNCHANGED <<dropped, tainted>>

Goes(w, from, to) == wpc[w] = from /\ wpc' = [wpc EXCEPT ![w] = to]

SemWait(w) ==
  /\ Goes(w, "idle", "pop")
  /\ m_queuestat > 0 /\ m_queuestat' = m_queuestat - 1
  /\ WorkerUnchanged /\ KeepsHistory
  /\ UNCHANGED <<kernelVars, objectVars, m_workqueue, m_user_count, wreq, wload, miscount>>

Pop(w) ==
  /\ wpc[w] = "pop"
  /\ IF m_workqueue = <<>>
     THEN wpc' = [wpc EXCEPT ![w] = "idle"] /\ UNCHANGED <<m_workqueue, wreq>>
     ELSE /\ wpc' = [wpc EXCEPT ![w] = "process"]
          /\ wreq' = [wreq EXCEPT ![w] = Head(m_workqueue)]
          /\ m_workqueue' = Tail(m_workqueue)
  /\ WorkerUnchanged /\ KeepsHistory
  /\ UNCHANGED <<kernelVars, objectVars, m_queuestat, m_user_count, wload, miscount>>

Done(w) == wreq' = [wreq EXCEPT ![w] = NoFd]

(* process_read wants more input: the connection is armed for reading. *)
NeedMore(w) ==
  /\ Goes(w, "process", "idle") /\ Done(w)
  /\ ModFd(wreq[w], "in")
  /\ WorkerUnchanged /\ KeepsHistory
  /\ UNCHANGED <<open, inbox, objectVars, queueVars, m_user_count, wload, miscount>>

(* process_write has prepared a response: the connection is armed for writing. *)
Respond(w) ==
  /\ Goes(w, "process", "idle") /\ Done(w)
  /\ response' = [response EXCEPT ![wreq[w]] = TRUE]
  /\ ModFd(wreq[w], "out")
  /\ WorkerUnchanged /\ KeepsHistory
  /\ UNCHANGED <<open, inbox, bound, queueVars, m_user_count, wload, miscount>>

(* process_write fails, as it does for every empty file: close_conn closes the *)
(* descriptor ...                                                              *)
WorkerCloses(w) ==
  /\ wpc[w] = "process"
  /\ \/ bound[wreq[w]] /\ Goes(w, "process", "unbind") /\ RemoveFd(wreq[w])
     \/ ~bound[wreq[w]] /\ Goes(w, "process", "modfd") /\ UNCHANGED kernelVars /\ KeepsHistory
  /\ WorkerUnchanged
  /\ UNCHANGED <<objectVars, queueVars, m_user_count, wreq, wload, miscount>>

(* ... then sets m_sockfd to -1 (and loads the count it will replace) ... *)
WorkerUnbinds(w) ==
  /\ Goes(w, "unbind", "store")
  /\ bound' = [bound EXCEPT ![wreq[w]] = FALSE]
  /\ wload' = [wload EXCEPT ![w] = m_user_count]
  /\ WorkerUnchanged /\ KeepsHistory
  /\ UNCHANGED <<kernelVars, response, queueVars, m_user_count, wreq, miscount>>

(* Mutant: m_user_count is not decremented. *)
WorkerForgetsCount(w) ==
  /\ Goes(w, "store", "modfd")
  /\ wload' = [wload EXCEPT ![w] = 0]
  /\ WorkerUnchanged /\ KeepsHistory
  /\ UNCHANGED <<kernelVars, objectVars, queueVars, m_user_count, wreq, miscount>>

WorkerCounts(w) ==
  /\ Goes(w, "store", "modfd")
  /\ StoreCount(wload[w], -1) /\ wload' = [wload EXCEPT ![w] = 0]
  /\ WorkerUnchanged /\ KeepsHistory
  /\ UNCHANGED <<kernelVars, objectVars, queueVars, wreq>>

(* ... and process arms m_sockfd, whatever it is by now. *)
WorkerArms(w) ==
  /\ Goes(w, "modfd", "idle") /\ Done(w)
  /\ ModFd(wreq[w], "out")
  /\ WorkerUnchanged /\ KeepsHistory
  /\ UNCHANGED <<open, inbox, objectVars, queueVars, m_user_count, wload, miscount>>

-----------------------------------------------------------------------------
(* Clients                                                                     *)

ClientConnects ==
  /\ clients < MaxClients /\ clients' = clients + 1
  /\ backlog < Backlog /\ backlog' = backlog + 1 /\ edge' = TRUE
  /\ UNCHANGED <<kernelVars, objectVars, queueVars, m_user_count, mainVars, workerVars, historyVars>>

(* A client sends, or hangs up: then main no longer reads what it had sent. *)
ClientActs(f, what) ==
  /\ f \in open /\ inbox[f] \notin {"hup", what}
  /\ inbox' = [inbox EXCEPT ![f] = what]
  /\ UNCHANGED <<open, armed, listenVars, objectVars, queueVars, m_user_count, mainVars,
                 workerVars, historyVars>>

-----------------------------------------------------------------------------
Main ==
  \/ EpollWait \/ AcceptNone \/ MainCounts
  \/ \E f \in Fds : Accept(f)
  \/ \E e \in batch : HangUp(e) \/ ReadFails(e) \/ Read(e) \/ WriteGoesOn(e) \/ WriteEnds(e)

Worker(w) ==
  \/ SemWait(w) \/ Pop(w) \/ NeedMore(w) \/ Respond(w)
  \/ WorkerCloses(w) \/ WorkerUnbinds(w) \/ WorkerCounts(w) \/ WorkerArms(w)

Environment == ClientConnects \/ \E f \in Fds : ClientActs(f, "data") \/ ClientActs(f, "hup")

Next == Main \/ (\E w \in Workers : Worker(w)) \/ Environment

Spec == Init /\ [][Next]_vars

-----------------------------------------------------------------------------
(* Properties                                                                  *)

(* Every variable has its type; the queue holds at most one request more than  *)
(* m_max_requests.                                                             *)
TypeOK ==
  /\ open \subseteq Fds /\ inbox \in [Fds -> {"none", "data", "hup"}]
  /\ clients \in 0..MaxClients /\ backlog \in 0..Backlog /\ edge \in BOOLEAN
  /\ armed \in [Fds -> {"none", "off", "in", "out"}]
  /\ bound \in [Fds -> BOOLEAN] /\ response \in [Fds -> BOOLEAN]
  /\ m_workqueue \in Seq(Fds) /\ Len(m_workqueue) <= m_max_requests + 1
  /\ m_queuestat \in Nat /\ m_user_count \in Int /\ mload \in Int
  /\ mpc \in {"wait", "dispatch", "increment", "decrement"}
  /\ batch \subseteq {Listener} \union [fd : Fds, kind : {"hup", "in", "out"}]
  /\ wpc \in [Workers -> {"idle", "pop", "process", "unbind", "store", "modfd"}]
  /\ wreq \in [Workers -> Fds \union {NoFd}] /\ wload \in [Workers -> Int]
  /\ dropped \subseteq Fds /\ tainted \subseteq Fds /\ miscount \in BOOLEAN

(* Who may act on a connection next: epoll, main, the queue, a worker. *)
Holders(f) ==
  {<<"epoll", f>> : x \in {armed[f]} \intersect {"in", "out"}}
    \union {<<"main", e.kind>> : e \in {d \in batch : d.fd = f}}
    \union {<<"queue", n>> : n \in {i \in DOMAIN m_workqueue : m_workqueue[i] = f}}
    \union {<<"worker", w>> : w \in {v \in Workers : wreq[v] = f /\ wpc[v] = "process"}}

(* An open connection is in exactly one place: armed in epoll, reported to      *)
(* main, queued, or processed by one worker. So no two threads use its object,  *)
(* and none is forgotten, unless its request was dropped by append, or its      *)
(* descriptor was given out while a worker was still closing its predecessor    *)
(* (http_conn.cpp:52-61, 534-550; main.cpp:122-145).                            *)
OneHolder ==
  \A f \in open \ tainted :
    /\ bound[f]
    /\ Cardinality(Holders(f)) = IF f \in dropped THEN 0 ELSE 1

(* While nobody is updating it, m_user_count is the number of open connections, *)
(* unless two threads have updated it at the same time                          *)
(* (http_conn.cpp:59, 73; main.cpp:116).                                        *)
UserCountExact ==
  (mpc \in {"wait", "dispatch"} /\ (\A w \in Workers : wpc[w] \notin {"unbind", "store"})
     /\ ~miscount)
    => m_user_count = Cardinality(open)

(* Each post of the semaphore stands for one queued request: a worker that got  *)
(* through sem_wait finds a request (httpserver/threadpool.h:71-83, 98-106).    *)
SemaphoreMatchesQueue ==
  Len(m_workqueue) = m_queuestat + Cardinality({w \in Workers : wpc[w] = "pop"})

-----------------------------------------------------------------------------
(* The server as a keeper of connections.                                      *)

Processed(f) == Queued(f) \/ \E w \in Workers : wreq[w] = f /\ wpc[w] = "process"

(* Where a connection is, by whoever acts on it next; the event that reports a *)
(* hang-up does not say what the connection was armed for.                     *)
Phase(f) ==
  IF f \notin open THEN "closed"
  ELSE IF f \in tainted THEN "astray"
  ELSE IF f \in dropped THEN "refused"
  ELSE IF Processed(f) THEN "processing"
  ELSE IF \/ armed[f] = "out"
          \/ \E e \in batch : e.fd = f /\ (e.kind = "out" \/ (e.kind = "hup" /\ response[f]))
       THEN "answering" ELSE "reading"

Protocol == INSTANCE ConnectionProtocol WITH
  Conns <- Fds, phase <- [f \in Fds |-> Phase(f)],
  prepared <- [f \in Fds |-> f \in open \ tainted /\ response[f]]

(* However main and the workers take turns, a connection is read, processed and *)
(* answered in turn, and its object holds an answer exactly while it waits for  *)
(* write() (main.cpp:96-157; http_conn.cpp:52-104, 341-402, 534-550).           *)
ProtocolSpec == Protocol!Spec
=============================================================================
