------------------------------- MODULE Reactor -------------------------------
(***************************************************************************)
(* The single-threaded echo server of reactor.c: a table of event records, *)
(* one callback per record, and an epoll instance whose entries point into *)
(* the table. The kernel keeps the set of open descriptors, the epoll      *)
(* entries and what each connection has received; closing a descriptor     *)
(* takes it out of epoll, and its number may be given to the next          *)
(* connection.                                                             *)
(***************************************************************************)
EXTENDS Integers, FiniteSets

CONSTANTS
  MAX_EVENTS,   \* records for connections; the record at MAX_EVENTS is the listener's
  TIMEOUT,      \* units of time after which a silent client is to be closed (60 s)
  Backlog,      \* connections the kernel queues before accept
  Fds,          \* descriptors a connection can get
  Lfd, NoFd     \* the listening descriptor; the fd field of an unused record

ASSUME ReactorAssumption ==
  /\ MAX_EVENTS \in Nat \ {0} /\ TIMEOUT \in Nat \ {0} /\ Backlog \in Nat \ {0}
  /\ Fds \subseteq Nat /\ IsFiniteSet(Fds) /\ Lfd \notin Fds /\ NoFd \notin Fds \union {Lfd}

ConnSlots == 0..(MAX_EVENTS - 1)
Slots     == 0..MAX_EVENTS

VARIABLES
  g_events,     \* the table of struct myevent_s
  idle,         \* per record: time since last_active, up to TIMEOUT
  epoll,        \* entries of the epoll instance: [fd, events, ptr]
  open, inbox,  \* the kernel's open connections, and what each has to read
  backlog,      \* connections waiting for accept
  pc, batch,    \* where main is, and the reported events it has not handled yet
  refused,      \* history: descriptors accepted and given no record
  fresh         \*          descriptors accepted since epoll_wait returned

vars == <<g_events, idle, epoll, open, inbox, backlog, pc, batch, refused, fresh>>
kernelVars == <<open, inbox, backlog>>
tableVars  == <<g_events, idle, epoll>>
historyVars == <<refused, fresh>>

-----------------------------------------------------------------------------
(* eventset, eventadd and eventdel. Every eventadd follows an eventset of the  *)
(* same record, so it finds status 0 and adds; adding a descriptor that has an *)
(* entry fails and leaves the entry as it is.                                  *)

Unused == [fd |-> NoFd, events |-> "none", callback |-> "none", status |-> 0, length |-> 0]

(* A record after eventset, which clears its length, and eventadd. *)
Listening(f, callback, events) ==
  [fd |-> f, events |-> events, callback |-> callback, status |-> 1, length |-> 0]

Registered(E) == {r.fd : r \in E}

EventAdd(E, s, f, events) ==
  IF f \in Registered(E) THEN E ELSE E \union {[fd |-> f, events |-> events, ptr |-> s]}

EventDel(E, ev) == IF ev.status = 1 THEN {r \in E : r.fd # ev.fd} ELSE E

(* Mutant: epoll_ctl is given the record's old events. *)
RegisterOldEvents(E, s, f, callback, events) ==
  /\ g_events' = [g_events EXCEPT ![s] = Listening(f, callback, events)]
  /\ epoll' = EventAdd(E, s, f, g_events[s].events)
  /\ idle' = IF s \in ConnSlots THEN [idle EXCEPT ![s] = 0] ELSE idle

(* eventset and eventadd on record s, over the epoll entries E. *)
Register(E, s, f, callback, events) ==
  /\ g_events' = [g_events EXCEPT ![s] = Listening(f, callback, events)]
  /\ epoll' = EventAdd(E, s, f, events)
  /\ idle' = IF s \in ConnSlots THEN [idle EXCEPT ![s] = 0] ELSE idle

(* close of record s's descriptor together with eventdel of the record: what    *)
(* the client sent is gone.                                                    *)
CloseAndDelete(s) ==
  /\ open' = open \ {g_events[s].fd}
  /\ inbox' = [inbox EXCEPT ![g_events[s].fd] = "none"]
  /\ epoll' = {r \in EventDel(epoll, g_events[s]) : r.fd # g_events[s].fd}
  /\ g_events' = [g_events EXCEPT ![s].status = 0]

-----------------------------------------------------------------------------
(* initlistensocket: the listener has the last record.                        *)
Init ==
  /\ g_events = [s \in Slots |->
       IF s = MAX_EVENTS THEN Listening(Lfd, "acceptconn", "in") ELSE Unused]
  /\ epoll = {[fd |-> Lfd, events |-> "in", ptr |-> MAX_EVENTS]}
  /\ idle = [s \in ConnSlots |-> 0]
  /\ open = {} /\ inbox = [f \in Fds |-> "none"] /\ backlog = 0
  /\ pc = "check" /\ batch = {}
  /\ refused = {} /\ fresh = {}

-----------------------------------------------------------------------------
(* main                                                                       *)

(* The record the timeout check looks at: no statement advances checkpos, so   *)
(* each of the 100 rounds of one check looks at the same record.               *)
checkpos == 0

(* Mutant: the check runs between epoll_wait and the callbacks. *)
CheckTimeoutLate ==
  /\ pc \in {"check", "dispatch"}
  /\ IF g_events[checkpos].status = 1 /\ idle[checkpos] = TIMEOUT
     THEN CloseAndDelete(checkpos)
     ELSE UNCHANGED <<g_events, epoll, open, inbox>>
  /\ pc' = IF pc = "check" THEN "wait" ELSE pc
  /\ UNCHANGED <<idle, backlog, batch, historyVars>>

CheckTimeout ==
  /\ pc = "check"
  /\ IF g_events[checkpos].status = 1 /\ idle[checkpos] = TIMEOUT
     THEN CloseAndDelete(checkpos)
     ELSE UNCHANGED <<g_events, epoll, open, inbox>>
  /\ pc' = "wait"
  /\ UNCHANGED <<idle, backlog, batch, historyVars>>

(* epoll_wait reports every entry that is ready; a connection can always be    *)
(* written to.                                                                 *)
Ready(r) ==
  \/ r.events = "out"
  \/ r.fd = Lfd /\ backlog > 0
  \/ r.fd \in Fds /\ inbox[r.fd] # "none"

EpollWait ==
  /\ pc = "wait"
  /\ batch' = {r \in epoll : Ready(r)}
  /\ fresh' = {}
  /\ pc' = IF batch' = {} THEN "check" ELSE "dispatch"
  /\ UNCHANGED <<tableVars, kernelVars, refused>>

(* epoll_wait fails: main leaves its loop. *)
EpollFails ==
  /\ pc = "wait" /\ pc' = "exited"
  /\ UNCHANGED <<tableVars, kernelVars, batch, historyVars>>

(* Mutant: only one event of a batch is handled. *)
HandlesOnlyOne(e, callback) ==
  /\ pc = "dispatch" /\ e \in batch
  /\ g_events[e.ptr].events = e.events /\ g_events[e.ptr].callback = callback
  /\ batch' = {} /\ pc' = "check"

(* The event e leaves the batch; its callback, chosen from the record that e   *)
(* points to, runs if the record still asks for this kind of event.            *)
Handles(e, callback) ==
  /\ pc = "dispatch" /\ e \in batch
  /\ g_events[e.ptr].events = e.events /\ g_events[e.ptr].callback = callback
  /\ batch' = batch \ {e}
  /\ pc' = IF batch' = {} THEN "check" ELSE "dispatch"

-----------------------------------------------------------------------------
(* acceptconn                                                                 *)

FreeSlots == {s \in ConnSlots : g_events[s].status = 0}

(* The connection gets the lowest free descriptor and the first free record,   *)
(* unless there is none or fcntl fails: then its descriptor stays open and      *)
(* belongs to nobody.                                                           *)
AcceptConn(e, f) ==
  /\ Handles(e, "acceptconn")
  /\ backlog > 0 /\ f \in Fds \ open /\ \A g \in Fds \ open : f <= g
  /\ backlog' = backlog - 1
  /\ open' = open \union {f} /\ inbox' = [inbox EXCEPT ![f] = "none"]
  /\ \/ \E s \in FreeSlots :
          /\ \A u \in FreeSlots : s <= u
          /\ Register(epoll, s, f, "recvdata", "in")
          /\ UNCHANGED refused
     \/ refused' = refused \union {f} /\ UNCHANGED tableVars
  /\ fresh' = fresh \union {f}

(* accept fails: the client is gone, or no descriptor is left. *)
AcceptFails(e) ==
  /\ Handles(e, "acceptconn")
  /\ backlog' \in {backlog, backlog - 1} /\ backlog' >= 0
  /\ (Fds \ open # {} => backlog' = backlog - 1)
  /\ UNCHANGED <<tableVars, open, inbox, historyVars>>

-----------------------------------------------------------------------------
(* recvdata: what was received decides what happens to the connection.        *)

(* Mutant: the record is not taken out of epoll before it is registered again. *)
RecvSomethingNoDel(e) ==
  /\ Handles(e, "recvdata")
  /\ LET f == g_events[e.ptr].fd
     IN /\ inbox[f] = "data" /\ inbox' = [inbox EXCEPT ![f] = "none"]
        /\ Register(epoll, e.ptr, f, "senddata", "out")
  /\ UNCHANGED <<open, backlog, refused, fresh>>

(* Data: eventset resets the length that was just stored (lines 145, 149).     *)
RecvSomething(e) ==
  /\ Handles(e, "recvdata")
  /\ LET f == g_events[e.ptr].fd
     IN /\ inbox[f] = "data" /\ inbox' = [inbox EXCEPT ![f] = "none"]
        /\ Register(EventDel(epoll, g_events[e.ptr]), e.ptr, f, "senddata", "out")
  /\ UNCHANGED <<open, backlog, refused, fresh>>

(* Mutant: the descriptor is not closed. *)
RecvNothingNoClose(e) ==
  /\ Handles(e, "recvdata")
  /\ inbox[g_events[e.ptr].fd] # "data"
  /\ epoll' = EventDel(epoll, g_events[e.ptr])
  /\ g_events' = [g_events EXCEPT ![e.ptr].status = 0]
  /\ UNCHANGED <<open, idle, inbox, backlog, historyVars>>

(* End of file, an error, or nothing to read: the connection is closed. *)
RecvNothing(e) ==
  /\ Handles(e, "recvdata")
  /\ inbox[g_events[e.ptr].fd] # "data"
  /\ CloseAndDelete(e.ptr)
  /\ UNCHANGED <<idle, backlog, historyVars>>

(* senddata: send returns the record's length, or fails after a reset. Without *)
(* a byte sent the connection is closed.                                       *)
SendData(e) ==
  /\ Handles(e, "senddata")
  /\ LET ev == g_events[e.ptr]
     IN IF ev.length > 0 /\ inbox[ev.fd] # "reset"
        THEN /\ Register(EventDel(epoll, ev), e.ptr, ev.fd, "recvdata", "in")
             /\ UNCHANGED <<open, inbox>>
        ELSE CloseAndDelete(e.ptr) /\ UNCHANGED idle
  /\ UNCHANGED <<backlog, refused, fresh>>

-----------------------------------------------------------------------------
(* Clients and time                                                           *)

ClientConnects ==
  /\ backlog < Backlog /\ backlog' = backlog + 1
  /\ UNCHANGED <<tableVars, open, inbox, pc, batch, historyVars>>

(* A client sends, closes its side, or resets the connection; what one sends that  *)
(* acceptconn gave no record is not followed, because nothing reads it.            *)
ClientActs(f, what) ==
  /\ f \in open \ refused
  /\ \/ inbox[f] = "none"
     \/ inbox[f] \in {"data", "eof"} /\ what = "reset"
  /\ inbox' = [inbox EXCEPT ![f] = what]
  /\ UNCHANGED <<tableVars, open, backlog, pc, batch, historyVars>>

Tick ==
  /\ idle' = [s \in ConnSlots |->
                IF g_events[s].status = 1 /\ idle[s] < TIMEOUT THEN idle[s] + 1 ELSE idle[s]]
  /\ UNCHANGED <<g_events, epoll, kernelVars, pc, batch, historyVars>>

Callback(e) ==
  \/ \E f \in Fds : AcceptConn(e, f)
  \/ AcceptFails(e)
  \/ RecvSomething(e) \/ RecvNothing(e) \/ SendData(e)

Server == CheckTimeout \/ EpollWait \/ \E e \in batch : Callback(e)

Environment ==
  \/ ClientConnects
  \/ \E f \in Fds : ClientActs(f, "data") \/ ClientActs(f, "eof") \/ ClientActs(f, "reset")
  \/ Tick

Next == Server \/ EpollFails \/ Environment

Spec == Init /\ [][Next]_vars

(* The server's one thread goes on, and time passes. *)
FairSpec == Spec /\ WF_vars(Server) /\ WF_vars(Tick)

-----------------------------------------------------------------------------
(* Properties                                                                 *)

Record == [fd : Fds \union {Lfd, NoFd}, events : {"none", "in", "out"}, status : {0, 1},
           callback : {"none", "acceptconn", "recvdata", "senddata"}, length : {0, 1}]
Entry  == [fd : Fds \union {Lfd}, events : {"in", "out"}, ptr : Slots]

(* Every variable has its type. *)
TypeOK ==
  /\ g_events \in [Slots -> Record] /\ idle \in [ConnSlots -> 0..TIMEOUT]
  /\ epoll \subseteq Entry /\ batch \subseteq Entry
  /\ open \subseteq Fds /\ inbox \in [Fds -> {"none", "data", "eof", "reset"}]
  /\ backlog \in 0..Backlog
  /\ pc \in {"check", "wait", "dispatch", "exited"}
  /\ refused \subseteq Fds /\ fresh \subseteq Fds

(* A record says it is on the epoll tree (status 1) exactly when the kernel     *)
(* holds the entry that points to it, for the same descriptor and the same      *)
(* kind of event (reactor.c:60-91).                                             *)
RegistrationExact ==
  epoll = {[fd |-> g_events[s].fd, events |-> g_events[s].events, ptr |-> s] :
             s \in {u \in Slots : g_events[u].status = 1}}

(* Every open connection belongs to a record in use, or is one that acceptconn  *)
(* gave no record (reactor.c:107-128, 152-160, 178-181).                        *)
OpenAccounted ==
  open = {g_events[s].fd : s \in {u \in ConnSlots : g_events[u].status = 1}} \union refused

(* No event is stale when its callback runs: nothing between epoll_wait and the *)
(* callback closed the connection or gave its descriptor to another one         *)
(* (reactor.c:256-266).                                                         *)
NoStaleEvent ==
  \A e \in batch :
    /\ e \in epoll /\ g_events[e.ptr].status = 1 /\ g_events[e.ptr].fd = e.fd
    /\ e.fd \notin fresh

(* A connection that is registered for reading and has something to read is     *)
(* served, as long as main runs.                                                *)
Readable(f) == inbox[f] # "none" /\ \E r \in epoll : r.fd = f /\ r.events = "in"
ReadableIsServed == \A f \in Fds : Readable(f) ~> (~Readable(f) \/ pc = "exited")

(* The server seen from its connections: which record, which entry and which   *)
(* descriptor a connection has is not seen.                                     *)
Serves(s, f) == g_events[s].status = 1 /\ g_events[s].fd = f

Phase(f) ==
  IF f \notin open THEN "closed" ELSE IF f \in refused THEN "leaked"
  ELSE IF \E s \in ConnSlots : Serves(s, f) /\ g_events[s].callback = "senddata" THEN "writing"
  ELSE "reading"

Overdue(f) == \E s \in ConnSlots : Serves(s, f) /\ idle[s] = TIMEOUT

Echo == INSTANCE EchoService WITH
  Conns <- Fds, phase <- [f \in Fds |-> Phase(f)], overdue <- {f \in Fds : Overdue(f)}

(* Whatever records and descriptors are used again, each callback acts on the   *)
(* connection whose event was reported, and a client is only closed when it has  *)
(* ended the connection, was silent, or could not be sent to                     *)
(* (reactor.c:60-181, 226-266).                                                  *)
EchoSpec == Echo!Spec

(* senddata, which is called for what recvdata has received, writes something    *)
(* back when the client has not reset the connection (reactor.c:169).            *)
EchoesData ==
  [][\A e \in batch : SendData(e) /\ inbox[g_events[e.ptr].fd] # "reset"
                        => g_events[e.ptr].length > 0]_vars

(* A client that is silent for the timeout is closed (reactor.c:232). *)
IdleClientClosed ==
  \A s \in ConnSlots :
    (g_events[s].status = 1 /\ idle[s] = TIMEOUT)
      ~> (g_events[s].status = 0 \/ idle[s] < TIMEOUT \/ pc = "exited")
=============================================================================
