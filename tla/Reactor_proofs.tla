--------------------------- MODULE Reactor_proofs ---------------------------
(***************************************************************************)
(* Theorems about the reactor: its table of records, the epoll instance    *)
(* and the open descriptors agree, and no event of a batch is stale, for   *)
(* any number of records and of descriptors.                               *)
(***************************************************************************)
EXTENDS Reactor, TLAPS

InUse == {s \in Slots : g_events[s].status = 1}
EntryOf(s) == [fd |-> g_events[s].fd, events |-> g_events[s].events, ptr |-> s]
Others(s) == {EntryOf(u) : u \in InUse \ {s}}    \* the entries of the other records

(* The listener keeps the last record; the others are for connections. *)
RolesKept ==
  /\ g_events[MAX_EVENTS].status = 1 /\ g_events[MAX_EVENTS].fd = Lfd
  /\ g_events[MAX_EVENTS].callback = "acceptconn"
  /\ \A s \in InUse \ {MAX_EVENTS} :
       g_events[s].fd \in Fds /\ g_events[s].callback # "acceptconn"

(* A descriptor has at most one owner: one record, or nobody for good. *)
OneOwner ==
  /\ \A s \in InUse, u \in InUse : g_events[s].fd = g_events[u].fd => s = u
  /\ \A s \in InUse : g_events[s].fd \notin refused

(* Events exist only between epoll_wait and the last callback. *)
BatchInDispatch == pc # "dispatch" => batch = {}

TableInv == RegistrationExact /\ OpenAccounted /\ NoStaleEvent /\ RolesKept /\ OneOwner

RegInv == TypeOK /\ TableInv /\ BatchInDispatch

-----------------------------------------------------------------------------
(* Facts about a state.                                                      *)

LEMMA SlotFacts ==
  /\ MAX_EVENTS \in Slots /\ MAX_EVENTS \notin ConnSlots
  /\ ConnSlots = Slots \ {MAX_EVENTS}
  /\ Lfd \notin Fds
BY ReactorAssumption DEF Slots, ConnSlots

(* The two properties, said with InUse. *)
LEMMA ExactInUse ==
  ASSUME RegInv
  PROVE  /\ epoll = {EntryOf(s) : s \in InUse}
         /\ open = {g_events[s].fd : s \in InUse \ {MAX_EVENTS}} \union refused
<1>1. epoll = {EntryOf(s) : s \in InUse}
  BY DEF RegInv, TableInv, RegistrationExact, InUse, EntryOf
<1>2. {u \in ConnSlots : g_events[u].status = 1} = InUse \ {MAX_EVENTS}
  BY SlotFacts DEF InUse
<1>. QED
  BY <1>1, <1>2 DEF RegInv, TableInv, OpenAccounted

(* eventdel takes the record's entry out of epoll, and no other. *)
LEMMA EventDelExact ==
  ASSUME RegInv, NEW s \in InUse
  PROVE  EventDel(epoll, g_events[s]) = Others(s)
<1>1. \A u \in InUse : EntryOf(u).fd = g_events[u].fd
  BY DEF EntryOf
<1>2. EventDel(epoll, g_events[s]) = {r \in epoll : r.fd # g_events[s].fd}
  BY DEF EventDel, InUse
<1>. QED
  BY <1>1, <1>2, ExactInUse DEF RegInv, TableInv, OneOwner, Others

(* An event that is handled is the entry of the record it points to. *)
LEMMA HandledEntry ==
  ASSUME RegInv, NEW e \in batch
  PROVE  e.ptr \in InUse /\ e = EntryOf(e.ptr)
<1>1. e \in epoll
  BY DEF RegInv, TableInv, NoStaleEvent
<1>2. PICK s \in InUse : e = EntryOf(s)
  BY <1>1, ExactInUse
<1>. QED
  BY <1>2 DEF EntryOf

-----------------------------------------------------------------------------
(* What the two ways of changing a record do to the table.                   *)

(* eventset and eventadd, when no other record has the descriptor. *)
LEMMA RegisterStep ==
  ASSUME RegInv, NEW s \in ConnSlots, NEW f \in Fds,
         NEW callback \in {"recvdata", "senddata"}, NEW events \in {"in", "out"},
         \A u \in InUse \ {s} : g_events[u].fd # f,
         Register(Others(s), s, f, callback, events)
  PROVE  /\ g_events' \in [Slots -> Record] /\ idle' \in [ConnSlots -> 0..TIMEOUT]
         /\ epoll' \subseteq Entry
         /\ InUse' = InUse \union {s}
         /\ \A u \in Slots \ {s} : g_events'[u] = g_events[u]
         /\ g_events'[s].fd = f /\ g_events'[s].callback = callback
         /\ RegistrationExact'
         /\ epoll' = Others(s) \union {[fd |-> f, events |-> events, ptr |-> s]}
<1> DEFINE new == Listening(f, callback, events)
<1>1. s \in Slots /\ new \in Record
  BY SlotFacts DEF Record, Listening
<1>2. g_events' = [g_events EXCEPT ![s] = new]
  BY DEF Register
<1>3. g_events' \in [Slots -> Record]
  BY <1>1, <1>2 DEF RegInv, TypeOK
<1>4. g_events'[s] = new /\ \A u \in Slots \ {s} : g_events'[u] = g_events[u]
  BY <1>1, <1>2 DEF RegInv, TypeOK
<1>5. InUse' = InUse \union {s}
  BY <1>1, <1>4 DEF InUse, Listening
<1>6. idle' \in [ConnSlots -> 0..TIMEOUT]
  <2>1. 0 \in 0..TIMEOUT
    BY ReactorAssumption
  <2>2. idle' = [idle EXCEPT ![s] = 0]
    BY DEF Register
  <2>. QED
    BY <2>1, <2>2 DEF RegInv, TypeOK
<1>7. f \notin Registered(Others(s))
  BY DEF Registered, EntryOf, Others
<1>8. epoll' = Others(s) \union {[fd |-> f, events |-> events, ptr |-> s]}
  BY <1>7 DEF Register, EventAdd
<1>9. \A u \in InUse \ {s} : EntryOf(u)' = EntryOf(u) /\ EntryOf(u) \in epoll
  BY <1>4, ExactInUse DEF EntryOf, InUse
<1>10. EntryOf(s)' = [fd |-> f, events |-> events, ptr |-> s]
  BY <1>4 DEF EntryOf, Listening
<1>11. epoll' = {EntryOf(u) : u \in InUse}'
  BY <1>5, <1>8, <1>9, <1>10 DEF Others
<1>12. epoll' \subseteq Entry
  BY <1>1, <1>8, <1>9 DEF RegInv, TypeOK, Entry, Others
<1>. QED
  BY <1>3, <1>4, <1>5, <1>6, <1>8, <1>11, <1>12
  DEF RegistrationExact, EntryOf, InUse, Listening

(* close and eventdel. *)
LEMMA CloseStep ==
  ASSUME RegInv, NEW s \in InUse \ {MAX_EVENTS}, CloseAndDelete(s)
  PROVE  /\ g_events' \in [Slots -> Record] /\ epoll' \subseteq Entry
         /\ inbox' \in [Fds -> {"none", "data", "eof", "reset"}]
         /\ InUse' = InUse \ {s}
         /\ \A u \in Slots \ {s} : g_events'[u] = g_events[u]
         /\ RegistrationExact'
         /\ epoll' = Others(s)
         /\ open' = open \ {g_events[s].fd}
<1>1. s \in Slots
  BY DEF InUse
<1>2. \A u \in Slots : g_events'[u] = IF u = s THEN [g_events[s] EXCEPT !.status = 0]
                                               ELSE g_events[u]
  BY <1>1 DEF RegInv, TypeOK, CloseAndDelete
<1>3. g_events' \in [Slots -> Record] /\ g_events'[s].status = 0
  BY <1>1, <1>2 DEF RegInv, TypeOK, CloseAndDelete, Record
<1>4. InUse' = InUse \ {s}
  BY <1>1, <1>2, <1>3 DEF InUse
<1>5. epoll' = Others(s)
  <2>1. \A u \in InUse \ {s} : EntryOf(u).fd # g_events[s].fd
    BY DEF RegInv, TableInv, OneOwner, EntryOf
  <2>. QED
    BY <2>1, EventDelExact DEF CloseAndDelete, Others
<1>6. \A u \in InUse \ {s} : EntryOf(u)' = EntryOf(u) /\ EntryOf(u) \in epoll
  BY <1>2, ExactInUse DEF EntryOf, InUse
<1>7. epoll' = {EntryOf(u) : u \in InUse}'
  BY <1>4, <1>5, <1>6 DEF Others
<1>8. epoll' \subseteq Entry
  BY <1>5, <1>6 DEF RegInv, TypeOK, Others
<1>9. inbox' \in [Fds -> {"none", "data", "eof", "reset"}]
  BY DEF RegInv, TypeOK, CloseAndDelete
<1>. QED
  BY <1>2, <1>3, <1>4, <1>5, <1>7, <1>8, <1>9
  DEF RegistrationExact, EntryOf, InUse, CloseAndDelete

-----------------------------------------------------------------------------
(* The two changes keep the table, the kernel and the batch in step.         *)

(* A record is registered again for its descriptor, or a free one for a new    *)
(* descriptor, and no event that is left points to it.                         *)
LEMMA RegisterTable ==
  ASSUME RegInv, NEW s \in ConnSlots, NEW f \in Fds,
         NEW callback \in {"recvdata", "senddata"}, NEW events \in {"in", "out"},
         Register(Others(s), s, f, callback, events),
         refused' = refused, open' = open \union {f},
         batch' \subseteq batch, \A e \in batch' : e.ptr # s,
         \/ s \in InUse /\ g_events[s].fd = f /\ fresh' = fresh
         \/ s \notin InUse /\ f \notin open /\ fresh' = fresh \union {f}
  PROVE  /\ TableInv'
         /\ g_events' \in [Slots -> Record] /\ idle' \in [ConnSlots -> 0..TIMEOUT]
         /\ epoll' \subseteq Entry
<1>1. \A u \in InUse \ {MAX_EVENTS} : g_events[u].fd \in open
  BY ExactInUse
<1>2. f \notin refused
  BY ExactInUse DEF RegInv, TableInv, OneOwner
<1>3. \A u \in InUse \ {s} : g_events[u].fd # f
  BY <1>1, SlotFacts DEF RegInv, TableInv, OneOwner, RolesKept
<1>4. /\ g_events' \in [Slots -> Record] /\ idle' \in [ConnSlots -> 0..TIMEOUT]
      /\ epoll' \subseteq Entry
      /\ InUse' = InUse \union {s}
      /\ \A u \in Slots \ {s} : g_events'[u] = g_events[u]
      /\ g_events'[s].fd = f /\ g_events'[s].callback = callback
      /\ RegistrationExact'
      /\ epoll' = Others(s) \union {[fd |-> f, events |-> events, ptr |-> s]}
  BY <1>2, <1>3, RegisterStep
<1>5. s # MAX_EVENTS /\ InUse \subseteq Slots
  BY SlotFacts DEF InUse
<1>6. OpenAccounted'
  <2>1. {u \in ConnSlots : g_events'[u].status = 1} = (InUse \ {MAX_EVENTS}) \union {s}
    BY <1>4, <1>5, SlotFacts DEF InUse
  <2>2. open' = {g_events'[u].fd : u \in (InUse \ {MAX_EVENTS}) \union {s}} \union refused
    BY <1>4, <1>5, ExactInUse
  <2>. QED
    BY <2>1, <2>2 DEF OpenAccounted
<1>7. NoStaleEvent'
  <2> SUFFICES ASSUME NEW e \in batch'
               PROVE  e \in epoll' /\ g_events'[e.ptr].status = 1 /\ g_events'[e.ptr].fd = e.fd
                      /\ e.fd \notin fresh'
    BY DEF NoStaleEvent
  <2>1. e.ptr \in InUse \ {s} /\ e = EntryOf(e.ptr)
    BY HandledEntry
  <2>2. e \in epoll' /\ g_events'[e.ptr] = g_events[e.ptr]
    BY <1>4, <1>5, <2>1 DEF Others
  <2>3. g_events[e.ptr].status = 1 /\ g_events[e.ptr].fd = e.fd /\ e.fd \notin fresh
    BY DEF RegInv, TableInv, NoStaleEvent
  <2>. QED
    BY <1>3, <2>1, <2>2, <2>3
<1>8. RolesKept'
  BY <1>4, <1>5, SlotFacts DEF RegInv, TableInv, RolesKept
<1>9. OneOwner'
  BY <1>2, <1>3, <1>4, <1>5 DEF RegInv, TableInv, OneOwner
<1>. QED
  BY <1>4, <1>6, <1>7, <1>8, <1>9 DEF TableInv

(* A connection is closed, and no event that is left points to its record. *)
LEMMA CloseTable ==
  ASSUME RegInv, NEW s \in InUse \ {MAX_EVENTS}, CloseAndDelete(s),
         refused' = refused, fresh' = fresh,
         batch' \subseteq batch, \A e \in batch' : e.ptr # s
  PROVE  /\ TableInv'
         /\ g_events' \in [Slots -> Record] /\ epoll' \subseteq Entry /\ open' \subseteq Fds
         /\ inbox' \in [Fds -> {"none", "data", "eof", "reset"}]
<1>1. /\ g_events' \in [Slots -> Record] /\ epoll' \subseteq Entry
      /\ inbox' \in [Fds -> {"none", "data", "eof", "reset"}]
      /\ InUse' = InUse \ {s}
      /\ \A u \in Slots \ {s} : g_events'[u] = g_events[u]
      /\ RegistrationExact'
      /\ epoll' = Others(s)
      /\ open' = open \ {g_events[s].fd}
  BY CloseStep
<1>2. InUse \subseteq Slots /\ MAX_EVENTS \in InUse
  BY SlotFacts DEF InUse, RegInv, TableInv, RolesKept
<1>3. OpenAccounted'
  <2>1. {u \in ConnSlots : g_events'[u].status = 1} = InUse \ {MAX_EVENTS, s}
    <3>1. {u \in ConnSlots : g_events'[u].status = 1} = InUse' \ {MAX_EVENTS}
      BY SlotFacts DEF InUse
    <3>. QED
      BY <1>1, <3>1
  <2>2. open' = {g_events'[u].fd : u \in InUse \ {MAX_EVENTS, s}} \union refused
    BY <1>1, <1>2, ExactInUse DEF RegInv, TableInv, OneOwner, Others
  <2>. QED
    BY <2>1, <2>2 DEF OpenAccounted
<1>4. NoStaleEvent'
  <2> SUFFICES ASSUME NEW e \in batch'
               PROVE  e \in epoll' /\ g_events'[e.ptr].status = 1 /\ g_events'[e.ptr].fd = e.fd
                      /\ e.fd \notin fresh'
    BY DEF NoStaleEvent
  <2>1. e.ptr \in InUse \ {s} /\ e = EntryOf(e.ptr)
    BY HandledEntry
  <2>2. e \in epoll' /\ g_events'[e.ptr] = g_events[e.ptr]
    BY <1>1, <1>2, <2>1 DEF Others
  <2>. QED
    BY <2>2 DEF RegInv, TableInv, NoStaleEvent
<1>5. RolesKept'
  BY <1>1, <1>2 DEF RegInv, TableInv, RolesKept
<1>6. OneOwner'
  BY <1>1, <1>2 DEF RegInv, TableInv, OneOwner
<1>. QED
  BY <1>1, <1>3, <1>4, <1>5, <1>6 DEF TableInv, RegInv, TypeOK

(* Nothing of the table changes, and the batch only loses events. *)
LEMMA FrameTable ==
  ASSUME RegInv, UNCHANGED <<g_events, epoll, open, refused, fresh>>, batch' \subseteq batch
  PROVE  TableInv'
BY DEF RegInv, TableInv, RegistrationExact, OpenAccounted, NoStaleEvent, RolesKept, OneOwner, InUse

-----------------------------------------------------------------------------
(* The actions.                                                              *)

LEMMA InitReg ==
  Init => RegInv
<1> SUFFICES ASSUME Init PROVE RegInv
  OBVIOUS
<1>1. /\ MAX_EVENTS \in Slots /\ g_events \in [Slots -> Record]
      /\ g_events[MAX_EVENTS] = Listening(Lfd, "acceptconn", "in")
      /\ \A s \in ConnSlots : g_events[s] = Unused
  BY SlotFacts DEF Init, Record, Listening, Unused
<1>2. InUse = {MAX_EVENTS}
  BY <1>1, SlotFacts DEF InUse, Listening, Unused
<1>3. TypeOK
  BY <1>1, ReactorAssumption DEF Init, TypeOK, Entry
<1>4. RegistrationExact
  BY <1>1, <1>2 DEF Init, RegistrationExact, InUse, Listening
<1>5. OpenAccounted
  BY <1>1 DEF Init, OpenAccounted, Unused
<1>. QED
  BY <1>1, <1>2, <1>3, <1>4, <1>5
  DEF Init, RegInv, TableInv, NoStaleEvent, RolesKept, OneOwner, BatchInDispatch, Listening

(* The part of the type invariant that the table lemmas do not give. *)
LEMMA BatchLoses ==
  ASSUME RegInv, NEW e \in batch, NEW callback, Handles(e, callback)
  PROVE  /\ batch' \subseteq batch /\ batch' \subseteq Entry
         /\ pc' \in {"check", "wait", "dispatch", "exited"} /\ BatchInDispatch'
         /\ \A d \in batch' : d.ptr # e.ptr
         /\ e.ptr \in InUse /\ e.ptr \in Slots
         /\ g_events[e.ptr].callback = callback
<1>1. batch' = batch \ {e}
  BY DEF Handles
<1>2. e.ptr \in InUse /\ e = EntryOf(e.ptr) /\ \A d \in batch : d = EntryOf(d.ptr)
  BY HandledEntry
<1>. QED
  BY <1>1, <1>2 DEF Handles, RegInv, TypeOK, BatchInDispatch, InUse

LEMMA AcceptReg ==
  ASSUME RegInv, NEW e \in batch, NEW f \in Fds, AcceptConn(e, f)
  PROVE  RegInv'
<1>1. /\ batch' \subseteq batch /\ batch' \subseteq Entry
      /\ pc' \in {"check", "wait", "dispatch", "exited"} /\ BatchInDispatch'
  BY BatchLoses DEF AcceptConn
<1>2. /\ open' = open \union {f} /\ fresh' = fresh \union {f} /\ f \notin open
      /\ open' \subseteq Fds /\ fresh' \subseteq Fds
      /\ inbox' \in [Fds -> {"none", "data", "eof", "reset"}]
      /\ backlog' \in 0..Backlog
  BY ReactorAssumption DEF AcceptConn, RegInv, TypeOK
<1>3. CASE \E s \in FreeSlots : /\ Register(epoll, s, f, "recvdata", "in")
                                /\ UNCHANGED refused
  <2>1. PICK s \in FreeSlots : Register(epoll, s, f, "recvdata", "in")
    BY <1>3
  <2>2. s \in ConnSlots /\ s \notin InUse
    BY DEF FreeSlots, InUse
  <2>3. epoll = Others(s)
    BY <2>2, ExactInUse DEF Others
  <2>4. \A d \in batch' : d.ptr # s
    BY <1>1, <2>2, HandledEntry
  <2>5. Register(Others(s), s, f, "recvdata", "in")
    BY <2>1, <2>3
  <2>6. refused' = refused
    BY <1>3
  <2>7. /\ TableInv'
        /\ g_events' \in [Slots -> Record] /\ idle' \in [ConnSlots -> 0..TIMEOUT]
        /\ epoll' \subseteq Entry
    BY <1>1, <1>2, <2>2, <2>4, <2>5, <2>6, RegisterTable
  <2>. QED
    BY <1>1, <1>2, <2>6, <2>7 DEF RegInv, TypeOK
<1>4. CASE refused' = refused \union {f} /\ UNCHANGED tableVars
  <2>1. UNCHANGED <<g_events, idle, epoll>> /\ InUse' = InUse
    BY <1>4 DEF tableVars, InUse
  <2>2. \A s \in InUse : g_events[s].fd # f
    BY <1>2, ExactInUse, SlotFacts DEF RegInv, TableInv, RolesKept
  <2>3. OpenAccounted'
    BY <1>2, <1>4, <2>1 DEF RegInv, TableInv, OpenAccounted
  <2>4. NoStaleEvent'
    <3>1. \A d \in batch' : d.ptr \in InUse /\ d.fd = g_events[d.ptr].fd
      BY <1>1, HandledEntry DEF EntryOf
    <3>. QED
      BY <1>1, <1>2, <2>1, <2>2, <3>1 DEF RegInv, TableInv, NoStaleEvent
  <2>5. OneOwner' /\ RolesKept' /\ RegistrationExact'
    BY <1>4, <2>1, <2>2 DEF RegInv, TableInv, OneOwner, RolesKept, RegistrationExact
  <2>. QED
    BY <1>1, <1>2, <1>4, <2>1, <2>3, <2>4, <2>5 DEF RegInv, TypeOK, TableInv
<1>. QED
  BY <1>3, <1>4 DEF AcceptConn

LEMMA RecvSomethingReg ==
  ASSUME RegInv, NEW e \in batch, RecvSomething(e)
  PROVE  RegInv'
<1>1. /\ batch' \subseteq batch /\ batch' \subseteq Entry
      /\ pc' \in {"check", "wait", "dispatch", "exited"} /\ BatchInDispatch'
      /\ \A d \in batch' : d.ptr # e.ptr
      /\ e.ptr \in InUse /\ g_events[e.ptr].callback = "recvdata"
  BY BatchLoses DEF RecvSomething
<1>2. e.ptr \in ConnSlots /\ g_events[e.ptr].fd \in Fds /\ g_events[e.ptr].fd \in open
  BY <1>1, SlotFacts, ExactInUse DEF RegInv, TableInv, RolesKept, InUse
<1>3. PICK f \in Fds : f = g_events[e.ptr].fd
  BY <1>2
<1>4. Register(Others(e.ptr), e.ptr, f, "senddata", "out")
  BY <1>1, <1>3, EventDelExact DEF RecvSomething
<1>5. open' = open \union {f} /\ refused' = refused /\ fresh' = fresh
  BY <1>2, <1>3 DEF RecvSomething
<1>6. /\ TableInv'
      /\ g_events' \in [Slots -> Record] /\ idle' \in [ConnSlots -> 0..TIMEOUT]
      /\ epoll' \subseteq Entry
  BY <1>1, <1>2, <1>3, <1>4, <1>5, RegisterTable
<1>7. /\ inbox' \in [Fds -> {"none", "data", "eof", "reset"}]
      /\ open' \subseteq Fds /\ backlog' = backlog
  BY <1>3 DEF RecvSomething, RegInv, TypeOK
<1>. QED
  BY <1>1, <1>5, <1>6, <1>7 DEF RegInv, TypeOK

LEMMA RecvNothingReg ==
  ASSUME RegInv, NEW e \in batch, RecvNothing(e)
  PROVE  RegInv'
<1>1. /\ batch' \subseteq batch /\ batch' \subseteq Entry
      /\ pc' \in {"check", "wait", "dispatch", "exited"} /\ BatchInDispatch'
      /\ \A d \in batch' : d.ptr # e.ptr
      /\ e.ptr \in InUse /\ g_events[e.ptr].callback = "recvdata"
  BY BatchLoses DEF RecvNothing
<1>2. e.ptr \in InUse \ {MAX_EVENTS}
  BY <1>1 DEF RegInv, TableInv, RolesKept
<1>3. CloseAndDelete(e.ptr) /\ UNCHANGED <<idle, backlog, refused, fresh>>
  BY DEF RecvNothing, historyVars
<1>4. /\ TableInv'
      /\ g_events' \in [Slots -> Record] /\ epoll' \subseteq Entry /\ open' \subseteq Fds
      /\ inbox' \in [Fds -> {"none", "data", "eof", "reset"}]
  BY <1>1, <1>2, <1>3, CloseTable
<1>. QED
  BY <1>1, <1>3, <1>4 DEF RegInv, TypeOK

LEMMA SendDataReg ==
  ASSUME RegInv, NEW e \in batch, SendData(e)
  PROVE  RegInv'
<1>1. /\ batch' \subseteq batch /\ batch' \subseteq Entry
      /\ pc' \in {"check", "wait", "dispatch", "exited"} /\ BatchInDispatch'
      /\ \A d \in batch' : d.ptr # e.ptr
      /\ e.ptr \in InUse /\ g_events[e.ptr].callback = "senddata"
  BY BatchLoses DEF SendData
<1>2. /\ e.ptr \in InUse \ {MAX_EVENTS} /\ e.ptr \in ConnSlots
      /\ g_events[e.ptr].fd \in Fds /\ g_events[e.ptr].fd \in open
  BY <1>1, SlotFacts, ExactInUse DEF RegInv, TableInv, RolesKept, InUse
<1>3. UNCHANGED <<backlog, refused, fresh>>
  BY DEF SendData
<1>4. PICK f \in Fds : f = g_events[e.ptr].fd
  BY <1>2
<1>5. CASE /\ Register(EventDel(epoll, g_events[e.ptr]), e.ptr, f, "recvdata", "in")
           /\ UNCHANGED <<open, inbox>>
  <2>1. Register(Others(e.ptr), e.ptr, f, "recvdata", "in")
    BY <1>1, <1>5, EventDelExact
  <2>2. open' = open \union {f}
    BY <1>2, <1>4, <1>5
  <2>3. /\ TableInv'
        /\ g_events' \in [Slots -> Record] /\ idle' \in [ConnSlots -> 0..TIMEOUT]
        /\ epoll' \subseteq Entry
    BY <1>1, <1>2, <1>3, <1>4, <2>1, <2>2, RegisterTable
  <2>. QED
    BY <1>1, <1>3, <1>5, <2>3 DEF RegInv, TypeOK
<1>6. CASE CloseAndDelete(e.ptr) /\ UNCHANGED idle
  <2>1. /\ TableInv'
        /\ g_events' \in [Slots -> Record] /\ epoll' \subseteq Entry /\ open' \subseteq Fds
        /\ inbox' \in [Fds -> {"none", "data", "eof", "reset"}]
    BY <1>1, <1>2, <1>3, <1>6, CloseTable
  <2>. QED
    BY <1>1, <1>3, <1>6, <2>1 DEF RegInv, TypeOK
<1>. QED
  BY <1>4, <1>5, <1>6 DEF SendData

LEMMA AcceptFailsReg ==
  ASSUME RegInv, NEW e \in batch, AcceptFails(e)
  PROVE  RegInv'
<1>1. /\ batch' \subseteq batch /\ batch' \subseteq Entry
      /\ pc' \in {"check", "wait", "dispatch", "exited"} /\ BatchInDispatch'
  BY BatchLoses DEF AcceptFails
<1>2. UNCHANGED <<g_events, idle, epoll, open, inbox, refused, fresh>>
  BY DEF AcceptFails, tableVars, historyVars
<1>3. backlog' \in 0..Backlog
  BY ReactorAssumption DEF AcceptFails, RegInv, TypeOK
<1>. QED
  BY <1>1, <1>2, <1>3, FrameTable DEF RegInv, TypeOK

LEMMA CheckTimeoutReg ==
  ASSUME RegInv, CheckTimeout
  PROVE  RegInv'
<1>1. batch' = batch /\ batch = {} /\ pc' = "wait"
      /\ UNCHANGED <<idle, backlog, refused, fresh>>
  BY DEF CheckTimeout, RegInv, BatchInDispatch, historyVars
<1>2. CASE UNCHANGED <<g_events, epoll, open, inbox>>
  BY <1>1, <1>2, FrameTable DEF RegInv, TypeOK, BatchInDispatch
<1>3. CASE g_events[checkpos].status = 1 /\ CloseAndDelete(checkpos)
  <2>1. checkpos \in InUse \ {MAX_EVENTS}
    BY <1>3, ReactorAssumption DEF InUse, checkpos, Slots
  <2>2. /\ TableInv'
        /\ g_events' \in [Slots -> Record] /\ epoll' \subseteq Entry /\ open' \subseteq Fds
        /\ inbox' \in [Fds -> {"none", "data", "eof", "reset"}]
    BY <1>1, <1>3, <2>1, CloseTable
  <2>. QED
    BY <1>1, <2>2 DEF RegInv, TypeOK, BatchInDispatch
<1>. QED
  BY <1>2, <1>3 DEF CheckTimeout

LEMMA EpollWaitReg ==
  ASSUME RegInv, EpollWait
  PROVE  RegInv'
<1>1. /\ batch' \subseteq epoll /\ fresh' = {}
      /\ UNCHANGED <<g_events, idle, epoll, open, inbox, backlog, refused>>
  BY DEF EpollWait, tableVars, kernelVars
<1>2. NoStaleEvent'
  <2>1. \A e \in batch' : e.ptr \in InUse /\ e = EntryOf(e.ptr)
    BY <1>1, ExactInUse DEF EntryOf
  <2>. QED
    BY <1>1, <2>1 DEF NoStaleEvent, InUse, EntryOf
<1>3. pc' \in {"check", "dispatch"} /\ BatchInDispatch'
  BY DEF EpollWait, BatchInDispatch
<1>. QED
  BY <1>1, <1>2, <1>3
  DEF RegInv, TypeOK, TableInv, RegistrationExact, OpenAccounted, RolesKept, OneOwner, InUse

(* Clients, time and the failure of epoll_wait leave the table alone. *)
LEMMA QuietReg ==
  ASSUME RegInv, Environment \/ EpollFails \/ UNCHANGED vars
  PROVE  RegInv'
<1>1. UNCHANGED <<g_events, epoll, open, refused, fresh, batch>>
  BY DEF Environment, ClientConnects, ClientActs, Tick, EpollFails, vars, tableVars, kernelVars,
         historyVars
<1>2. pc' = pc \/ (pc = "wait" /\ pc' = "exited")
  BY DEF Environment, ClientConnects, ClientActs, Tick, EpollFails, vars
<1>3. idle' \in [ConnSlots -> 0..TIMEOUT] /\ backlog' \in 0..Backlog
  BY ReactorAssumption
  DEF Environment, ClientConnects, ClientActs, Tick, EpollFails, vars, tableVars, kernelVars,
      RegInv, TypeOK
<1>4. inbox' \in [Fds -> {"none", "data", "eof", "reset"}]
  BY DEF Environment, ClientConnects, ClientActs, Tick, EpollFails, vars, kernelVars, RegInv, TypeOK
<1>. QED
  BY <1>1, <1>2, <1>3, <1>4, FrameTable DEF RegInv, TypeOK, BatchInDispatch

-----------------------------------------------------------------------------
LEMMA TableInvariant == Spec => []RegInv
<1>1. Init => RegInv
  BY InitReg
<1>2. RegInv /\ [Next]_vars => RegInv'
  BY AcceptReg, AcceptFailsReg, RecvSomethingReg, RecvNothingReg, SendDataReg, CheckTimeoutReg,
     EpollWaitReg, QuietReg
  DEF Next, Server, Callback
<1>. QED
  BY <1>1, <1>2, PTL DEF Spec

(* The reactor's own record of what epoll holds is exact, so that every          *)
(* epoll_ctl call, whose result nobody looks at, succeeds (reactor.c:60-91).     *)
THEOREM TableCorrect == Spec => [](TypeOK /\ RegistrationExact)
<1>1. RegInv => TypeOK /\ RegistrationExact
  BY DEF RegInv, TableInv
<1>. QED
  BY <1>1, TableInvariant, PTL

(* Every open connection has a record, or is one that acceptconn could give      *)
(* none; and no record in use holds a closed descriptor                          *)
(* (reactor.c:107-128, 152-160, 178-181).                                        *)
THEOREM ConnectionsOwned == Spec => []OpenAccounted
<1>1. RegInv => OpenAccounted
  BY DEF RegInv, TableInv
<1>. QED
  BY <1>1, TableInvariant, PTL

(* A batch is still valid when its last callback runs, although callbacks close  *)
(* connections and accept gives their descriptors out again (reactor.c:256-266): *)
(* connections are closed only by the callback of their own event and by the     *)
(* idle check, which runs between two batches.                                   *)
THEOREM BatchCorrect == Spec => []NoStaleEvent
<1>1. RegInv => NoStaleEvent
  BY DEF RegInv, TableInv
<1>. QED
  BY <1>1, TableInvariant, PTL

-----------------------------------------------------------------------------
(* The server as an echo service. A reported connection still has something to   *)
(* read when its callback runs: so what recvdata finds is never "nothing yet".   *)

ReadyStays == \A e \in batch : e.fd \in Fds /\ e.events = "in" => inbox[e.fd] # "none"

CallbackFits == \A s \in ConnSlots : g_events[s].callback = "recvdata" => g_events[s].events = "in"

EchoInv == RegInv /\ ReadyStays /\ CallbackFits

EchoStep == EchoInv' /\ [Echo!Next]_Echo!vars

(* The connection of a record in use. *)
LEMMA OwnerFacts ==
  ASSUME RegInv, NEW s \in InUse \ {MAX_EVENTS}, NEW f, f = g_events[s].fd
  PROVE  /\ s \in ConnSlots /\ f \in Fds /\ f \in open /\ f \notin refused
         /\ \A u \in ConnSlots : Serves(u, f) <=> u = s
         /\ Phase(f) = IF g_events[s].callback = "senddata" THEN "writing" ELSE "reading"
         /\ Overdue(f) <=> idle[s] = TIMEOUT
         /\ g_events[s].callback # "acceptconn"
<1>1. s \in ConnSlots /\ f \in Fds /\ f \notin refused /\ g_events[s].callback # "acceptconn"
  BY SlotFacts DEF RegInv, TableInv, RolesKept, OneOwner, InUse
<1>2. f \in open
  BY ExactInUse
<1>3. \A u \in ConnSlots : Serves(u, f) <=> u = s
  BY <1>1, SlotFacts DEF RegInv, TableInv, OneOwner, InUse, Serves
<1>. QED
  BY <1>1, <1>2, <1>3 DEF Phase, Overdue

(* No record serves a connection that is closed. *)
LEMMA ClosedUnserved ==
  ASSUME RegInv, NEW f \in Fds \ open
  PROVE  f \notin refused /\ \A u \in ConnSlots : ~Serves(u, f)
<1>1. \A u \in ConnSlots : Serves(u, f) => u \in InUse \ {MAX_EVENTS}
  BY SlotFacts DEF Serves, InUse
<1>. QED
  BY <1>1, ExactInUse DEF Serves

(* A step that changes one record and its connection only. *)
LEMMA OneRecord ==
  ASSUME RegInv, NEW s \in ConnSlots, NEW f \in Fds,
         \A u \in Slots \ {s} : g_events'[u] = g_events[u],
         \A u \in ConnSlots \ {s} : idle'[u] = idle[u],
         g_events'[s].fd = f, s \in InUse => g_events[s].fd = f,
         \A u \in ConnSlots \ {s} : ~Serves(u, f),
         \A g \in Fds \ {f} : (g \in open' <=> g \in open) /\ (g \in refused' <=> g \in refused)
  PROVE  /\ \A g \in Fds \ {f} : Phase(g)' = Phase(g) /\ (Overdue(g)' <=> Overdue(g))
         /\ \A u \in ConnSlots : Serves(u, f)' <=> u = s /\ g_events'[s].status = 1
<1>1. \A u \in ConnSlots \ {s} : u \in Slots /\ g_events'[u] = g_events[u] /\ idle'[u] = idle[u]
  BY SlotFacts
<1>2. ASSUME NEW g \in Fds \ {f} PROVE Phase(g)' = Phase(g) /\ (Overdue(g)' <=> Overdue(g))
  <2>1. ~Serves(s, g) /\ ~Serves(s, g)'
    BY SlotFacts DEF Serves, InUse
  <2>2. \A u \in ConnSlots \ {s} : Serves(u, g)' <=> Serves(u, g)
    BY <1>1 DEF Serves
  <2>3. Overdue(g)' <=> Overdue(g)
    BY <1>1, <2>1, <2>2 DEF Overdue
  <2>4. (\E u \in ConnSlots : Serves(u, g)' /\ g_events'[u].callback = "senddata")
          <=> \E u \in ConnSlots : Serves(u, g) /\ g_events[u].callback = "senddata"
    BY <1>1, <2>1, <2>2
  <2>. QED
    BY <2>3, <2>4 DEF Phase
<1>3. \A u \in ConnSlots : Serves(u, f)' <=> u = s /\ g_events'[s].status = 1
  BY <1>1 DEF Serves
<1>. QED
  BY <1>2, <1>3

(* What such a step is in the service. *)
LEMMA OneConnection ==
  ASSUME NEW f \in Fds, ~Overdue(f)',
         \A g \in Fds \ {f} : Phase(g)' = Phase(g) /\ (Overdue(g)' <=> Overdue(g))
  PROVE  /\ [g \in Fds |-> Phase(g)]' = [[g \in Fds |-> Phase(g)] EXCEPT ![f] = Phase(f)']
         /\ {g \in Fds : Overdue(g)}' = {g \in Fds : Overdue(g)} \ {f}
OBVIOUS

LEMMA StutterEcho ==
  ASSUME UNCHANGED <<g_events, idle, open, inbox, refused>>
  PROVE  UNCHANGED Echo!vars
<1>1. \A g \in Fds : Phase(g)' = Phase(g) /\ (Overdue(g)' <=> Overdue(g))
  BY DEF Phase, Overdue, Serves
<1>. QED
  BY <1>1 DEF Echo!vars

(* An accepted connection is read, or it is nobody's. *)
LEMMA AcceptEcho ==
  ASSUME EchoInv, NEW e \in batch, NEW f \in Fds, AcceptConn(e, f)
  PROVE  EchoStep
<1>1. /\ f \notin open /\ open' = open \union {f} /\ inbox' = [inbox EXCEPT ![f] = "none"]
      /\ batch' \subseteq batch /\ RegInv'
  BY AcceptReg DEF AcceptConn, Handles, EchoInv
<1>2. f \notin refused /\ \A u \in ConnSlots : ~Serves(u, f)
  BY <1>1, ClosedUnserved DEF EchoInv
<1>3. Phase(f) = "closed" /\ ~Overdue(f)
  BY <1>1, <1>2 DEF Phase, Overdue
<1>4. ReadyStays'
  <2>1. \A d \in batch : d.fd # f
    <3>1. \A d \in batch : d.ptr \in InUse /\ g_events[d.ptr].fd = d.fd
      BY HandledEntry DEF EchoInv, RegInv, TableInv, NoStaleEvent
    <3>2. \A s \in InUse : g_events[s].fd # f
      BY <1>1, ExactInUse, SlotFacts DEF EchoInv, RegInv, TableInv, RolesKept
    <3>. QED
      BY <3>1, <3>2
  <2>. QED
    BY <1>1, <2>1 DEF EchoInv, ReadyStays, RegInv, TypeOK
<1>5. /\ CallbackFits' /\ ~Overdue(f)' /\ Phase(f)' \in {"reading", "leaked"}
      /\ \A g \in Fds \ {f} : Phase(g)' = Phase(g) /\ (Overdue(g)' <=> Overdue(g))
  <2>1. CASE \E s \in FreeSlots : Register(epoll, s, f, "recvdata", "in") /\ refused' = refused
    <3>1. PICK s \in FreeSlots : Register(epoll, s, f, "recvdata", "in") /\ refused' = refused
      BY <2>1
    <3>2. s \in ConnSlots /\ s \in Slots /\ s \notin InUse
      BY SlotFacts DEF FreeSlots, InUse
    <3>3. /\ g_events'[s] = Listening(f, "recvdata", "in")
          /\ \A u \in Slots \ {s} : g_events'[u] = g_events[u]
          /\ idle'[s] = 0 /\ \A u \in ConnSlots \ {s} : idle'[u] = idle[u]
      BY <3>1, <3>2 DEF Register, EchoInv, RegInv, TypeOK
    <3>4. /\ \A g \in Fds \ {f} : Phase(g)' = Phase(g) /\ (Overdue(g)' <=> Overdue(g))
          /\ \A u \in ConnSlots : Serves(u, f)' <=> u = s
      <4>1. g_events'[s].fd = f /\ g_events'[s].status = 1
        BY <3>3 DEF Listening
      <4>. QED
        BY <1>1, <1>2, <3>1, <3>2, <3>3, <4>1, OneRecord DEF EchoInv
    <3>5. ~Overdue(f)'
      BY <3>2, <3>3, <3>4, ReactorAssumption DEF Overdue
    <3>6. Phase(f)' = "reading"
      BY <1>1, <1>2, <3>1, <3>3, <3>4 DEF Phase, Listening
    <3>7. CallbackFits'
      BY <3>2, <3>3, SlotFacts DEF EchoInv, CallbackFits, Listening
    <3>. QED
      BY <3>4, <3>5, <3>6, <3>7
  <2>2. CASE refused' = refused \union {f} /\ UNCHANGED tableVars
    <3>1. g_events' = g_events /\ idle' = idle /\ refused' = refused \union {f}
      BY <2>2 DEF tableVars
    <3>2. \A g \in Fds \ {f} : Phase(g)' = Phase(g) /\ (Overdue(g)' <=> Overdue(g))
      BY <1>1, <3>1 DEF Phase, Overdue, Serves
    <3>3. ~Overdue(f)' /\ Phase(f)' = "leaked"
      BY <1>1, <1>2, <3>1 DEF Phase, Overdue, Serves
    <3>4. CallbackFits'
      BY <3>1 DEF EchoInv, CallbackFits
    <3>. QED
      BY <3>2, <3>3, <3>4
  <2>. QED
    BY <2>1, <2>2 DEF AcceptConn
<1>6. Echo!Accept(f)
  BY <1>1, <1>3, <1>5, OneConnection DEF Echo!Accept, Echo!Goes, Echo!Empties
<1>. QED
  BY <1>1, <1>4, <1>5, <1>6 DEF EchoStep, EchoInv, Echo!Next

(* A record is registered again, for the other direction. *)
LEMMA RegisterEcho ==
  ASSUME EchoInv, NEW e \in batch, NEW E, NEW f, f = g_events[e.ptr].fd, e.ptr \in InUse \ {MAX_EVENTS},
         batch' = batch \ {e}, RegInv', UNCHANGED <<open, refused>>,
         inbox' = inbox \/ inbox' = [inbox EXCEPT ![f] = "none"],
         NEW callback, NEW events, callback = "recvdata" => events = "in",
         Register(E, e.ptr, f, callback, events)
  PROVE  /\ ReadyStays' /\ CallbackFits' /\ f \in Fds
         /\ Phase(f)' = IF callback = "senddata" THEN "writing" ELSE "reading"
         /\ [g \in Fds |-> Phase(g)]' = [[g \in Fds |-> Phase(g)] EXCEPT ![f] = Phase(f)']
         /\ {g \in Fds : Overdue(g)}' = {g \in Fds : Overdue(g)} \ {f}
<1> DEFINE s == e.ptr
<1>1. /\ s \in ConnSlots /\ s \in Slots /\ f \in Fds /\ f \in open /\ f \notin refused
      /\ \A u \in ConnSlots : Serves(u, f) <=> u = s
  BY OwnerFacts, SlotFacts DEF EchoInv
<1>2. /\ g_events'[s] = Listening(f, callback, events)
      /\ \A u \in Slots \ {s} : g_events'[u] = g_events[u]
      /\ idle'[s] = 0 /\ \A u \in ConnSlots \ {s} : idle'[u] = idle[u]
  BY <1>1 DEF Register, EchoInv, RegInv, TypeOK
<1>3. g_events'[s].fd = f /\ g_events'[s].status = 1 /\ g_events'[s].callback = callback
      /\ g_events'[s].events = events
  BY <1>2 DEF Listening
<1>4. /\ \A g \in Fds \ {f} : Phase(g)' = Phase(g) /\ (Overdue(g)' <=> Overdue(g))
      /\ \A u \in ConnSlots : Serves(u, f)' <=> u = s
  BY <1>1, <1>2, <1>3, OneRecord DEF EchoInv
<1>5. ~Overdue(f)'
  BY <1>1, <1>2, <1>4, ReactorAssumption DEF Overdue
<1>6. Phase(f)' = IF callback = "senddata" THEN "writing" ELSE "reading"
  BY <1>1, <1>3, <1>4 DEF Phase
<1>7. CallbackFits'
  BY <1>1, <1>2, <1>3, SlotFacts DEF EchoInv, CallbackFits
<1>8. ReadyStays'
  <2>1. \A d \in batch' : d.fd # f
    <3>1. \A d \in batch : d.ptr \in InUse /\ d = EntryOf(d.ptr) /\ g_events[d.ptr].fd = d.fd
      BY HandledEntry DEF EchoInv, RegInv, TableInv, NoStaleEvent
    <3>. QED
      BY <3>1 DEF EchoInv, RegInv, TableInv, OneOwner
  <2>. QED
    BY <2>1 DEF EchoInv, ReadyStays, RegInv, TypeOK
<1>. QED
  BY <1>1, <1>4, <1>5, <1>6, <1>7, <1>8, OneConnection

(* A connection is closed for a cause of its own. *)
LEMMA CloseEcho ==
  ASSUME EchoInv, NEW s \in InUse \ {MAX_EVENTS}, NEW f, f = g_events[s].fd,
         CloseAndDelete(s), UNCHANGED <<idle, refused>>, RegInv',
         batch' \subseteq batch, \A d \in batch' : d.ptr # s,
         \/ Phase(f) = "reading" /\ inbox[f] \in {"eof", "reset"}
         \/ Phase(f) = "writing"
         \/ Overdue(f)
  PROVE  EchoStep
<1>1. /\ s \in ConnSlots /\ s \in Slots /\ f \in Fds /\ f \in open /\ f \notin refused
      /\ \A u \in ConnSlots : Serves(u, f) <=> u = s
  BY OwnerFacts, SlotFacts DEF EchoInv
<1>2. /\ g_events' = [g_events EXCEPT ![s].status = 0] /\ open' = open \ {f}
      /\ inbox' = [inbox EXCEPT ![f] = "none"]
  BY DEF CloseAndDelete
<1>3. /\ \A u \in Slots \ {s} : g_events'[u] = g_events[u]
      /\ g_events'[s].fd = f /\ g_events'[s].status = 0
      /\ g_events'[s].callback = g_events[s].callback /\ g_events'[s].events = g_events[s].events
  BY <1>1, <1>2 DEF EchoInv, RegInv, TypeOK, Record
<1>4. /\ \A g \in Fds \ {f} : Phase(g)' = Phase(g) /\ (Overdue(g)' <=> Overdue(g))
      /\ \A u \in ConnSlots : ~Serves(u, f)'
  BY <1>1, <1>2, <1>3, OneRecord DEF EchoInv
<1>5. ~Overdue(f)' /\ Phase(f)' = "closed"
  BY <1>2, <1>4 DEF Overdue, Phase
<1>6. CallbackFits'
  BY <1>1, <1>3, SlotFacts DEF EchoInv, CallbackFits
<1>7. ReadyStays'
  <2>1. \A d \in batch' : d.fd # f
    <3>1. \A d \in batch : d.ptr \in InUse /\ g_events[d.ptr].fd = d.fd
      BY HandledEntry DEF EchoInv, RegInv, TableInv, NoStaleEvent
    <3>. QED
      BY <3>1 DEF EchoInv, RegInv, TableInv, OneOwner
  <2>. QED
    BY <1>2, <2>1 DEF EchoInv, ReadyStays, RegInv, TypeOK
<1>8. Echo!Close(f)
  BY <1>1, <1>2, <1>4, <1>5, OneConnection DEF Echo!Close, Echo!Goes, Echo!Empties
<1>. QED
  BY <1>1, <1>6, <1>7, <1>8 DEF EchoStep, EchoInv, Echo!Next

(* The record of an event whose callback serves a connection. *)
LEMMA HandledRecord ==
  ASSUME EchoInv, NEW e \in batch, NEW callback, Handles(e, callback), callback # "acceptconn"
  PROVE  /\ batch' = batch \ {e} /\ \A d \in batch' : d.ptr # e.ptr
         /\ e.ptr \in InUse \ {MAX_EVENTS} /\ g_events[e.ptr].callback = callback
         /\ e.fd = g_events[e.ptr].fd
         /\ callback = "recvdata" => inbox[e.fd] # "none"
<1>1. /\ batch' = batch \ {e} /\ g_events[e.ptr].callback = callback
      /\ \A d \in batch' : d.ptr # e.ptr
  BY BatchLoses DEF Handles, EchoInv
<1>2. e.ptr \in InUse \ {MAX_EVENTS} /\ e = EntryOf(e.ptr)
  BY <1>1, HandledEntry DEF EchoInv, RegInv, TableInv, RolesKept
<1>3. e.fd = g_events[e.ptr].fd /\ e.events = g_events[e.ptr].events
  BY <1>2 DEF EntryOf
<1>4. e.ptr \in ConnSlots /\ e.fd \in Fds
  BY <1>2, <1>3, OwnerFacts DEF EchoInv
<1>. QED
  BY <1>1, <1>2, <1>3, <1>4 DEF EchoInv, ReadyStays, CallbackFits

LEMMA RecvEcho ==
  ASSUME EchoInv, NEW e \in batch, RecvSomething(e) \/ RecvNothing(e)
  PROVE  EchoStep
<1>1. PICK f : f = g_events[e.ptr].fd
  OBVIOUS
<1>2. /\ batch' = batch \ {e} /\ \A d \in batch' : d.ptr # e.ptr
      /\ e.ptr \in InUse \ {MAX_EVENTS} /\ g_events[e.ptr].callback = "recvdata"
      /\ e.fd = f /\ inbox[f] # "none"
  BY <1>1, HandledRecord DEF RecvSomething, RecvNothing
<1>3. f \in Fds /\ Phase(f) = "reading"
  BY <1>1, <1>2, OwnerFacts DEF EchoInv
<1>4. CASE RecvSomething(e)
  <2>1. /\ inbox[f] = "data" /\ inbox' = [inbox EXCEPT ![f] = "none"]
        /\ Register(EventDel(epoll, g_events[e.ptr]), e.ptr, f, "senddata", "out")
        /\ UNCHANGED <<open, refused>> /\ RegInv'
    BY <1>1, <1>4, RecvSomethingReg DEF RecvSomething, EchoInv
  <2>2. /\ ReadyStays' /\ CallbackFits' /\ Phase(f)' = "writing"
        /\ [g \in Fds |-> Phase(g)]' = [[g \in Fds |-> Phase(g)] EXCEPT ![f] = Phase(f)']
        /\ {g \in Fds : Overdue(g)}' = {g \in Fds : Overdue(g)} \ {f}
    <3>1. inbox' = inbox \/ inbox' = [inbox EXCEPT ![f] = "none"]
      BY <2>1
    <3>2. PICK E : Register(E, e.ptr, f, "senddata", "out")
      BY <2>1
    <3>3. /\ ReadyStays' /\ CallbackFits'
          /\ Phase(f)' = "writing"
          /\ [g \in Fds |-> Phase(g)]' = [[g \in Fds |-> Phase(g)] EXCEPT ![f] = Phase(f)']
          /\ {g \in Fds : Overdue(g)}' = {g \in Fds : Overdue(g)} \ {f}
      BY <1>1, <1>2, <2>1, <3>1, <3>2, RegisterEcho
    <3>. QED
      BY <3>3
  <2>3. Echo!Receive(f)
    BY <1>3, <2>1, <2>2 DEF Echo!Receive, Echo!Goes, Echo!Empties
  <2>. QED
    BY <1>3, <2>1, <2>2, <2>3 DEF EchoStep, EchoInv, Echo!Next
<1>5. CASE RecvNothing(e)
  <2>1. /\ inbox[f] # "data" /\ CloseAndDelete(e.ptr) /\ UNCHANGED <<idle, refused>> /\ RegInv'
    BY <1>1, <1>5, RecvNothingReg DEF RecvNothing, historyVars, EchoInv
  <2>2. inbox[f] \in {"eof", "reset"}
    BY <1>2, <1>3, <2>1 DEF EchoInv, RegInv, TypeOK
  <2>. QED
    BY <1>1, <1>2, <1>3, <2>1, <2>2, CloseEcho
<1>. QED
  BY <1>4, <1>5

LEMMA SendEcho ==
  ASSUME EchoInv, NEW e \in batch, SendData(e)
  PROVE  EchoStep
<1>1. PICK f : f = g_events[e.ptr].fd
  OBVIOUS
<1>2. /\ batch' = batch \ {e} /\ \A d \in batch' : d.ptr # e.ptr
      /\ e.ptr \in InUse \ {MAX_EVENTS} /\ g_events[e.ptr].callback = "senddata"
  BY HandledRecord DEF SendData
<1>3. f \in Fds /\ Phase(f) = "writing"
  BY <1>1, <1>2, OwnerFacts DEF EchoInv
<1>4. UNCHANGED refused /\ RegInv'
  BY SendDataReg DEF SendData, EchoInv
<1>5. CASE /\ Register(EventDel(epoll, g_events[e.ptr]), e.ptr, f, "recvdata", "in")
           /\ UNCHANGED <<open, inbox>>
  <2>1. /\ ReadyStays' /\ CallbackFits' /\ Phase(f)' = "reading"
        /\ [g \in Fds |-> Phase(g)]' = [[g \in Fds |-> Phase(g)] EXCEPT ![f] = Phase(f)']
        /\ {g \in Fds : Overdue(g)}' = {g \in Fds : Overdue(g)} \ {f}
    BY <1>1, <1>2, <1>4, <1>5, RegisterEcho
  <2>2. Echo!Sent(f)
    BY <1>3, <1>5, <2>1 DEF Echo!Sent, Echo!Goes
  <2>. QED
    BY <1>3, <1>4, <2>1, <2>2 DEF EchoStep, EchoInv, Echo!Next
<1>6. CASE CloseAndDelete(e.ptr) /\ UNCHANGED idle
  BY <1>1, <1>2, <1>3, <1>4, <1>6, CloseEcho
<1>. QED
  BY <1>1, <1>5, <1>6 DEF SendData

LEMMA CheckEcho ==
  ASSUME EchoInv, CheckTimeout
  PROVE  EchoStep
<1>1. batch' = batch /\ batch = {} /\ UNCHANGED <<idle, refused>> /\ RegInv'
  BY CheckTimeoutReg DEF CheckTimeout, EchoInv, RegInv, BatchInDispatch, historyVars
<1>2. CASE UNCHANGED <<g_events, epoll, open, inbox>>
  BY <1>1, <1>2, StutterEcho DEF EchoStep, EchoInv, ReadyStays, CallbackFits
<1>3. CASE g_events[checkpos].status = 1 /\ idle[checkpos] = TIMEOUT /\ CloseAndDelete(checkpos)
  <2>1. checkpos \in InUse \ {MAX_EVENTS}
    BY <1>3, ReactorAssumption DEF InUse, checkpos, Slots
  <2>2. Overdue(g_events[checkpos].fd)
    BY <1>3, <2>1, OwnerFacts DEF EchoInv
  <2>. QED
    BY <1>1, <1>3, <2>1, <2>2, CloseEcho
<1>. QED
  BY <1>2, <1>3 DEF CheckTimeout

(* epoll_wait reports connections that have something to read. *)
LEMMA WaitEcho ==
  ASSUME EchoInv, EpollWait
  PROVE  EchoStep
<1>1. /\ batch' = {r \in epoll : Ready(r)} /\ RegInv'
      /\ UNCHANGED <<g_events, idle, open, inbox, refused>>
  BY EpollWaitReg DEF EpollWait, tableVars, kernelVars, EchoInv
<1>2. ReadyStays'
  BY <1>1, SlotFacts DEF ReadyStays, Ready
<1>. QED
  BY <1>1, <1>2, StutterEcho DEF EchoStep, EchoInv, CallbackFits

LEMMA QuietEcho ==
  ASSUME EchoInv, \/ ClientConnects \/ EpollFails \/ UNCHANGED vars
                  \/ \E e \in batch : AcceptFails(e)
  PROVE  EchoStep
<1>1. UNCHANGED <<g_events, idle, open, inbox, refused>> /\ batch' \subseteq batch
  BY DEF ClientConnects, EpollFails, AcceptFails, Handles, vars, tableVars, kernelVars, historyVars
<1>2. RegInv'
  BY QuietReg, AcceptFailsReg DEF Environment, EchoInv
<1>. QED
  BY <1>1, <1>2, StutterEcho DEF EchoStep, EchoInv, ReadyStays, CallbackFits

(* What a client does and the time it lets pass. *)
LEMMA ClientEcho ==
  ASSUME EchoInv, NEW f \in Fds, NEW what \in {"data", "eof", "reset"}, ClientActs(f, what)
  PROVE  EchoStep
<1>1. /\ f \in open \ refused /\ what # inbox[f] /\ inbox' = [inbox EXCEPT ![f] = what]
      /\ UNCHANGED <<g_events, idle, open, batch, refused>>
  BY DEF ClientActs, tableVars, historyVars
<1>2. RegInv'
  BY QuietReg DEF Environment, EchoInv
<1>3. ReadyStays' /\ CallbackFits'
  BY <1>1 DEF EchoInv, ReadyStays, CallbackFits, RegInv, TypeOK
<1>4. /\ \A g \in Fds : Phase(g)' = Phase(g) /\ (Overdue(g)' <=> Overdue(g))
      /\ Phase(f) \in {"reading", "writing"}
  BY <1>1 DEF Phase, Overdue, Serves
<1>5. Echo!ClientActs(f, what)
  BY <1>1, <1>4 DEF Echo!ClientActs, Echo!Served
<1>. QED
  BY <1>2, <1>3, <1>5 DEF EchoStep, EchoInv, Echo!Next

LEMMA TickEcho ==
  ASSUME EchoInv, Tick
  PROVE  EchoStep
<1>1. /\ UNCHANGED <<g_events, open, inbox, batch, refused>>
      /\ \A s \in ConnSlots : idle[s] = TIMEOUT => idle'[s] = TIMEOUT
  BY ReactorAssumption DEF Tick, kernelVars, historyVars
<1>2. RegInv'
  BY QuietReg DEF Environment, EchoInv
<1>3. ReadyStays' /\ CallbackFits'
  BY <1>1 DEF EchoInv, ReadyStays, CallbackFits
<1>4. \A g \in Fds : Phase(g)' = Phase(g) /\ (Overdue(g) => Overdue(g)')
  BY <1>1 DEF Phase, Overdue, Serves
<1>5. ASSUME NEW g \in Fds, Overdue(g)' PROVE Phase(g) \in {"reading", "writing"}
  <2>1. PICK s \in ConnSlots : Serves(s, g)
    BY <1>1, <1>5 DEF Overdue, Serves
  <2>2. s \in InUse \ {MAX_EVENTS} /\ g_events[s].fd = g
    BY <2>1, SlotFacts DEF Serves, InUse
  <2>. QED
    BY <2>2, OwnerFacts DEF EchoInv
<1>6. Echo!TimePasses
  BY <1>1, <1>4, <1>5 DEF Echo!TimePasses, Echo!Served
<1>. QED
  BY <1>2, <1>3, <1>6 DEF EchoStep, EchoInv, Echo!Next

LEMMA InitEcho == Init => EchoInv /\ Echo!Init
<1> SUFFICES ASSUME Init PROVE EchoInv /\ Echo!Init
  OBVIOUS
<1>1. \A s \in ConnSlots : g_events[s] = Unused
  BY SlotFacts DEF Init
<1>2. EchoInv
  BY <1>1, InitReg DEF Init, EchoInv, ReadyStays, CallbackFits, Unused
<1>3. \A f \in Fds : Phase(f) = "closed" /\ ~Overdue(f)
  BY <1>1 DEF Init, Phase, Overdue, Serves, Unused
<1>. QED
  BY <1>2, <1>3 DEF Init, Echo!Init

(* However records and descriptors are used again and in whatever order the      *)
(* events of a batch are handled, each connection is served by itself: it is     *)
(* written to after something was received, and closed only when the client has  *)
(* ended it, was silent for the timeout or could not be sent to                  *)
(* (reactor.c:60-181, 226-266).                                                  *)
THEOREM ReactorServesEach == Spec => EchoSpec
<1>1. Init => EchoInv /\ Echo!Init
  BY InitEcho
<1>2. EchoInv /\ [Next]_vars => EchoStep
  BY AcceptEcho, RecvEcho, SendEcho, CheckEcho, WaitEcho, QuietEcho, ClientEcho, TickEcho
  DEF Next, Server, Callback, Environment
<1>. QED
  BY <1>1, <1>2, PTL DEF Spec, EchoSpec, Echo!Spec, EchoStep
=============================================================================
