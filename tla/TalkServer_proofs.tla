------------------------- MODULE TalkServer_proofs -------------------------
(***************************************************************************)
(* Theorems about the chat server: while the scan compacts the array it is *)
(* scanning, the array, the open connections, the events to be handled and *)
(* the pending messages stay in step, for any number of places, of         *)
(* descriptors and of messages.                                            *)
(***************************************************************************)
EXTENDS TalkServer, TLAPS

(* A descriptor that is closed has nothing put up for it. *)
ClosedAwaitNothing == \A f \in Fds \ open : awaits[f] = "no"

TalkInv ==
  /\ TypeOK /\ RoomIsOpen /\ ScanExact /\ RecvFindsData /\ PendingIsDue /\ ClosedAwaitNothing

-----------------------------------------------------------------------------
(* Facts about a state.                                                      *)

LEMMA EntryFacts ==
  ASSUME TalkInv
  PROVE  /\ \A k \in 1..user_counter : k \in Entries /\ fds[k].fd \in Fds /\ fds[k].fd \in open
         /\ Room \subseteq Fds /\ Room = open
         /\ NULL \notin Fds /\ Unset \notin Fds /\ Nothing \notin Messages
<1>1. user_counter \in Nat /\ user_counter <= USER_LIMIT /\ USER_LIMIT \in Nat
  BY TalkAssumption DEF TalkInv, TypeOK
<1>2. Room = open /\ open \subseteq Fds
  BY DEF TalkInv, RoomIsOpen, TypeOK
<1>3. \A k \in 1..user_counter : fds[k].fd \in Room
  BY DEF Room
<1>4. 1..user_counter \subseteq Entries
  BY <1>1 DEF Entries
<1>5. NULL \notin Fds /\ Unset \notin Fds /\ Nothing \notin Messages
  BY TalkAssumption DEF NULL, Unset, Nothing, Messages
<1>. QED
  BY <1>2, <1>3, <1>4, <1>5

(* The entry that a branch is taken for. *)
LEMMA AtFacts ==
  ASSUME TalkInv, NEW f \in Fds, NEW branch, At(branch, f)
  PROVE  /\ i \in 1..user_counter /\ fds[i].fd = f /\ f \in open /\ f \in Room
         /\ todo' = todo \ {f}
         /\ \A k \in 1..user_counter : k # i => fds[k].fd # f
<1>1. i \in 1..user_counter
  BY DEF TalkInv, TypeOK, At
<1>. QED
  BY <1>1, EntryFacts DEF At, TalkInv, RoomIsOpen

(* What is still to be scanned after entry i, of f, has been handled.        *)
LEMMA ScanGoesOn ==
  ASSUME TalkInv, NEW f \in Fds, NEW branch, At(branch, f),
         GoTo(i + 1, user_counter), user_counter' = user_counter,
         \A k \in 1..user_counter : /\ fds'[k].fd = fds[k].fd
                                    /\ fds'[k].revents = fds[k].revents
  PROVE  ScanExact' /\ i' \in 0..user_counter' /\ pc' \in {"poll", "scan"}
<1>1. i \in 1..user_counter /\ fds[i].fd = f /\ todo' = todo \ {f}
      /\ \A k \in 1..user_counter : k # i => fds[k].fd # f
  BY AtFacts
<1>2. user_counter \in Nat /\ i \in Nat
  BY DEF TalkInv, TypeOK
<1>3. pc = "scan"
  BY DEF At
<1>4. \A z : z \in todo <=> \E k \in 1..user_counter : k >= i /\ fds[k].revents # {} /\ z = fds[k].fd
  BY <1>3 DEF TalkInv, ScanExact
<1>5. \A z : z \in todo' <=> \E k \in 1..user_counter :
                                k >= i + 1 /\ fds[k].revents # {} /\ z = fds[k].fd
  BY <1>1, <1>2, <1>4
<1>6. CASE i + 1 > user_counter
  <2>1. pc' = "poll" /\ i' = 0
    BY <1>6 DEF GoTo
  <2>2. todo' = {}
    BY <1>2, <1>5, <1>6
  <2>. QED
    BY <1>2, <2>1, <2>2 DEF ScanExact
<1>7. CASE ~(i + 1 > user_counter)
  <2>1. pc' = "scan" /\ i' = i + 1
    BY <1>7 DEF GoTo
  <2>2. \A z : z \in todo' <=> \E k \in 1..user_counter' :
                                  k >= i' /\ fds'[k].revents # {} /\ z = fds'[k].fd
    BY <1>5, <2>1
  <2>. QED
    BY <1>2, <1>7, <2>1, <2>2 DEF ScanExact
<1>. QED
  BY <1>6, <1>7

(* The same of the data that recv will find: only that of f may be gone. *)
LEMMA RecvGoesOn ==
  ASSUME TalkInv, NEW f \in Fds, NEW branch, At(branch, f),
         GoTo(i + 1, user_counter), user_counter' = user_counter,
         \A k \in 1..user_counter : /\ fds'[k].fd = fds[k].fd
                                    /\ fds'[k].revents = fds[k].revents,
         \A g \in Fds : g # f => inbox'[g] = inbox[g]
  PROVE  RecvFindsData'
<1>1. i \in 1..user_counter /\ fds[i].fd = f
      /\ \A k \in 1..user_counter : k # i => fds[k].fd # f
  BY AtFacts
<1>2. user_counter \in Nat /\ i \in Nat /\ \A k \in 1..user_counter : fds[k].fd \in Fds
  BY EntryFacts DEF TalkInv, TypeOK
<1>3. SUFFICES ASSUME pc' = "scan", NEW k \in 1..user_counter, k >= i', Branch(fds'[k]) = "recv"
               PROVE  inbox'[fds'[k].fd] \in Messages
  BY DEF RecvFindsData
<1>4. i' = i + 1 /\ pc = "scan"
  BY <1>3 DEF GoTo, At
<1>5. k >= i /\ k # i
  BY <1>2, <1>3, <1>4
<1>6. Branch(fds[k]) = "recv"
  BY <1>3 DEF Branch
<1>7. inbox[fds[k].fd] \in Messages
  BY <1>4, <1>5, <1>6 DEF TalkInv, RecvFindsData
<1>. QED
  BY <1>1, <1>2, <1>5, <1>7

-----------------------------------------------------------------------------
(* The initial state, and steps of the environment and of poll.              *)

LEMMA InitTalk == Init => TalkInv
<1> SUFFICES ASSUME Init PROVE TalkInv
  OBVIOUS
<1>1. user_counter = 0 /\ 1..user_counter = {} /\ todo = {} /\ open = {}
  BY DEF Init
<1>2. TypeOK
  <2>1. fds \in [Entries -> Pollfd]
    BY DEF Init, Pollfd
  <2>2. users \in [Fds -> [write_buf : Fds \union {NULL, Unset}, buf : Messages \union {Nothing, Unset}]]
    BY DEF Init
  <2>3. user_counter \in 0..USER_LIMIT /\ sent \in 0..MaxMessages /\ i \in 0..user_counter
    BY TalkAssumption DEF Init
  <2>4. /\ pc \in {"poll", "scan", "exited"} /\ listener \in BOOLEAN
        /\ open \subseteq Fds /\ todo \subseteq Fds
        /\ peer \in [Fds -> {"up", "fin", "rst", "gone"}]
        /\ inbox \in [Fds -> Messages \union {Nothing}]
        /\ due \in [Fds -> SUBSET Messages] /\ awaits \in [Fds -> {"no", "text", "astray"}]
    BY DEF Init
  <2>. QED
    BY <2>1, <2>2, <2>3, <2>4 DEF TypeOK
<1>3. RoomIsOpen
  BY <1>1 DEF RoomIsOpen, Room
<1>4. ScanExact /\ RecvFindsData /\ PendingIsDue
  BY <1>1 DEF ScanExact, RecvFindsData, PendingIsDue, Init
<1>5. ClosedAwaitNothing
  BY DEF ClosedAwaitNothing, Init
<1>. QED
  BY <1>2, <1>3, <1>4, <1>5 DEF TalkInv

(* What poll reports of an entry it returns for reading only is there to read. *)
LEMMA ReportedFacts ==
  ASSUME TalkInv, NEW k \in 1..user_counter, NEW e, e = [fds[k] EXCEPT !.revents = Reported(fds[k])]
  PROVE  /\ e \in Pollfd /\ e.fd = fds[k].fd /\ e.events = fds[k].events
         /\ e.revents = Reported(fds[k])
         /\ Branch(e) = "recv" => inbox[e.fd] \in Messages
<1>1. fds[k] \in Pollfd /\ fds[k].fd \in Fds
  BY EntryFacts DEF TalkInv, TypeOK
<1>2. Reported(fds[k]) \subseteq {"IN", "RDHUP", "ERR", "OUT"}
  BY DEF Reported
<1>3. e \in Pollfd /\ e.fd = fds[k].fd /\ e.events = fds[k].events /\ e.revents = Reported(fds[k])
  BY <1>1, <1>2 DEF Pollfd
<1>4. ASSUME Branch(e) = "recv" PROVE inbox[e.fd] \in Messages
  <2>1. "ERR" \notin Reported(fds[k]) /\ "RDHUP" \notin Reported(fds[k]) /\ "IN" \in Reported(fds[k])
    BY <1>3, <1>4 DEF Branch
  <2>2. inbox[fds[k].fd] # Nothing
    BY <2>1 DEF Reported
  <2>. QED
    BY <1>1, <1>3, <2>2 DEF TalkInv, TypeOK
<1>. QED
  BY <1>3, <1>4

LEMMA PollTalk == TalkInv /\ Poll => TalkInv'
<1> SUFFICES ASSUME TalkInv, Poll PROVE TalkInv'
  OBVIOUS
<1>1. user_counter \in Nat /\ user_counter' = user_counter /\ user_counter <= USER_LIMIT
  BY TalkAssumption DEF TalkInv, TypeOK, Poll
<1>0. /\ UNCHANGED <<user_counter, users, open, peer, inbox, sent, due, awaits>>
      /\ pc' = "scan" /\ i' = 0
  BY DEF Poll, kernelVars
<1>2. \A k \in 1..user_counter :
        /\ k \in Entries /\ fds[k].fd \in Fds
        /\ fds'[k] = [fds[k] EXCEPT !.revents = Reported(fds[k])]
  BY <1>1, EntryFacts DEF Poll
<1>3. \A k \in 1..user_counter :
        /\ fds'[k] \in Pollfd /\ fds'[k].fd = fds[k].fd /\ fds'[k].events = fds[k].events
        /\ fds'[k].revents = Reported(fds[k])
        /\ Branch(fds'[k]) = "recv" => inbox[fds'[k].fd] \in Messages
  BY <1>2, ReportedFacts
<1>4. fds' \in [Entries -> Pollfd]
  <2>1. \A k \in Entries : k > user_counter \/ k \in 1..user_counter
    BY <1>1 DEF Entries
  <2>2. \A k \in Entries : k > user_counter => fds'[k] = fds[k]
    BY DEF Poll
  <2>. QED
    BY <1>3, <2>1, <2>2 DEF Poll, TalkInv, TypeOK
<1>5. \A z : z \in todo' <=> \E k \in 1..user_counter : Reported(fds[k]) # {} /\ z = fds[k].fd
  BY DEF Poll
<1>6. TypeOK'
  <2>1. todo' \subseteq Fds
    BY <1>5, EntryFacts
  <2>2. listener' \in BOOLEAN
    BY DEF Poll
  <2>. QED
    BY <1>0, <1>1, <1>4, <2>1, <2>2 DEF TalkInv, TypeOK
<1>7. RoomIsOpen'
  <2>1. Room' = Room
    BY <1>0, <1>3 DEF Room
  <2>. QED
    BY <1>0, <1>3, <2>1 DEF TalkInv, RoomIsOpen
<1>8. ScanExact'
  <2>3. \A k \in 1..user_counter : k >= 0
    BY <1>1
  <2>4. \A z : z \in todo' <=> \E k \in 1..user_counter' :
                                  k >= i' /\ fds'[k].revents # {} /\ z = fds'[k].fd
    BY <1>0, <1>3, <1>5, <2>3
  <2>. QED
    BY <1>0, <2>4 DEF ScanExact
<1>9. RecvFindsData'
  BY <1>0, <1>3 DEF RecvFindsData
<1>10. PendingIsDue'
  BY <1>0, <1>3 DEF TalkInv, PendingIsDue
<1>11. ClosedAwaitNothing'
  BY <1>0 DEF TalkInv, ClosedAwaitNothing
<1>. QED
  BY <1>6, <1>7, <1>8, <1>9, <1>10, <1>11 DEF TalkInv

(* Clients speak and leave; poll fails; nothing happens at all. *)
LEMMA OutsideTalk ==
  TalkInv /\ (PollFails \/ Clients \/ UNCHANGED vars) => TalkInv'
<1> SUFFICES ASSUME TalkInv, PollFails \/ Clients \/ UNCHANGED vars PROVE TalkInv'
  OBVIOUS
<1>1. UNCHANGED <<tableVars, i, listener, open, historyVars>>
  BY DEF PollFails, Clients, ClientSays, ClientLeaves, vars, kernelVars, scanVars
<1>2. /\ pc' = pc \/ (pc = "poll" /\ pc' = "exited")
      /\ inbox' \in [Fds -> Messages \union {Nothing}] /\ sent' \in 0..MaxMessages
      /\ \A f \in Fds : inbox[f] \in Messages => inbox'[f] \in Messages
  <2>1. CASE \E f \in Fds : ClientSays(f)
    BY <2>1, TalkAssumption DEF ClientSays, scanVars, TalkInv, TypeOK, Messages
  <2>2. CASE \E f \in Fds : ClientLeaves(f, "fin") \/ ClientLeaves(f, "rst")
    BY <2>2 DEF ClientLeaves, scanVars, TalkInv, TypeOK
  <2>3. CASE PollFails \/ UNCHANGED vars
    BY <2>3 DEF PollFails, vars, scanVars, kernelVars, TalkInv, TypeOK
  <2>. QED
    BY <2>1, <2>2, <2>3 DEF Clients
<1>3. peer' \in [Fds -> {"up", "fin", "rst", "gone"}]
  BY DEF PollFails, Clients, ClientSays, ClientLeaves, vars, kernelVars, TalkInv, TypeOK
<1>4. TypeOK'
  BY <1>1, <1>2, <1>3 DEF TalkInv, TypeOK, tableVars, historyVars
<1>5. RoomIsOpen' /\ PendingIsDue' /\ ClosedAwaitNothing'
  BY <1>1 DEF TalkInv, RoomIsOpen, Room, PendingIsDue, ClosedAwaitNothing, tableVars, historyVars
<1>6. ScanExact'
  BY <1>1, <1>2 DEF TalkInv, ScanExact, tableVars, historyVars
<1>7. RecvFindsData'
  BY <1>1, <1>2, EntryFacts DEF TalkInv, RecvFindsData, tableVars
<1>. QED
  BY <1>4, <1>5, <1>6, <1>7 DEF TalkInv

-----------------------------------------------------------------------------
(* Steps of the scan that leave the array as it is.                          *)

(* The listening socket, when nobody is let in. *)
LEMMA NobodyTalk == TalkInv /\ (AcceptNobody \/ NobodyComes) => TalkInv'
<1> SUFFICES ASSUME TalkInv, AcceptNobody \/ NobodyComes PROVE TalkInv'
  OBVIOUS
<1>1. pc = "scan" /\ i = 0 /\ GoTo(1, user_counter)
      /\ UNCHANGED <<tableVars, kernelVars, historyVars>>
  BY DEF AcceptNobody, NobodyComes, Accepting
<1>2. UNCHANGED <<fds, user_counter, users, listener, open, peer, inbox, sent, due, awaits, todo>>
  BY <1>1 DEF tableVars, kernelVars, historyVars, GoTo
<1>3. user_counter \in Nat
  BY DEF TalkInv, TypeOK
<1>4. \/ user_counter = 0 /\ pc' = "poll" /\ i' = 0
      \/ user_counter >= 1 /\ pc' = "scan" /\ i' = 1
  BY <1>1, <1>3 DEF GoTo
<1>5. TypeOK'
  BY <1>2, <1>3, <1>4 DEF TalkInv, TypeOK
<1>6. ScanExact'
  <2>1. \A k \in 1..user_counter : k >= 0 /\ k >= 1
    BY <1>3
  <2>2. todo = {fds[k].fd : k \in {k \in 1..user_counter : fds[k].revents # {}}}
    BY <1>1, <2>1 DEF TalkInv, ScanExact
  <2>3. CASE user_counter >= 1 /\ pc' = "scan" /\ i' = 1
    BY <1>2, <2>1, <2>2, <2>3 DEF ScanExact
  <2>4. CASE user_counter = 0 /\ pc' = "poll"
    <3>1. 1..user_counter = {}
      BY <2>4
    <3>. QED
      BY <1>2, <2>2, <3>1 DEF ScanExact
  <2>. QED
    BY <1>4, <2>3, <2>4
<1>7. RecvFindsData'
  <2>1. \A k \in 1..user_counter : k >= 0
    BY <1>3
  <2>. QED
    BY <1>1, <1>2, <2>1 DEF TalkInv, RecvFindsData, Branch
<1>8. RoomIsOpen' /\ PendingIsDue' /\ ClosedAwaitNothing'
  BY <1>2 DEF TalkInv, RoomIsOpen, Room, PendingIsDue, ClosedAwaitNothing
<1>. QED
  BY <1>5, <1>6, <1>7, <1>8 DEF TalkInv

(* An entry without events, an error taken from its socket, nothing to send. *)
LEMMA PassTalk ==
  ASSUME TalkInv, NEW f \in Fds, Idle(f) \/ TakeError(f) \/ SendNothing(f)
  PROVE  TalkInv'
<1>1. PICK branch : At(branch, f)
  BY DEF Idle, TakeError, SendNothing
<1>2. /\ GoTo(i + 1, user_counter)
      /\ UNCHANGED <<fds, user_counter, users, listener, open, inbox, sent, due, awaits>>
  BY DEF Idle, TakeError, SendNothing, tableVars, kernelVars, GoTo
<1>3. peer' \in [Fds -> {"up", "fin", "rst", "gone"}]
  BY DEF Idle, TakeError, SendNothing, kernelVars, TalkInv, TypeOK
<1>4. ScanExact' /\ i' \in 0..user_counter' /\ pc' \in {"poll", "scan"}
  BY <1>1, <1>2, ScanGoesOn
<1>5. TypeOK'
  BY <1>1, <1>2, <1>3, <1>4, AtFacts DEF TalkInv, TypeOK
<1>6. RecvFindsData'
  BY <1>1, <1>2, RecvGoesOn
<1>7. RoomIsOpen' /\ PendingIsDue' /\ ClosedAwaitNothing'
  BY <1>2 DEF TalkInv, RoomIsOpen, Room, PendingIsDue, ClosedAwaitNothing
<1>. QED
  BY <1>4, <1>5, <1>6, <1>7 DEF TalkInv

-----------------------------------------------------------------------------
(* Steps that change the array or the messages.                              *)

(* The new entry is the last one; nothing has been put up for its user.      *)
LEMMA AcceptTalk ==
  ASSUME TalkInv, NEW f \in Fds, AcceptUser(f)
  PROVE  TalkInv'
<1>1. /\ pc = "scan" /\ i = 0 /\ f \notin open /\ user_counter < USER_LIMIT
      /\ open' = open \union {f} /\ user_counter' = user_counter + 1
      /\ fds' = [fds EXCEPT ![user_counter + 1] = Entry(f)]
      /\ GoTo(1, user_counter + 1)
      /\ UNCHANGED <<users, listener, peer, inbox, sent, due, awaits, todo>>
  BY DEF AcceptUser, Accepting, HasPlace, historyVars, GoTo
<1>2. user_counter \in Nat /\ user_counter + 1 \in Entries /\ user_counter' \in 0..USER_LIMIT
      /\ fds \in [Entries -> Pollfd]
  BY <1>1, TalkAssumption DEF TalkInv, TypeOK, Entries
<1>3. pc' = "scan" /\ i' = 1
  BY <1>1, <1>2 DEF GoTo
<1>4. /\ \A k \in 1..user_counter : k \in 1..user_counter' /\ fds'[k] = fds[k] /\ fds[k].fd \in open
      /\ fds'[user_counter'] = Entry(f) /\ user_counter' \in 1..user_counter'
      /\ \A k \in 1..user_counter' : k \in 1..user_counter \/ k = user_counter'
  BY <1>1, <1>2, EntryFacts
<1>5. Entry(f) \in Pollfd /\ Entry(f).fd = f /\ Entry(f).events = "in" /\ Entry(f).revents = {}
  BY DEF Entry, Pollfd
<1>6. fds' \in [Entries -> Pollfd]
  BY <1>1, <1>2, <1>5
<1>7. TypeOK'
  BY <1>1, <1>2, <1>3, <1>6 DEF TalkInv, TypeOK
<1>8. RoomIsOpen'
  <2>1. Room' = Room \union {f}
    BY <1>4, <1>5 DEF Room
  <2>2. Room' = open'
    BY <1>1, <2>1 DEF TalkInv, RoomIsOpen
  <2>. QED
    BY <1>1, <1>4, <1>5, <2>2 DEF TalkInv, RoomIsOpen
<1>9. ScanExact'
  <2>1. \A k \in 1..user_counter : k >= 0 /\ k >= 1
    BY <1>2
  <2>2. \A z : z \in todo <=> \E k \in 1..user_counter : fds[k].revents # {} /\ z = fds[k].fd
    BY <1>1, <2>1 DEF TalkInv, ScanExact
  <2>3. \A z : z \in todo' <=> \E k \in 1..user_counter' :
                                  k >= 1 /\ fds'[k].revents # {} /\ z = fds'[k].fd
    BY <1>1, <1>4, <1>5, <2>1, <2>2
  <2>. QED
    BY <1>3, <2>3 DEF ScanExact
<1>10. RecvFindsData'
  <2>1. \A k \in 1..user_counter : k >= 0
    BY <1>2
  <2>2. Branch(Entry(f)) # "recv"
    BY <1>5 DEF Branch
  <2>. QED
    BY <1>1, <1>4, <2>1, <2>2 DEF TalkInv, RecvFindsData
<1>11. PendingIsDue'
  BY <1>1, <1>4, <1>5 DEF TalkInv, PendingIsDue, ClosedAwaitNothing
<1>12. ClosedAwaitNothing'
  BY <1>1 DEF TalkInv, ClosedAwaitNothing
<1>. QED
  BY <1>7, <1>8, <1>9, <1>10, <1>11, <1>12 DEF TalkInv

(* recv finds nothing: the buffer is empty, and its readers are astray.      *)
LEMMA RecvNothingTalk ==
  ASSUME TalkInv, NEW f \in Fds, RecvNothing(f)
  PROVE  TalkInv'
<1>1. /\ At("recv", f) /\ GoTo(i + 1, user_counter)
      /\ users' = [users EXCEPT ![f].buf = Nothing]
      /\ awaits' = [z \in Fds |-> IF z \in Readers(f) THEN "astray" ELSE awaits[z]]
      /\ UNCHANGED <<fds, user_counter, listener, open, peer, inbox, sent, due>>
  BY DEF RecvNothing, kernelVars, GoTo
<1>2. ScanExact' /\ i' \in 0..user_counter' /\ pc' \in {"poll", "scan"}
  BY <1>1, ScanGoesOn
<1>3. RecvFindsData'
  BY <1>1, RecvGoesOn
<1>4. users \in [Fds -> [write_buf : Fds \union {NULL, Unset}, buf : Messages \union {Nothing, Unset}]]
      /\ awaits \in [Fds -> {"no", "text", "astray"}]
  BY DEF TalkInv, TypeOK
<1>5. /\ users' \in [Fds -> [write_buf : Fds \union {NULL, Unset}, buf : Messages \union {Nothing, Unset}]]
      /\ awaits' \in [Fds -> {"no", "text", "astray"}]
      /\ \A z \in Fds : users'[z].write_buf = users[z].write_buf
      /\ \A z \in Fds \ {f} : users'[z].buf = users[z].buf
  BY <1>1, <1>4
<1>6. TypeOK'
  BY <1>1, <1>2, <1>5, AtFacts DEF TalkInv, TypeOK
<1>7. PendingIsDue'
  <2> SUFFICES ASSUME NEW k \in 1..user_counter, NEW z, z = fds[k].fd
               PROVE  /\ awaits'[z] = "text" => /\ users'[z].write_buf \in Fds \ {z}
                                                 /\ users'[users'[z].write_buf].buf \in due[z]
                      /\ fds[k].events = "all" /\ awaits'[z] = "no" => users'[z].write_buf = NULL
    BY <1>1 DEF PendingIsDue
  <2>1. z \in Fds /\ z \in Room
    BY EntryFacts DEF Room
  <2>2. CASE z \in Readers(f)
    BY <1>1, <2>1, <2>2
  <2>3. CASE z \notin Readers(f)
    <3>1. awaits'[z] = awaits[z] /\ users'[z].write_buf = users[z].write_buf
      BY <1>1, <1>5, <2>1, <2>3
    <3>2. ASSUME awaits[z] = "text" PROVE users[z].write_buf # f
      <4>1. users[z].write_buf \in Fds \ {z}
        BY <3>2 DEF TalkInv, PendingIsDue
      <4>. QED
        BY <2>1, <2>3, <3>2, <4>1 DEF Readers
    <3>. QED
      BY <1>5, <3>1, <3>2 DEF TalkInv, PendingIsDue
  <2>. QED
    BY <2>2, <2>3
<1>8. RoomIsOpen'
  BY <1>1 DEF TalkInv, RoomIsOpen, Room
<1>9. ClosedAwaitNothing'
  BY <1>1, EntryFacts DEF TalkInv, ClosedAwaitNothing, Readers
<1>. QED
  BY <1>2, <1>3, <1>6, <1>7, <1>8, <1>9 DEF TalkInv

(* A message: whoever is pointed to the buffer of f is to hear what is in it. *)
LEMMA RecvTalk ==
  ASSUME TalkInv, NEW f \in Fds, Recv(f)
  PROVE  TalkInv'
<1>1. /\ At("recv", f) /\ GoTo(i + 1, user_counter) /\ inbox[f] \in Messages
      /\ users' = [z \in Fds |-> [write_buf |-> IF z \in Hearers(f) THEN f ELSE users[z].write_buf,
                                  buf |-> IF z = f THEN inbox[f] ELSE users[z].buf]]
      /\ fds' = [k \in Entries |-> IF k <= user_counter /\ fds[k].fd \in Hearers(f)
                                   THEN Asked(fds[k]) ELSE fds[k]]
      /\ inbox' = [inbox EXCEPT ![f] = Nothing]
      /\ due' = [z \in Fds |-> IF z \in Room \ {f} THEN due[z] \union {inbox[f]} ELSE due[z]]
      /\ awaits' = [z \in Fds |-> IF z \in Hearers(f) THEN "text" ELSE awaits[z]]
      /\ UNCHANGED <<user_counter, listener, open, peer, sent>>
  BY DEF Recv, GoTo
<1>2. Hearers(f) = Room \ {f} /\ Room \subseteq Fds /\ Room = open
  BY EntryFacts DEF Hearers
<1>3. \A k \in 1..user_counter : k \in Entries /\ fds[k].fd \in Fds /\ fds[k].fd \in Room /\ k <= user_counter
  BY EntryFacts DEF Room, TalkInv, TypeOK
<1>4. fds \in [Entries -> Pollfd]
      /\ users \in [Fds -> [write_buf : Fds \union {NULL, Unset}, buf : Messages \union {Nothing, Unset}]]
      /\ inbox \in [Fds -> Messages \union {Nothing}]
      /\ due \in [Fds -> SUBSET Messages] /\ awaits \in [Fds -> {"no", "text", "astray"}]
  BY DEF TalkInv, TypeOK
<1>5. \A e \in Pollfd : /\ Asked(e) \in Pollfd /\ Asked(e).fd = e.fd /\ Asked(e).revents = e.revents
  BY DEF Asked, Pollfd
<1>6. fds' \in [Entries -> Pollfd]
      /\ \A k \in Entries : fds'[k].fd = fds[k].fd /\ fds'[k].revents = fds[k].revents
  BY <1>1, <1>4, <1>5
<1>7. /\ users' \in [Fds -> [write_buf : Fds \union {NULL, Unset}, buf : Messages \union {Nothing, Unset}]]
      /\ inbox' \in [Fds -> Messages \union {Nothing}]
      /\ due' \in [Fds -> SUBSET Messages] /\ awaits' \in [Fds -> {"no", "text", "astray"}]
  BY <1>1, <1>4
<1>8. ScanExact' /\ i' \in 0..user_counter' /\ pc' \in {"poll", "scan"}
  BY <1>1, <1>3, <1>6, ScanGoesOn
<1>9. RecvFindsData'
  BY <1>1, <1>3, <1>4, <1>6, RecvGoesOn
<1>10. TypeOK'
  BY <1>1, <1>6, <1>7, <1>8, AtFacts DEF TalkInv, TypeOK
<1>11. RoomIsOpen'
  <2>1. Room' = Room
    BY <1>1, <1>3, <1>6 DEF Room
  <2>. QED
    BY <1>1, <1>3, <1>6, <2>1 DEF TalkInv, RoomIsOpen
<1>12. PendingIsDue'
  <2> SUFFICES ASSUME NEW k \in 1..user_counter, NEW z, z = fds[k].fd
               PROVE  /\ awaits'[z] = "text" => /\ users'[z].write_buf \in Fds \ {z}
                                                 /\ users'[users'[z].write_buf].buf \in due'[z]
                      /\ fds'[k].events = "all" /\ awaits'[z] = "no" => users'[z].write_buf = NULL
    BY <1>1, <1>3, <1>6 DEF PendingIsDue
  <2>1. z \in Room /\ z \in Fds
    BY <1>3
  <2>2. CASE z # f
    <3>1. awaits'[z] = "text" /\ users'[z].write_buf = f /\ users'[f].buf = inbox[f]
          /\ inbox[f] \in due'[z]
      BY <1>1, <1>2, <2>1, <2>2
    <3>. QED
      BY <2>2, <3>1
  <2>3. CASE z = f
    <3>1. awaits'[z] = awaits[z] /\ users'[z].write_buf = users[z].write_buf /\ due'[z] = due[z]
          /\ fds'[k] = fds[k]
      BY <1>1, <1>2, <1>3, <2>1, <2>3
    <3>2. \A w \in Fds \ {f} : users'[w].buf = users[w].buf
      BY <1>1
    <3>. QED
      BY <2>3, <3>1, <3>2 DEF TalkInv, PendingIsDue
  <2>. QED
    BY <2>2, <2>3
<1>13. ClosedAwaitNothing'
  BY <1>1, <1>2 DEF TalkInv, ClosedAwaitNothing
<1>. QED
  BY <1>8, <1>9, <1>10, <1>11, <1>12, <1>13 DEF TalkInv

(* After send nothing is put up for f. *)
LEMMA SendTalk ==
  ASSUME TalkInv, NEW f \in Fds, Send(f)
  PROVE  TalkInv'
<1>1. /\ At("send", f) /\ GoTo(i + 1, user_counter)
      /\ due' = [due EXCEPT ![f] = @ \ {users[users[f].write_buf].buf}]
      /\ users' = [users EXCEPT ![f].write_buf = NULL]
      /\ fds' = [fds EXCEPT ![i].events = "all"]
      /\ awaits' = [awaits EXCEPT ![f] = "no"]
      /\ UNCHANGED <<user_counter, listener, open, peer, inbox, sent>>
  BY DEF Send, kernelVars, GoTo
<1>2. /\ i \in 1..user_counter /\ fds[i].fd = f /\ f \in open
      /\ \A k \in 1..user_counter : k # i => fds[k].fd # f
  BY <1>1, AtFacts
<1>3. \A k \in 1..user_counter : k \in Entries /\ fds[k].fd \in Fds
  BY EntryFacts
<1>4. fds \in [Entries -> Pollfd]
      /\ users \in [Fds -> [write_buf : Fds \union {NULL, Unset}, buf : Messages \union {Nothing, Unset}]]
      /\ due \in [Fds -> SUBSET Messages] /\ awaits \in [Fds -> {"no", "text", "astray"}]
  BY DEF TalkInv, TypeOK
<1>5. fds' \in [Entries -> Pollfd]
      /\ \A k \in Entries : /\ fds'[k].fd = fds[k].fd /\ fds'[k].revents = fds[k].revents
                             /\ k # i => fds'[k] = fds[k]
  <2>1. i \in Entries
    BY <1>2, <1>3
  <2>2. \A e \in Pollfd : /\ [e EXCEPT !.events = "all"] \in Pollfd
                          /\ [e EXCEPT !.events = "all"].fd = e.fd
                          /\ [e EXCEPT !.events = "all"].revents = e.revents
    BY DEF Pollfd
  <2>. QED
    BY <1>1, <1>4, <2>1, <2>2
<1>6. /\ users' \in [Fds -> [write_buf : Fds \union {NULL, Unset}, buf : Messages \union {Nothing, Unset}]]
      /\ users'[f].write_buf = NULL
      /\ \A z \in Fds : users'[z].buf = users[z].buf
      /\ \A z \in Fds \ {f} : users'[z] = users[z]
  BY <1>1, <1>4
<1>7. due' \in [Fds -> SUBSET Messages] /\ awaits' \in [Fds -> {"no", "text", "astray"}]
  BY <1>1, <1>4
<1>8. ScanExact' /\ i' \in 0..user_counter' /\ pc' \in {"poll", "scan"}
  BY <1>1, <1>3, <1>5, ScanGoesOn
<1>9. RecvFindsData'
  BY <1>1, <1>3, <1>5, RecvGoesOn
<1>10. TypeOK'
  BY <1>1, <1>5, <1>6, <1>7, <1>8, AtFacts DEF TalkInv, TypeOK
<1>11. RoomIsOpen'
  <2>1. Room' = Room
    BY <1>1, <1>3, <1>5 DEF Room
  <2>. QED
    BY <1>1, <1>3, <1>5, <2>1 DEF TalkInv, RoomIsOpen
<1>12. PendingIsDue'
  <2> SUFFICES ASSUME NEW k \in 1..user_counter, NEW z, z = fds[k].fd
               PROVE  /\ awaits'[z] = "text" => /\ users'[z].write_buf \in Fds \ {z}
                                                 /\ users'[users'[z].write_buf].buf \in due'[z]
                      /\ fds'[k].events = "all" /\ awaits'[z] = "no" => users'[z].write_buf = NULL
    BY <1>1, <1>3, <1>5 DEF PendingIsDue
  <2>1. z \in Fds /\ (z = f <=> k = i)
    BY <1>2, <1>3
  <2>2. CASE z = f
    BY <1>1, <1>4, <1>6, <2>2
  <2>3. CASE z # f
    <3>1. awaits'[z] = awaits[z] /\ due'[z] = due[z] /\ users'[z] = users[z] /\ fds'[k] = fds[k]
      BY <1>1, <1>3, <1>4, <1>5, <1>6, <2>1, <2>3
    <3>. QED
      BY <1>6, <3>1 DEF TalkInv, PendingIsDue
  <2>. QED
    BY <2>2, <2>3
<1>13. ClosedAwaitNothing'
  BY <1>1, <1>4 DEF TalkInv, ClosedAwaitNothing
<1>. QED
  BY <1>8, <1>9, <1>10, <1>11, <1>12, <1>13 DEF TalkInv

(* The array after the last entry has been moved to i: one entry less, and the   *)
(* same entries but that of f.                                                   *)
LEMMA CompactedFacts ==
  ASSUME TalkInv, NEW f \in Fds, NEW branch, At(branch, f),
         fds' = Compacted, user_counter' = user_counter - 1
  PROVE  /\ fds' \in [Entries -> Pollfd] /\ user_counter' \in 0..USER_LIMIT
         /\ \A k \in 1..user_counter' :
              \E n \in 1..user_counter : /\ fds'[k] = fds[n] /\ fds[n].fd # f
                                         /\ k >= i => n > i
         /\ \A n \in 1..user_counter : n # i =>
              \E k \in 1..user_counter' : fds'[k] = fds[n] /\ (n > i => k >= i)
         /\ \A j, k \in 1..user_counter' : fds'[j].fd = fds'[k].fd => j = k
<1>1. /\ i \in 1..user_counter /\ fds[i].fd = f
      /\ \A k \in 1..user_counter : k # i => fds[k].fd # f
  BY AtFacts
<1>2. /\ user_counter \in Nat /\ i \in Nat /\ user_counter <= USER_LIMIT /\ USER_LIMIT \in Nat
      /\ fds \in [Entries -> Pollfd] /\ 1..user_counter \subseteq Entries
  BY EntryFacts, TalkAssumption DEF TalkInv, TypeOK
<1>3. user_counter \in Entries /\ i \in Entries /\ user_counter \in 1..user_counter
  BY <1>1, <1>2
<1>4. /\ fds' \in [Entries -> Pollfd] /\ fds'[i] = fds[user_counter]
      /\ \A k \in Entries \ {i} : fds'[k] = fds[k]
  BY <1>2, <1>3 DEF Compacted
<1>5. \A k \in 1..user_counter' : k \in 1..user_counter /\ k \in Entries /\ k < user_counter
  BY <1>2
<1>6. \A k \in 1..user_counter' :
        \E n \in 1..user_counter : fds'[k] = fds[n] /\ n # i /\ (k >= i => n > i)
                                   /\ n = IF k = i THEN user_counter ELSE k
  <2> SUFFICES ASSUME NEW k \in 1..user_counter'
               PROVE  \E n \in 1..user_counter : fds'[k] = fds[n] /\ n # i /\ (k >= i => n > i)
                                                 /\ n = IF k = i THEN user_counter ELSE k
    OBVIOUS
  <2>1. CASE k = i
    BY <1>2, <1>3, <1>4, <1>5, <2>1
  <2>2. CASE k # i
    BY <1>2, <1>4, <1>5, <2>2
  <2>. QED
    BY <2>1, <2>2
<1>7. \A n \in 1..user_counter : n # i =>
        \E k \in 1..user_counter' : fds'[k] = fds[n] /\ (n > i => k >= i)
  <2> SUFFICES ASSUME NEW n \in 1..user_counter, n # i
               PROVE  \E k \in 1..user_counter' : fds'[k] = fds[n] /\ (n > i => k >= i)
    OBVIOUS
  <2>1. CASE n = user_counter
    <3>1. i \in 1..user_counter'
      BY <1>1, <1>2, <2>1
    <3>. QED
      BY <1>2, <1>4, <2>1, <3>1
  <2>2. CASE n # user_counter
    <3>1. n \in 1..user_counter' /\ n \in Entries
      BY <1>2, <2>2
    <3>. QED
      BY <1>2, <1>4, <3>1
  <2>. QED
    BY <2>1, <2>2
<1>8. \A j, k \in 1..user_counter' : fds'[j].fd = fds'[k].fd => j = k
  <2> SUFFICES ASSUME NEW j \in 1..user_counter', NEW k \in 1..user_counter', fds'[j].fd = fds'[k].fd
               PROVE  j = k
    OBVIOUS
  <2>1. PICK m \in 1..user_counter : fds'[j] = fds[m] /\ m = IF j = i THEN user_counter ELSE j
    BY <1>6
  <2>2. PICK n \in 1..user_counter : fds'[k] = fds[n] /\ n = IF k = i THEN user_counter ELSE k
    BY <1>6
  <2>3. m = n
    BY <2>1, <2>2 DEF TalkInv, RoomIsOpen
  <2>. QED
    BY <1>2, <1>5, <2>1, <2>2, <2>3
<1>9. user_counter' \in 0..USER_LIMIT
  BY <1>2, <1>3
<1>. QED
  BY <1>1, <1>4, <1>6, <1>7, <1>8, <1>9

(* A user is removed. Text in its record is either still what its readers are to *)
(* hear, or they are astray.                                                     *)
LEMMA RemoveTalk ==
  ASSUME TalkInv, NEW f \in Fds, NEW branch, At(branch, f),
         NEW text \in Messages \union {Nothing, Unset}, Remove(f, text), sent' = sent
  PROVE  TalkInv'
<1> DEFINE last == fds[user_counter].fd
           Users == [Fds -> [write_buf : Fds \union {NULL, Unset},
                             buf : Messages \union {Nothing, Unset}]]
<1>1. /\ users' = [users EXCEPT ![f] = IF last = f THEN [@ EXCEPT !.buf = text] ELSE users[last]]
      /\ open' = open \ {f} /\ peer' = [peer EXCEPT ![f] = "up"]
      /\ inbox' = [inbox EXCEPT ![f] = Nothing]
      /\ fds' = Compacted /\ user_counter' = user_counter - 1
      /\ GoTo(i, user_counter - 1) /\ listener' = listener
      /\ due' = [due EXCEPT ![f] = {}]
      /\ awaits' = [z \in Fds |-> IF z = f THEN "no"
                                  ELSE IF z \in Readers(f) /\ users'[f].buf # users[f].buf
                                  THEN "astray" ELSE awaits[z]]
  BY DEF Remove, Again, GoTo
<1>2. /\ i \in 1..user_counter /\ fds[i].fd = f /\ f \in open /\ todo' = todo \ {f}
      /\ \A k \in 1..user_counter : k # i => fds[k].fd # f
  BY AtFacts
<1>3. /\ fds' \in [Entries -> Pollfd] /\ user_counter' \in 0..USER_LIMIT
      /\ \A k \in 1..user_counter' :
           \E n \in 1..user_counter : fds'[k] = fds[n] /\ fds[n].fd # f /\ (k >= i => n > i)
      /\ \A n \in 1..user_counter : n # i =>
           \E k \in 1..user_counter' : fds'[k] = fds[n] /\ (n > i => k >= i)
      /\ \A j, k \in 1..user_counter' : fds'[j].fd = fds'[k].fd => j = k
  BY <1>1, CompactedFacts
<1>4. /\ user_counter \in Nat /\ i \in Nat /\ users \in Users /\ pc = "scan"
      /\ \A k \in 1..user_counter : fds[k].fd \in Fds /\ fds[k].fd \in Room
      /\ user_counter \in 1..user_counter
  BY <1>2, EntryFacts DEF TalkInv, TypeOK, Room, At
<1>5. \/ i <= user_counter' /\ pc' = "scan" /\ i' = i
      \/ i > user_counter' /\ pc' = "poll" /\ i' = 0
  BY <1>1, <1>4 DEF GoTo
<1>6. /\ users' \in Users /\ \A z \in Fds \ {f} : users'[z] = users[z]
  <2>1. last \in Fds
    BY <1>4
  <2>2. users[last] \in [write_buf : Fds \union {NULL, Unset}, buf : Messages \union {Nothing, Unset}]
    BY <1>4, <2>1
  <2>3. [users[f] EXCEPT !.buf = text]
          \in [write_buf : Fds \union {NULL, Unset}, buf : Messages \union {Nothing, Unset}]
    BY <1>4
  <2>. QED
    BY <1>1, <1>4, <2>2, <2>3
<1>7. TypeOK'
  <2>1. /\ peer' \in [Fds -> {"up", "fin", "rst", "gone"}]
        /\ inbox' \in [Fds -> Messages \union {Nothing}] /\ open' \subseteq Fds
        /\ due' \in [Fds -> SUBSET Messages] /\ todo' \subseteq Fds
    BY <1>1, <1>2 DEF TalkInv, TypeOK
  <2>2. awaits' \in [Fds -> {"no", "text", "astray"}]
    BY <1>1 DEF TalkInv, TypeOK
  <2>3. i' \in 0..user_counter' /\ pc' \in {"poll", "scan"}
    BY <1>3, <1>4, <1>5
  <2>4. sent' \in 0..MaxMessages
    BY DEF TalkInv, TypeOK
  <2>. QED
    BY <1>1, <1>3, <1>6, <2>1, <2>2, <2>3, <2>4 DEF TalkInv, TypeOK
<1>8. RoomIsOpen'
  <2>1. \A z : z \in Room' <=> \E k \in 1..user_counter' : z = fds'[k].fd
    BY DEF Room
  <2>2. \A z : z \in Room <=> \E k \in 1..user_counter : z = fds[k].fd
    BY DEF Room
  <2>3. \A z : z \in Room' <=> z \in Room /\ z # f
    BY <1>2, <1>3, <2>1, <2>2
  <2>4. Room' = open'
    BY <1>1, <2>3 DEF TalkInv, RoomIsOpen
  <2>. QED
    BY <1>3, <2>4 DEF RoomIsOpen
<1>9. ScanExact'
  <2>1. \A z : z \in todo <=> \E n \in 1..user_counter : n >= i /\ fds[n].revents # {} /\ z = fds[n].fd
    BY <1>4 DEF TalkInv, ScanExact
  <2>2. \A z : z \in todo' <=> \E n \in 1..user_counter :
                                  n > i /\ n # i /\ fds[n].revents # {} /\ z = fds[n].fd
    <3>1. \A n \in 1..user_counter : n >= i /\ n # i <=> n > i
      BY <1>4
    <3>. QED
      BY <1>2, <2>1, <3>1
  <2>3. \A z : z \in todo' <=> \E k \in 1..user_counter' :
                                  k >= i /\ fds'[k].revents # {} /\ z = fds'[k].fd
    <3>1. \A k \in 1..user_counter' : k >= i =>
            \E n \in 1..user_counter : fds'[k] = fds[n] /\ n > i /\ n # i
      BY <1>3, <1>4
    <3>. QED
      BY <1>3, <2>2, <3>1
  <2>4. CASE pc' = "scan" /\ i' = i
    BY <2>3, <2>4 DEF ScanExact
  <2>5. CASE i > user_counter' /\ pc' = "poll"
    <3>1. \A k \in 1..user_counter' : ~(k >= i)
      BY <1>3, <1>4, <2>5
    <3>2. todo' = {}
      BY <2>3, <3>1
    <3>. QED
      BY <2>5, <3>2 DEF ScanExact
  <2>. QED
    BY <1>5, <2>4, <2>5
<1>10. RecvFindsData'
  <2> SUFFICES ASSUME pc' = "scan", NEW k \in 1..user_counter', k >= i', Branch(fds'[k]) = "recv"
               PROVE  inbox'[fds'[k].fd] \in Messages
    BY DEF RecvFindsData
  <2>1. i' = i
    BY <1>5
  <2>2. PICK n \in 1..user_counter : fds'[k] = fds[n] /\ fds[n].fd # f /\ n > i
    BY <1>3, <2>1
  <2>3. n >= i
    BY <1>4, <2>2
  <2>4. inbox[fds[n].fd] \in Messages
    BY <1>4, <2>2, <2>3 DEF TalkInv, RecvFindsData
  <2>. QED
    BY <1>1, <1>4, <2>2, <2>4
<1>11. PendingIsDue'
  <2> SUFFICES ASSUME NEW k \in 1..user_counter', NEW z, z = fds'[k].fd
               PROVE  /\ awaits'[z] = "text" => /\ users'[z].write_buf \in Fds \ {z}
                                                 /\ users'[users'[z].write_buf].buf \in due'[z]
                      /\ fds'[k].events = "all" /\ awaits'[z] = "no" => users'[z].write_buf = NULL
    BY DEF PendingIsDue
  <2>1. PICK n \in 1..user_counter : fds'[k] = fds[n] /\ fds[n].fd # f
    BY <1>3
  <2>2. z = fds[n].fd /\ z \in Fds /\ z # f /\ z \in Room
    BY <1>4, <2>1
  <2>3. users'[z] = users[z] /\ due'[z] = due[z]
    BY <1>1, <1>6, <2>2 DEF TalkInv, TypeOK
  <2>4. CASE z \in Readers(f) /\ users'[f].buf # users[f].buf
    BY <1>1, <2>2, <2>4
  <2>5. CASE ~(z \in Readers(f) /\ users'[f].buf # users[f].buf)
    <3>1. awaits'[z] = awaits[z]
      BY <1>1, <2>2, <2>5
    <3>2. /\ awaits[z] = "text" => users[z].write_buf \in Fds \ {z} /\ users[users[z].write_buf].buf \in due[z]
          /\ fds[n].events = "all" /\ awaits[z] = "no" => users[z].write_buf = NULL
      BY <2>2 DEF TalkInv, PendingIsDue
    <3>3. ASSUME awaits[z] = "text" PROVE users'[users[z].write_buf].buf = users[users[z].write_buf].buf
      BY <1>6, <2>2, <2>5, <3>2, <3>3 DEF Readers
    <3>. QED
      BY <2>1, <2>3, <3>1, <3>2, <3>3
  <2>. QED
    BY <2>4, <2>5
<1>12. ClosedAwaitNothing'
  BY <1>1, EntryFacts DEF TalkInv, ClosedAwaitNothing, Readers
<1>. QED
  BY <1>7, <1>8, <1>9, <1>10, <1>11, <1>12 DEF TalkInv

LEMMA LeaveTalk ==
  ASSUME TalkInv, NEW f \in Fds, Leave(f) \/ RecvFails(f)
  PROVE  TalkInv'
<1>1. CASE Leave(f)
  <2>1. users[f].buf \in Messages \union {Nothing, Unset}
    BY DEF TalkInv, TypeOK
  <2>. QED
    BY <1>1, <2>1, RemoveTalk DEF Leave
<1>2. CASE RecvFails(f)
  BY <1>2, RemoveTalk DEF RecvFails
<1>. QED
  BY <1>1, <1>2

-----------------------------------------------------------------------------
LEMMA TalkInvariant == Spec => []TalkInv
<1>1. Init => TalkInv
  BY InitTalk
<1>2. TalkInv /\ [Next]_vars => TalkInv'
  BY PollTalk, OutsideTalk, NobodyTalk, PassTalk, AcceptTalk, LeaveTalk, RecvNothingTalk, RecvTalk,
     SendTalk
  DEF Next, Server
<1>. QED
  BY <1>1, <1>2, PTL DEF Spec

(* The users in the array are the open connections, each once, and the scan      *)
(* handles every connection that poll reported exactly once, although it moves   *)
(* the last entry into the place of each user who leaves                         *)
(* (talk_server.cpp:81, 101-106, 123-127, 140-144).                              *)
THEOREM ScanCorrect == Spec => [](TypeOK /\ RoomIsOpen /\ ScanExact)
<1>1. TalkInv => TypeOK /\ RoomIsOpen /\ ScanExact
  BY DEF TalkInv
<1>. QED
  BY <1>1, TalkInvariant, PTL

(* recv is only called where poll has seen data, so that it never returns 0,     *)
(* "code should not come to here" (talk_server.cpp:147-149).                     *)
THEOREM RecvCorrect == Spec => []RecvFindsData
<1>1. TalkInv => RecvFindsData
  BY DEF TalkInv
<1>. QED
  BY <1>1, TalkInvariant, PTL

(* Text that is about to be sent was said by another user after the receiver     *)
(* came, and has not been sent to it, unless the record was overwritten          *)
(* (talk_server.cpp:123, 133, 141, 153-163, 173).                                *)
THEOREM PendingCorrect == Spec => []PendingIsDue
<1>1. TalkInv => PendingIsDue
  BY DEF TalkInv
<1>. QED
  BY <1>1, TalkInvariant, PTL
-----------------------------------------------------------------------------
(* The chat that TalkServer implements.                                      *)

(* What poll has reported stays true: who is polled for writing was given      *)
(* something to write, and a client that has left stays so until it is removed. *)
ReportsHold ==
  \A k \in 1..user_counter :
    /\ "OUT" \in fds[k].revents => fds[k].events = "all"
    /\ fds[k].revents \intersect {"ERR", "RDHUP"} # {} => peer[fds[k].fd] # "up"

ClosedAreUp == \A f \in Fds \ open : peer[f] = "up"

RoomInv == TalkInv /\ ReportsHold /\ ClosedAreUp

RoomStep == RoomInv' /\ [Chat!Next]_(Chat!vars)

(* What is put up for a user is in the record of another, and news. *)
LEMMA TextFacts ==
  ASSUME TalkInv, NEW z \in Fds
  PROVE  /\ awaits[z] \in {"no", "text", "astray"} /\ NULL \notin Fds
         /\ awaits[z] # "no" => z \in open
         /\ awaits[z] = "text" => /\ users[z].write_buf \in Fds \ {z} /\ Author(z) = users[z].write_buf
                                  /\ Text(z) = users[users[z].write_buf].buf /\ Text(z) \in due[z]
         /\ awaits[z] = "no" => Text(z) = Nothing /\ Author(z) = NULL
         /\ awaits[z] = "astray" => Text(z) = Lost /\ Author(z) = NULL
<1>1. awaits[z] \in {"no", "text", "astray"} /\ NULL \notin Fds
  BY EntryFacts DEF TalkInv, TypeOK
<1>2. awaits[z] # "no" => z \in open
  BY DEF TalkInv, ClosedAwaitNothing
<1>3. ASSUME awaits[z] = "text"
      PROVE  users[z].write_buf \in Fds \ {z} /\ users[users[z].write_buf].buf \in due[z]
  <2>1. PICK k \in 1..user_counter : fds[k].fd = z
    BY <1>2, <1>3, EntryFacts DEF Room
  <2>. QED
    BY <1>3, <2>1 DEF TalkInv, PendingIsDue
<1>. QED
  BY <1>1, <1>2, <1>3 DEF Text, Author

(* The entries and the connections after a step that moves no entry. *)
LEMMA ReportsStay ==
  ASSUME RoomInv, user_counter' = user_counter, open' = open,
         \A k \in 1..user_counter : /\ fds'[k].fd = fds[k].fd /\ fds'[k].revents = fds[k].revents
                                    /\ fds'[k].events = fds[k].events \/ fds'[k].events = "all",
         \A f \in Fds : /\ peer[f] # "up" => peer'[f] # "up"
                        /\ f \notin open => peer'[f] = peer[f]
  PROVE  ReportsHold' /\ ClosedAreUp'
<1>1. \A k \in 1..user_counter : fds[k].fd \in Fds
  BY EntryFacts DEF RoomInv
<1>. QED
  BY <1>1 DEF RoomInv, ReportsHold, ClosedAreUp

(* What is put up for whom after a step. *)
LEMMA PutUpIs ==
  ASSUME NEW to, NEW words, NEW a,
         \A z \in Fds : /\ Text(z)' = IF z \in to THEN words ELSE Text(z)
                        /\ Author(z)' = IF z \in to THEN a ELSE Author(z)
  PROVE  Chat!PutUp(to, words, a)
BY DEF Chat!PutUp

LEMMA SameTexts ==
  ASSUME UNCHANGED <<users, awaits>>
  PROVE  \A z \in Fds : Text(z)' = Text(z) /\ Author(z)' = Author(z)
BY DEF Text, Author

(* A step the users do not notice. *)
LEMMA QuietRoom ==
  ASSUME TalkInv', ReportsHold', ClosedAreUp',
         UNCHANGED <<users, awaits, open, inbox, sent, due>>,
         \A f \in open : peer'[f] # "up" <=> peer[f] # "up"
  PROVE  RoomStep
<1>1. {f \in open : peer[f] # "up"}' = {f \in open : peer[f] # "up"} /\ (1..sent)' = 1..sent
  OBVIOUS
<1>2. /\ [f \in Fds |-> Text(f)]' = [f \in Fds |-> Text(f)]
      /\ [f \in Fds |-> Author(f)]' = [f \in Fds |-> Author(f)]
  BY SameTexts
<1>3. UNCHANGED Chat!vars
  BY <1>1, <1>2 DEF Chat!vars
<1>. QED
  BY <1>3 DEF RoomStep, RoomInv

LEMMA PollRoom == RoomInv /\ Poll => RoomStep
<1> SUFFICES ASSUME RoomInv, Poll PROVE RoomStep
  OBVIOUS
<1>1. UNCHANGED <<user_counter, users, open, peer, inbox, sent, due, awaits>>
  BY DEF Poll, kernelVars
<1>2. ASSUME NEW k \in 1..user_counter'
      PROVE  /\ "OUT" \in fds'[k].revents => fds'[k].events = "all"
             /\ fds'[k].revents \intersect {"ERR", "RDHUP"} # {} => peer[fds'[k].fd] # "up"
  <2>1. k \in Entries /\ k \in 1..user_counter /\ ~(k > user_counter)
    BY <1>1, EntryFacts DEF RoomInv, TalkInv, TypeOK
  <2>2. fds'[k] = [fds[k] EXCEPT !.revents = Reported(fds[k])] /\ fds[k] \in Pollfd
    BY <2>1 DEF Poll, RoomInv, TalkInv, TypeOK
  <2>3. fds'[k].revents = Reported(fds[k]) /\ fds'[k].fd = fds[k].fd /\ fds'[k].events = fds[k].events
    BY <2>2 DEF Pollfd
  <2>4. "OUT" \in Reported(fds[k]) => fds[k].events = "all"
    BY DEF Reported
  <2>5. Reported(fds[k]) \intersect {"ERR", "RDHUP"} # {} => peer[fds[k].fd] # "up"
    BY DEF Reported
  <2>. QED
    BY <2>3, <2>4, <2>5
<1>3. ReportsHold' /\ ClosedAreUp'
  BY <1>1, <1>2 DEF ReportsHold, RoomInv, ClosedAreUp
<1>. QED
  BY <1>1, <1>3, PollTalk, QuietRoom DEF RoomInv

LEMMA PassRoom ==
  ASSUME RoomInv, \/ PollFails \/ AcceptNobody \/ NobodyComes \/ UNCHANGED vars
                  \/ \E f \in Fds : Idle(f) \/ TakeError(f) \/ SendNothing(f)
  PROVE  RoomStep
<1>1. TalkInv'
  BY OutsideTalk, NobodyTalk, PassTalk DEF RoomInv
<1>2. UNCHANGED <<fds, user_counter, users, awaits, open, inbox, sent, due>>
  BY DEF PollFails, AcceptNobody, NobodyComes, Idle, TakeError, SendNothing, vars, tableVars,
         kernelVars, historyVars
<1>3. \A f \in Fds : (peer'[f] # "up" <=> peer[f] # "up") /\ (f \notin open => peer'[f] = peer[f])
  <2>1. CASE \E f \in Fds : TakeError(f)
    <3>1. PICK f \in Fds : TakeError(f)
      BY <2>1
    <3>2. /\ i \in 1..user_counter /\ fds[i].fd = f /\ f \in open /\ Branch(fds[i]) = "error"
          /\ peer' = [peer EXCEPT ![f] = "gone"]
      BY <3>1, AtFacts DEF TakeError, At, RoomInv
    <3>3. peer[f] # "up" /\ peer'[f] # "up"
      BY <3>2 DEF Branch, RoomInv, ReportsHold, TalkInv, TypeOK
    <3>. QED
      BY <3>2, <3>3 DEF RoomInv, TalkInv, TypeOK
  <2>2. CASE ~\E f \in Fds : TakeError(f)
    BY <2>2 DEF PollFails, AcceptNobody, NobodyComes, Idle, SendNothing, vars, kernelVars
  <2>. QED
    BY <2>1, <2>2
<1>4. ReportsHold' /\ ClosedAreUp'
  BY <1>2, <1>3, ReportsStay
<1>. QED
  BY <1>1, <1>2, <1>3, <1>4, QuietRoom DEF RoomInv, TalkInv, TypeOK

(* Whoever takes a place joins the room. *)
LEMMA JoinRoom ==
  ASSUME RoomInv, NEW f \in Fds, AcceptUser(f)
  PROVE  RoomStep
<1>1. /\ f \notin open /\ open' = open \union {f} /\ user_counter' = user_counter + 1
      /\ fds' = [fds EXCEPT ![user_counter + 1] = Entry(f)] /\ user_counter < USER_LIMIT
      /\ UNCHANGED <<users, peer, inbox, sent, due, awaits>>
  BY DEF AcceptUser, HasPlace, historyVars
<1>2. peer[f] = "up"
  BY <1>1 DEF RoomInv, ClosedAreUp
<1>3. ReportsHold'
  <2>1. user_counter \in Nat /\ user_counter + 1 \in Entries /\ fds \in [Entries -> Pollfd]
    BY <1>1, TalkAssumption DEF RoomInv, TalkInv, TypeOK, Entries
  <2>2. \A k \in 1..user_counter' : \/ k \in 1..user_counter /\ k \in Entries /\ fds'[k] = fds[k]
                                    \/ fds'[k] = Entry(f)
    BY <1>1, <2>1, EntryFacts DEF RoomInv
  <2>3. Entry(f).revents = {}
    BY DEF Entry
  <2>. QED
    BY <1>1, <2>2, <2>3 DEF RoomInv, ReportsHold
<1>4. {g \in open : peer[g] # "up"}' = {g \in open : peer[g] # "up"}
  BY <1>1, <1>2
<1>5. /\ [g \in Fds |-> Text(g)]' = [g \in Fds |-> Text(g)]
      /\ [g \in Fds |-> Author(g)]' = [g \in Fds |-> Author(g)]
  BY <1>1, SameTexts
<1>6. Chat!Join(f)
  BY <1>1, <1>4, <1>5 DEF Chat!Join
<1>7. TalkInv' /\ ClosedAreUp'
  BY <1>1, AcceptTalk DEF RoomInv, ClosedAreUp
<1>. QED
  BY <1>3, <1>6, <1>7 DEF RoomStep, RoomInv, Chat!Next

(* What was said is put up for all others. *)
LEMMA SayRoom ==
  ASSUME RoomInv, NEW f \in Fds, Recv(f)
  PROVE  RoomStep
<1>1. /\ At("recv", f) /\ inbox[f] \in Messages
      /\ users' = [z \in Fds |-> [write_buf |-> IF z \in Hearers(f) THEN f ELSE users[z].write_buf,
                                  buf |-> IF z = f THEN inbox[f] ELSE users[z].buf]]
      /\ fds' = [k \in Entries |-> IF k <= user_counter /\ fds[k].fd \in Hearers(f)
                                   THEN Asked(fds[k]) ELSE fds[k]]
      /\ inbox' = [inbox EXCEPT ![f] = Nothing]
      /\ due' = [z \in Fds |-> IF z \in Room \ {f} THEN due[z] \union {inbox[f]} ELSE due[z]]
      /\ awaits' = [z \in Fds |-> IF z \in Hearers(f) THEN "text" ELSE awaits[z]]
      /\ UNCHANGED <<user_counter, open, peer, sent>>
  BY DEF Recv
<1>2. Hearers(f) = open \ {f} /\ Room = open /\ f \in open
  BY <1>1, EntryFacts, AtFacts DEF Hearers, RoomInv
<1>3. \A z \in Fds : /\ Text(z)' = IF z \in open \ {f} THEN inbox[f] ELSE Text(z)
                     /\ Author(z)' = IF z \in open \ {f} THEN f ELSE Author(z)
  <2> SUFFICES ASSUME NEW z \in Fds
               PROVE  /\ Text(z)' = IF z \in open \ {f} THEN inbox[f] ELSE Text(z)
                      /\ Author(z)' = IF z \in open \ {f} THEN f ELSE Author(z)
    OBVIOUS
  <2>1. CASE z \in open \ {f}
    <3>1. awaits'[z] = "text" /\ users'[z].write_buf = f /\ users'[f].buf = inbox[f]
      BY <1>1, <1>2, <2>1
    <3>. QED
      BY <2>1, <3>1 DEF Text, Author
  <2>2. CASE z \notin open \ {f}
    <3>1. awaits'[z] = awaits[z] /\ users'[z].write_buf = users[z].write_buf
      BY <1>1, <1>2, <2>2
    <3>2. ASSUME awaits[z] = "text" PROVE users'[users[z].write_buf].buf = users[users[z].write_buf].buf
      BY <1>1, <2>2, <3>2, TextFacts DEF RoomInv
    <3>. QED
      BY <2>2, <3>1, <3>2, TextFacts DEF RoomInv, Text, Author
  <2>. QED
    BY <2>1, <2>2
<1>4. Chat!PutUp(open \ {f}, inbox[f], f)
  BY <1>3, PutUpIs
<1>5. {g \in open : peer[g] # "up"}' = {g \in open : peer[g] # "up"} /\ (1..sent)' = 1..sent
  BY <1>1
<1>6. Chat!Say(f)
  BY <1>1, <1>2, <1>4, <1>5 DEF Chat!Say
<1>7. ReportsHold' /\ ClosedAreUp'
  <2>1. \A e \in Pollfd : /\ Asked(e).fd = e.fd /\ Asked(e).revents = e.revents
                          /\ Asked(e).events = "all"
    BY DEF Asked, Pollfd
  <2>2. \A k \in 1..user_counter : k \in Entries /\ fds[k] \in Pollfd
    BY EntryFacts DEF RoomInv, TalkInv, TypeOK
  <2>. QED
    BY <1>1, <2>1, <2>2, ReportsStay
<1>8. TalkInv'
  BY RecvTalk DEF RoomInv
<1>. QED
  BY <1>6, <1>7, <1>8 DEF RoomStep, RoomInv, Chat!Next

(* An empty buffer is what the readers of f find. *)
LEMMA OverwriteRoom ==
  ASSUME RoomInv, NEW f \in Fds, RecvNothing(f)
  PROVE  RoomStep
<1>1. /\ At("recv", f) /\ users' = [users EXCEPT ![f].buf = Nothing]
      /\ awaits' = [z \in Fds |-> IF z \in Readers(f) THEN "astray" ELSE awaits[z]]
      /\ UNCHANGED <<fds, user_counter, open, peer, inbox, sent, due>>
  BY DEF RecvNothing, kernelVars
<1>2. f \in open /\ Room = open
  BY <1>1, AtFacts, EntryFacts DEF RoomInv
<1>3. /\ \A z \in Fds : users'[z].write_buf = users[z].write_buf
      /\ \A z \in Fds \ {f} : users'[z].buf = users[z].buf
  BY <1>1 DEF RoomInv, TalkInv, TypeOK
<1>4. \A z \in Fds : /\ Text(z)' = IF Author(z) = f THEN Lost ELSE Text(z)
                     /\ Author(z)' = IF Author(z) = f THEN NULL ELSE Author(z)
  <2> SUFFICES ASSUME NEW z \in Fds
               PROVE  /\ Text(z)' = IF Author(z) = f THEN Lost ELSE Text(z)
                      /\ Author(z)' = IF Author(z) = f THEN NULL ELSE Author(z)
    OBVIOUS
  <2>1. CASE awaits[z] = "text" /\ users[z].write_buf = f
    <3>1. Author(z) = f /\ z \in Readers(f)
      BY <1>2, <2>1, TextFacts DEF Readers, RoomInv
    <3>2. awaits'[z] = "astray"
      BY <1>1, <3>1
    <3>. QED
      BY <3>1, <3>2 DEF Text, Author
  <2>2. CASE awaits[z] = "text" /\ users[z].write_buf # f
    <3>1. Author(z) # f /\ z \notin Readers(f) /\ users[z].write_buf \in Fds
      BY <2>2, TextFacts DEF Readers, RoomInv
    <3>2. awaits'[z] = "text" /\ users'[z].write_buf = users[z].write_buf
          /\ users'[users[z].write_buf].buf = users[users[z].write_buf].buf
      BY <1>1, <1>3, <2>2, <3>1
    <3>. QED
      BY <2>2, <3>1, <3>2 DEF Text, Author
  <2>3. CASE awaits[z] # "text"
    <3>1. awaits'[z] = awaits[z]
      BY <1>1, <2>3, TextFacts DEF Readers, RoomInv
    <3>2. Author(z) = NULL /\ NULL # f
      BY <2>3, TextFacts DEF RoomInv
    <3>. QED
      BY <2>3, <3>1, <3>2, TextFacts DEF RoomInv, Text, Author
  <2>. QED
    BY <2>1, <2>2, <2>3
<1>5. Chat!PutUp(Chat!ReadersOf(f), Lost, NULL)
  BY <1>4, PutUpIs DEF Chat!ReadersOf
<1>6. {g \in open : peer[g] # "up"}' = {g \in open : peer[g] # "up"} /\ (1..sent)' = 1..sent
  BY <1>1
<1>7. Chat!Overwrite(f)
  BY <1>1, <1>2, <1>5, <1>6 DEF Chat!Overwrite
<1>8. TalkInv' /\ ReportsHold' /\ ClosedAreUp'
  BY <1>1, RecvNothingTalk, ReportsStay DEF RoomInv
<1>. QED
  BY <1>7, <1>8 DEF RoomStep, RoomInv, Chat!Next

(* A message is sent to the user it was put up for, and is not due to it again. *)
LEMMA HearRoom ==
  ASSUME RoomInv, NEW f \in Fds, Send(f)
  PROVE  RoomStep
<1> DEFINE words == users[users[f].write_buf].buf
<1>1. /\ At("send", f) /\ users[f].write_buf # NULL
      /\ due' = [due EXCEPT ![f] = @ \ {words}]
      /\ users' = [users EXCEPT ![f].write_buf = NULL]
      /\ fds' = [fds EXCEPT ![i].events = "all"]
      /\ awaits' = [awaits EXCEPT ![f] = "no"]
      /\ UNCHANGED <<user_counter, open, peer, inbox, sent>>
  BY DEF Send, kernelVars
<1>2. /\ i \in 1..user_counter /\ fds[i].fd = f /\ f \in open /\ Branch(fds[i]) = "send"
  BY <1>1, AtFacts DEF At, RoomInv
<1>3. awaits[f] # "no"
  <2>1. fds[i].events = "all"
    BY <1>2 DEF Branch, RoomInv, ReportsHold
  <2>. QED
    BY <1>1, <1>2, <2>1 DEF RoomInv, TalkInv, PendingIsDue
<1>4. /\ \A z \in Fds : users'[z].buf = users[z].buf
      /\ \A z \in Fds \ {f} : users'[z] = users[z] /\ awaits'[z] = awaits[z]
      /\ awaits'[f] = "no"
  BY <1>1 DEF RoomInv, TalkInv, TypeOK
<1>5. \A z \in Fds : /\ Text(z)' = IF z \in {f} THEN Nothing ELSE Text(z)
                     /\ Author(z)' = IF z \in {f} THEN NULL ELSE Author(z)
  <2> SUFFICES ASSUME NEW z \in Fds
               PROVE  /\ Text(z)' = IF z \in {f} THEN Nothing ELSE Text(z)
                      /\ Author(z)' = IF z \in {f} THEN NULL ELSE Author(z)
    OBVIOUS
  <2>1. CASE z = f
    BY <1>4, <2>1 DEF Text, Author
  <2>2. CASE z # f
    <3>1. awaits'[z] = awaits[z] /\ users'[z] = users[z] /\ awaits[z] \in {"no", "text", "astray"}
      BY <1>4, <2>2, TextFacts DEF RoomInv
    <3>2. ASSUME awaits[z] = "text" PROVE users'[users[z].write_buf].buf = users[users[z].write_buf].buf
      BY <1>4, <3>2, TextFacts DEF RoomInv
    <3>. QED
      BY <2>2, <3>1, <3>2 DEF Text, Author
  <2>. QED
    BY <2>1, <2>2
<1>6. Chat!PutUp({f}, Nothing, NULL)
  BY <1>5, PutUpIs
<1>7. \/ Text(f) \in due[f] /\ due' = [due EXCEPT ![f] = @ \ {Text(f)}]
      \/ Text(f) = Lost /\ \E m \in Messages \union {Nothing} : due' = [due EXCEPT ![f] = @ \ {m}]
  <2>1. CASE awaits[f] = "text"
    BY <1>1, <2>1, TextFacts DEF RoomInv
  <2>2. CASE awaits[f] = "astray"
    <3>1. Text(f) = Lost
      BY <2>2, TextFacts DEF RoomInv
    <3>2. CASE words \in Messages
      BY <1>1, <3>1, <3>2
    <3>3. CASE words \notin Messages
      <4>1. due[f] \ {words} = due[f] \ {Nothing}
        BY <3>3, EntryFacts DEF RoomInv, TalkInv, TypeOK
      <4>. QED
        BY <1>1, <3>1, <4>1
    <3>. QED
      BY <3>2, <3>3
  <2>. QED
    BY <1>3, <2>1, <2>2, TextFacts DEF RoomInv
<1>8. {g \in open : peer[g] # "up"}' = {g \in open : peer[g] # "up"} /\ (1..sent)' = 1..sent
  BY <1>1
<1>9. Chat!Hear(f)
  BY <1>1, <1>2, <1>6, <1>7, <1>8 DEF Chat!Hear
<1>10. ReportsHold' /\ ClosedAreUp'
  <2>1. fds \in [Entries -> Pollfd] /\ i \in Entries
        /\ \A k \in 1..user_counter : k \in Entries
    BY <1>2, EntryFacts DEF RoomInv, TalkInv, TypeOK
  <2>2. \A e \in Pollfd : /\ [e EXCEPT !.events = "all"].fd = e.fd
                          /\ [e EXCEPT !.events = "all"].revents = e.revents
                          /\ [e EXCEPT !.events = "all"].events = "all"
    BY DEF Pollfd
  <2>3. \A k \in 1..user_counter : /\ fds'[k].fd = fds[k].fd /\ fds'[k].revents = fds[k].revents
                                   /\ fds'[k].events = fds[k].events \/ fds'[k].events = "all"
    BY <1>1, <2>1, <2>2
  <2>. QED
    BY <1>1, <2>3, ReportsStay
<1>11. TalkInv'
  BY SendTalk DEF RoomInv
<1>. QED
  BY <1>9, <1>10, <1>11 DEF RoomStep, RoomInv, Chat!Next

(* A user is removed: its client has gone, and only those who were to hear what  *)
(* it said last can lose anything.                                               *)
LEMMA RemoveRoom ==
  ASSUME RoomInv, NEW f \in Fds, NEW branch, At(branch, f), NEW text, Remove(f, text),
         sent' = sent, peer[f] # "up", TalkInv'
  PROVE  RoomStep
<1> DEFINE changed == users'[f].buf # users[f].buf
           losers == IF changed THEN Chat!ReadersOf(f) ELSE {}
<1>1. /\ \A z \in Fds \ {f} : users'[z] = users[z]
      /\ open' = open \ {f} /\ peer' = [peer EXCEPT ![f] = "up"]
      /\ inbox' = [inbox EXCEPT ![f] = Nothing]
      /\ fds' = Compacted /\ user_counter' = user_counter - 1
      /\ due' = [due EXCEPT ![f] = {}]
      /\ awaits' = [z \in Fds |-> IF z = f THEN "no"
                                  ELSE IF z \in Readers(f) /\ changed
                                  THEN "astray" ELSE awaits[z]]
  BY DEF Remove, RoomInv, TalkInv, TypeOK
<1>2. f \in open /\ Room = open /\ open \subseteq Fds
  BY AtFacts, EntryFacts DEF RoomInv
<1>3. \A z \in Fds : z \in Chat!ReadersOf(f) <=> Author(z) = f
  BY DEF Chat!ReadersOf
<1>4. ASSUME NEW z \in Fds
      PROVE  /\ Text(z)' = IF z = f THEN Nothing ELSE IF z \in losers THEN Lost ELSE Text(z)
             /\ Author(z)' = IF z \in losers \union {f} THEN NULL ELSE Author(z)
  <2>1. CASE z = f
    <3>1. awaits'[z] = "no"
      BY <1>1, <2>1
    <3>. QED
      BY <2>1, <3>1 DEF Text, Author
  <2>2. CASE z # f /\ awaits[z] = "text" /\ users[z].write_buf = f
    <3>1. Author(z) = f /\ z \in Readers(f) /\ users'[z] = users[z]
      BY <1>1, <1>2, <2>2, TextFacts DEF Readers, RoomInv
    <3>2. CASE changed
      <4>1. awaits'[z] = "astray" /\ z \in losers
        BY <1>1, <1>3, <3>1, <3>2, <2>2
      <4>. QED
        BY <2>2, <4>1 DEF Text, Author
    <3>3. CASE ~changed
      <4>1. awaits'[z] = "text" /\ z \notin losers
        BY <1>1, <3>3, <2>2
      <4>. QED
        BY <2>2, <3>1, <3>3, <4>1 DEF Text, Author
    <3>. QED
      BY <3>2, <3>3
  <2>3. CASE z # f /\ awaits[z] = "text" /\ users[z].write_buf # f
    <3>1. Author(z) # f /\ z \notin Readers(f) /\ users'[z] = users[z] /\ users[z].write_buf \in Fds
      BY <1>1, <2>3, TextFacts DEF Readers, RoomInv
    <3>2. awaits'[z] = "text" /\ z \notin losers
          /\ users'[users[z].write_buf] = users[users[z].write_buf]
      BY <1>1, <1>3, <2>3, <3>1
    <3>. QED
      BY <2>3, <3>1, <3>2 DEF Text, Author
  <2>4. CASE z # f /\ awaits[z] # "text"
    <3>1. Author(z) = NULL /\ NULL # f /\ z \notin losers
      BY <1>3, <2>4, TextFacts DEF RoomInv
    <3>2. awaits[z] \in {"no", "astray"} /\ awaits'[z] = awaits[z]
      BY <1>1, <2>4, TextFacts DEF Readers, RoomInv
    <3>. QED
      BY <2>4, <3>1, <3>2 DEF Text, Author
  <2>. QED
    BY <2>1, <2>2, <2>3, <2>4
<1>5. {g \in open : peer[g] # "up"}' = {g \in open : peer[g] # "up"} \ {f}
      /\ f \in {g \in open : peer[g] # "up"} /\ (1..sent)' = 1..sent
  BY <1>1, <1>2 DEF RoomInv, TalkInv, TypeOK
<1>6. Chat!Leave(f)
  <2>1. losers \in {{}, Chat!ReadersOf(f)}
    OBVIOUS
  <2> HIDE DEF losers
  <2>2. /\ [z \in Fds |-> Text(z)]'
             = [u \in Fds |-> IF u = f THEN Nothing ELSE IF u \in losers THEN Lost
                              ELSE [z \in Fds |-> Text(z)][u]]
        /\ [z \in Fds |-> Author(z)]'
             = [u \in Fds |-> IF u \in losers \union {f} THEN NULL ELSE [z \in Fds |-> Author(z)][u]]
    BY <1>4
  <2>. QED
    BY <1>1, <1>5, <2>1, <2>2 DEF Chat!Leave
<1>7. ReportsHold' /\ ClosedAreUp'
  <2>1. \A k \in 1..user_counter' : \E n \in 1..user_counter : fds'[k] = fds[n] /\ fds[n].fd # f
    BY <1>1, CompactedFacts DEF RoomInv
  <2>2. \A n \in 1..user_counter : fds[n].fd \in Fds
    BY EntryFacts DEF RoomInv
  <2>3. \A z \in Fds \ {f} : peer'[z] = peer[z]
    BY <1>1 DEF RoomInv, TalkInv, TypeOK
  <2>4. peer'[f] = "up"
    BY <1>1 DEF RoomInv, TalkInv, TypeOK
  <2>5. ReportsHold'
    BY <2>1, <2>2, <2>3 DEF RoomInv, ReportsHold
  <2>. QED
    BY <1>1, <2>3, <2>4, <2>5 DEF RoomInv, ClosedAreUp
<1>. QED
  BY <1>6, <1>7 DEF RoomStep, RoomInv, Chat!Next

LEMMA LeaveRoom ==
  ASSUME RoomInv, NEW f \in Fds, Leave(f) \/ RecvFails(f)
  PROVE  RoomStep
<1>1. TalkInv'
  BY LeaveTalk DEF RoomInv
<1>2. CASE Leave(f)
  <2>1. At("leave", f) /\ Remove(f, users[f].buf) /\ sent' = sent
    BY <1>2 DEF Leave
  <2>2. i \in 1..user_counter /\ fds[i].fd = f /\ Branch(fds[i]) = "leave"
    BY <2>1, AtFacts DEF At, RoomInv
  <2>3. peer[f] # "up"
    BY <2>2 DEF Branch, RoomInv, ReportsHold
  <2>. QED
    BY <1>1, <2>1, <2>3, RemoveRoom
<1>3. CASE RecvFails(f)
  BY <1>1, <1>3, RemoveRoom DEF RecvFails
<1>. QED
  BY <1>2, <1>3

(* What the clients do is what the users of the chat do. *)
LEMMA ClientRoom == RoomInv /\ Clients => RoomStep
<1> SUFFICES ASSUME RoomInv, Clients PROVE RoomStep
  OBVIOUS
<1>1. TalkInv'
  BY OutsideTalk DEF RoomInv
<1>2. UNCHANGED <<fds, user_counter, users, open, due, awaits>>
  BY DEF Clients, ClientSays, ClientLeaves, tableVars, historyVars
<1>3. /\ [g \in Fds |-> Text(g)]' = [g \in Fds |-> Text(g)]
      /\ [g \in Fds |-> Author(g)]' = [g \in Fds |-> Author(g)]
  BY <1>2, SameTexts
<1>4. \A f \in Fds : /\ peer[f] # "up" => peer'[f] # "up"
                     /\ f \notin open => peer'[f] = peer[f]
  BY DEF Clients, ClientSays, ClientLeaves, RoomInv, TalkInv, TypeOK
<1>5. ReportsHold' /\ ClosedAreUp'
  BY <1>2, <1>4, ReportsStay
<1>6. CASE \E f \in Fds : ClientSays(f)
  <2>1. PICK f \in Fds : ClientSays(f)
    BY <1>6
  <2>2. /\ f \in open /\ peer[f] = "up" /\ inbox[f] = Nothing /\ sent < MaxMessages
        /\ inbox' = [inbox EXCEPT ![f] = sent + 1] /\ sent' = sent + 1 /\ peer' = peer
    BY <2>1 DEF ClientSays
  <2>3. sent + 1 \in Messages /\ sent + 1 \notin 1..sent /\ 1..(sent + 1) = (1..sent) \union {sent + 1}
    BY <2>2, TalkAssumption DEF RoomInv, TalkInv, TypeOK, Messages
  <2>4. Chat!ClientSays(f, sent + 1)
    BY <1>2, <1>3, <2>2, <2>3 DEF Chat!ClientSays
  <2>. QED
    BY <1>1, <1>5, <2>3, <2>4 DEF RoomStep, RoomInv, Chat!Next
<1>7. CASE \E f \in Fds : ClientLeaves(f, "fin") \/ ClientLeaves(f, "rst")
  <2>1. PICK f \in Fds : ClientLeaves(f, "fin") \/ ClientLeaves(f, "rst")
    BY <1>7
  <2>2. PICK how \in {"fin", "rst"} : peer' = [peer EXCEPT ![f] = how]
    BY <2>1 DEF ClientLeaves
  <2>3. f \in open /\ UNCHANGED <<inbox, sent>>
    BY <2>1 DEF ClientLeaves
  <2>4. {g \in open : peer[g] # "up"}' = {g \in open : peer[g] # "up"} \union {f}
    BY <1>2, <2>2, <2>3 DEF RoomInv, TalkInv, TypeOK
  <2>5. Chat!ClientLeaves(f)
    BY <1>2, <1>3, <2>3, <2>4 DEF Chat!ClientLeaves
  <2>. QED
    BY <1>1, <1>5, <2>5 DEF RoomStep, RoomInv, Chat!Next
<1>. QED
  BY <1>6, <1>7 DEF Clients

LEMMA InitRoom == Init => RoomInv /\ Chat!Init
<1> SUFFICES ASSUME Init PROVE RoomInv /\ Chat!Init
  OBVIOUS
<1>1. RoomInv
  BY InitTalk DEF Init, RoomInv, ReportsHold, ClosedAreUp
<1>2. \A z \in Fds : Text(z) = Nothing /\ Author(z) = NULL
  BY DEF Init, Text, Author
<1>3. open = {} /\ 1..sent = {}
  BY DEF Init
<1>. QED
  BY <1>1, <1>2, <1>3 DEF Init, Chat!Init

(* Through all that is done to the table, the array and the buffers, what a user *)
(* hears is the last text that another has put up for it, once, unless that one  *)
(* has left or spoken without effect since; and a user is taken out only when    *)
(* its client has gone (talk_server.cpp:79-181).                                 *)
THEOREM ServerKeepsChat == Spec => ChatSpec
<1>1. Init => RoomInv /\ Chat!Init
  BY InitRoom
<1>2. RoomInv /\ [Next]_vars => RoomStep
  BY PollRoom, PassRoom, JoinRoom, SayRoom, OverwriteRoom, HearRoom, LeaveRoom, ClientRoom
  DEF Next, Server
<1>3. RoomInv /\ [Next]_vars => RoomInv' /\ [Chat!Next]_(Chat!vars)
  BY <1>2 DEF RoomStep
<1>. QED
  BY <1>1, <1>3, PTL DEF Spec, ChatSpec, Chat!Spec
=============================================================================
