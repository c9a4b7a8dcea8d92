----------------------------- MODULE TalkServer -----------------------------
(***************************************************************************)
(* The chat server of talk_server.cpp: one thread scans an array of pollfd *)
(* that it compacts while scanning, and a table of users indexed by        *)
(* descriptor. A message is not copied to its receivers: write_buf of each *)
(* points into the buffer of the user who sent it.                         *)
(***************************************************************************)
EXTENDS Integers, FiniteSets

CONSTANTS
  USER_LIMIT,
  Fds,             \* descriptors a connection can get
  MaxMessages      \* messages the clients send altogether

ASSUME TalkAssumption ==
  /\ USER_LIMIT \in Nat \ {0} /\ MaxMessages \in Nat
  /\ Fds \subseteq Nat /\ IsFiniteSet(Fds)

NULL  == -1
Unset == -2                     \* memory that operator new has not initialised
Entries == 1..USER_LIMIT        \* fds[0] is the listening socket
Messages == 1..MaxMessages      \* a message is what one recv takes
Nothing == 0                    \* an empty buffer, an empty socket

VARIABLES
  fds, user_counter, users,     \* the variables of main
  pc, i, listener,              \* poll, scan, exited; the index of the scan; revents of fds[0]
  open, peer, inbox,            \* the kernel: connections, their other ends, what is to be read
  sent,                         \* messages the clients have sent
  due,                          \* history: what a user was to hear and has not heard
  awaits,                       \*   whether text was put up for a user: "no", "text", "astray"
  todo                          \*   connections reported by poll and not yet looked at

tableVars   == <<fds, user_counter, users>>
scanVars    == <<pc, i, listener>>
kernelVars  == <<open, peer, inbox, sent>>
historyVars == <<due, awaits, todo>>
vars == <<tableVars, scanVars, kernelVars, historyVars>>

Room == {fds[k].fd : k \in 1..user_counter}

Init ==
  /\ fds = [k \in Entries |-> [fd |-> NULL, events |-> "none", revents |-> {}]]
  /\ user_counter = 0 /\ users = [f \in Fds |-> [write_buf |-> Unset, buf |-> Unset]]
  /\ pc = "poll" /\ i = 0 /\ listener = FALSE
  /\ open = {} /\ peer = [f \in Fds |-> "up"] /\ inbox = [f \in Fds |-> Nothing]
  /\ sent = 0
  /\ due = [f \in Fds |-> {}] /\ awaits = [f \in Fds |-> "no"] /\ todo = {}

-----------------------------------------------------------------------------
(* poll. Both |= ~POLLIN and |= ~POLLOUT set all other bits: from the first      *)
(* message on, a user is polled for everything ("all"). A socket can always be    *)
(* written to: a client that lets its receive window fill up is left out.         *)

(* Mutant: hang-ups are asked for with the first message only. *)
ReportedLate(e) ==
  (IF peer[e.fd] = "rst" THEN {"ERR"} ELSE {})
    \union (IF inbox[e.fd] # Nothing \/ peer[e.fd] # "up" THEN {"IN"} ELSE {})
    \union (IF e.events = "all" THEN IF peer[e.fd] # "up" THEN {"RDHUP", "OUT"} ELSE {"OUT"}
                                ELSE {})

Reported(e) ==
  (IF peer[e.fd] = "rst" THEN {"ERR"} ELSE {})
    \union (IF inbox[e.fd] # Nothing \/ peer[e.fd] # "up" THEN {"IN"} ELSE {})
    \union (IF peer[e.fd] # "up" THEN {"RDHUP"} ELSE {})
    \union (IF e.events = "all" THEN {"OUT"} ELSE {})

Poll ==
  /\ pc = "poll"
  /\ fds' = [k \in Entries |-> IF k > user_counter THEN fds[k]
                               ELSE [fds[k] EXCEPT !.revents = Reported(fds[k])]]
  /\ listener' \in BOOLEAN
  /\ todo' = {fds[k].fd : k \in {k \in 1..user_counter : Reported(fds[k]) # {}}}
  /\ listener' \/ todo' # {}
  /\ pc' = "scan" /\ i' = 0
  /\ UNCHANGED <<user_counter, users, kernelVars, due, awaits>>

PollFails ==
  /\ pc = "poll" /\ pc' = "exited"
  /\ UNCHANGED <<tableVars, i, listener, kernelVars, historyVars>>

(* The test of the for loop, before entry k is looked at. *)
GoTo(k, count) ==
  /\ IF k > count THEN pc' = "poll" /\ i' = 0 ELSE pc' = "scan" /\ i' = k
  /\ UNCHANGED listener

-----------------------------------------------------------------------------
(* fds[0]: accept. The kernel gives the lowest free descriptor.                  *)

Accepting == pc = "scan" /\ i = 0 /\ listener

(* Mutant: one user too many is let in. *)
HasPlaceOver == user_counter <= USER_LIMIT

HasPlace == user_counter < USER_LIMIT

(* Mutant: revents of the slot is not cleared. *)
EntryStale(f) == [fds[user_counter + 1] EXCEPT !.fd = f, !.events = "in"]

Entry(f) == [fd |-> f, events |-> "in", revents |-> {}]

AcceptUser(f) ==
  /\ Accepting /\ HasPlace
  /\ f \in Fds \ open /\ \A g \in Fds \ open : f <= g
  /\ open' = open \union {f}
  /\ user_counter' = user_counter + 1
  /\ fds' = [fds EXCEPT ![user_counter + 1] = Entry(f)]
  /\ GoTo(1, user_counter + 1)
  /\ UNCHANGED <<users, peer, inbox, sent, historyVars>>

(* accept fails, or there are enough users and the new one is closed at once.     *)
AcceptNobody ==
  /\ Accepting
  /\ GoTo(1, user_counter)
  /\ UNCHANGED <<tableVars, kernelVars, historyVars>>

NobodyComes ==
  /\ pc = "scan" /\ i = 0 /\ ~listener
  /\ GoTo(1, user_counter)
  /\ UNCHANGED <<tableVars, kernelVars, historyVars>>

-----------------------------------------------------------------------------
(* The other entries: the branches for POLLERR, POLLRDHUP, POLLIN and POLLOUT,   *)
(* of which the first that applies is taken.                                     *)

Branch(e) ==
  IF "ERR" \in e.revents THEN "error" ELSE IF "RDHUP" \in e.revents THEN "leave"
  ELSE IF "IN" \in e.revents THEN "recv" ELSE IF "OUT" \in e.revents THEN "send" ELSE "none"

At(branch, f) ==
  /\ pc = "scan" /\ i > 0 /\ fds[i].fd = f /\ Branch(fds[i]) = branch
  /\ todo' = todo \ {f}

Idle(f) ==
  /\ At("none", f) /\ GoTo(i + 1, user_counter)
  /\ UNCHANGED <<tableVars, kernelVars, due, awaits>>

(* Mutant: the error is left in the socket. *)
TakeErrorKept(f) ==
  /\ At("error", f) /\ GoTo(i + 1, user_counter)
  /\ UNCHANGED <<tableVars, kernelVars, due, awaits>>

(* getsockopt clears the error, so that the next poll reports POLLRDHUP alone. *)
TakeError(f) ==
  /\ At("error", f)
  /\ peer' = [peer EXCEPT ![f] = "gone"] /\ GoTo(i + 1, user_counter)
  /\ UNCHANGED <<tableVars, open, inbox, sent, due, awaits>>

(* The users for whom text in the record of f has been put up. *)
Readers(f) == {z \in Room \ {f} : awaits[z] # "no" /\ users[z].write_buf = f}

(* Mutant: the last entry is not moved. *)
CompactedNot == fds

(* The last entry takes the place of the one at i. *)
Compacted == [fds EXCEPT ![i] = fds[user_counter]]

(* Mutant: the entry that was moved is not looked at in this scan. *)
AgainNot == i + 1

Again == i

(* close; the record of the last user is copied over that of f. text is what f's  *)
(* own buffer holds.                                                              *)
Remove(f, text) ==
  LET last == fds[user_counter].fd
  IN /\ users' = [users EXCEPT ![f] = IF last = f THEN [@ EXCEPT !.buf = text] ELSE users[last]]
     /\ open' = open \ {f} /\ peer' = [peer EXCEPT ![f] = "up"]
     /\ inbox' = [inbox EXCEPT ![f] = Nothing]
     /\ fds' = Compacted /\ user_counter' = user_counter - 1
     /\ GoTo(Again, user_counter - 1)
     /\ due' = [due EXCEPT ![f] = {}]
     /\ awaits' = [z \in Fds |-> IF z = f THEN "no"
                                 ELSE IF z \in Readers(f) /\ users'[f].buf # users[f].buf
                                 THEN "astray" ELSE awaits[z]]

Leave(f) ==
  /\ At("leave", f) /\ Remove(f, users[f].buf)
  /\ UNCHANGED sent

(* memset comes before recv, which has nothing after all (EAGAIN).                 *)
RecvNothing(f) ==
  /\ At("recv", f) /\ peer[f] # "rst"
  /\ users' = [users EXCEPT ![f].buf = Nothing]
  /\ awaits' = [z \in Fds |-> IF z \in Readers(f) THEN "astray" ELSE awaits[z]]
  /\ GoTo(i + 1, user_counter)
  /\ UNCHANGED <<fds, user_counter, kernelVars, due>>

(* The client has reset the connection since poll. *)
RecvFails(f) ==
  /\ At("recv", f) /\ peer[f] = "rst"
  /\ Remove(f, Nothing)
  /\ UNCHANGED sent

(* Mutant: a user is pointed to its own messages. *)
HearersAll(f) == Room

Hearers(f) == Room \ {f}

(* Mutant: POLLOUT is not asked for. *)
AskedNot(e) == e

Asked(e) == [e EXCEPT !.events = "all"]

(* A message: every other user is pointed to it and polled for writing. *)
Recv(f) ==
  /\ At("recv", f) /\ inbox[f] \in Messages
  /\ users' = [z \in Fds |-> [write_buf |-> IF z \in Hearers(f) THEN f ELSE users[z].write_buf,
                              buf |-> IF z = f THEN inbox[f] ELSE users[z].buf]]
  /\ fds' = [k \in Entries |-> IF k <= user_counter /\ fds[k].fd \in Hearers(f)
                               THEN Asked(fds[k]) ELSE fds[k]]
  /\ inbox' = [inbox EXCEPT ![f] = Nothing]
  /\ due' = [z \in Fds |-> IF z \in Room \ {f} THEN due[z] \union {inbox[f]} ELSE due[z]]
  /\ awaits' = [z \in Fds |-> IF z \in Hearers(f) THEN "text" ELSE awaits[z]]
  /\ GoTo(i + 1, user_counter)
  /\ UNCHANGED <<user_counter, open, peer, sent>>

SendNothing(f) ==
  /\ At("send", f) /\ users[f].write_buf = NULL
  /\ GoTo(i + 1, user_counter)
  /\ UNCHANGED <<tableVars, kernelVars, due, awaits>>

(* Whatever send returns, the message is not sent again. SIGPIPE, which would end *)
(* the server when the client has reset the connection, is left out.              *)
Send(f) ==
  /\ At("send", f) /\ users[f].write_buf # NULL
  /\ due' = [due EXCEPT ![f] = @ \ {users[users[f].write_buf].buf}]
  /\ users' = [users EXCEPT ![f].write_buf = NULL]
  /\ fds' = [fds EXCEPT ![i].events = "all"]
  /\ awaits' = [awaits EXCEPT ![f] = "no"]
  /\ GoTo(i + 1, user_counter)
  /\ UNCHANGED <<user_counter, kernelVars>>

-----------------------------------------------------------------------------
(* The clients.                                                                  *)

ClientSays(f) ==
  /\ f \in open /\ peer[f] = "up" /\ inbox[f] = Nothing /\ sent < MaxMessages
  /\ inbox' = [inbox EXCEPT ![f] = sent + 1] /\ sent' = sent + 1
  /\ UNCHANGED <<tableVars, scanVars, open, peer, historyVars>>

(* A client closes its side ("fin"), or resets the connection ("rst"). *)
ClientLeaves(f, how) ==
  /\ f \in open /\ \/ peer[f] = "up"
                   \/ peer[f] = "fin" /\ how = "rst"
  /\ peer' = [peer EXCEPT ![f] = how]
  /\ UNCHANGED <<tableVars, scanVars, open, inbox, sent, historyVars>>

Server ==
  \/ Poll \/ AcceptNobody \/ NobodyComes
  \/ \E f \in Fds : \/ AcceptUser(f) \/ Idle(f) \/ TakeError(f) \/ Leave(f)
                    \/ RecvNothing(f) \/ RecvFails(f) \/ Recv(f)
                    \/ SendNothing(f) \/ Send(f)

Clients == \E f \in Fds : ClientSays(f) \/ ClientLeaves(f, "fin") \/ ClientLeaves(f, "rst")

Next == Server \/ PollFails \/ Clients

Spec == Init /\ [][Next]_vars

(* The server's one thread goes on. *)
FairSpec == Spec /\ WF_vars(Server)

-----------------------------------------------------------------------------
(* Properties                                                                    *)

Pollfd == [fd : Fds \union {NULL}, events : {"none", "in", "all"},
           revents : SUBSET {"IN", "RDHUP", "ERR", "OUT"}]

(* Every variable has its type. *)
TypeOK ==
  /\ fds \in [Entries -> Pollfd] /\ user_counter \in 0..USER_LIMIT
  /\ users \in [Fds -> [write_buf : Fds \union {NULL, Unset},
                        buf : Messages \union {Nothing, Unset}]]
  /\ pc \in {"poll", "scan", "exited"} /\ i \in 0..user_counter /\ listener \in BOOLEAN
  /\ open \subseteq Fds /\ peer \in [Fds -> {"up", "fin", "rst", "gone"}]
  /\ inbox \in [Fds -> Messages \union {Nothing}]
  /\ sent \in 0..MaxMessages /\ due \in [Fds -> SUBSET Messages]
  /\ awaits \in [Fds -> {"no", "text", "astray"}] /\ todo \subseteq Fds

(* The entries in use are the open connections, each once, whatever has left in  *)
(* the middle of a scan (talk_server.cpp:101-106, 123-127, 140-144).             *)
RoomIsOpen ==
  /\ Room = open
  /\ \A j, k \in 1..user_counter : fds[j].fd = fds[k].fd => j = k

(* Compaction neither skips nor repeats, and a scan ends when nothing is left:    *)
(* the entries still to be scanned that have events are those of the connections   *)
(* poll has reported and the scan has not reached, and no event is left over from  *)
(* an earlier user of the slot (talk_server.cpp:81, 106, 125-127, 142-144).        *)
ScanExact ==
  todo = {fds[k].fd : k \in {k \in 1..user_counter :
                                pc = "scan" /\ k >= i /\ fds[k].revents # {}}}

(* recv is called on sockets with data only; it does not return 0, "code should  *)
(* not come to here" (talk_server.cpp:105, 121, 147-149).                        *)
RecvFindsData ==
  pc = "scan" => \A k \in 1..user_counter :
                   k >= i /\ Branch(fds[k]) = "recv" => inbox[fds[k].fd] \in Messages

(* What is about to be sent to a user is something another user has said since   *)
(* that user came and it has not heard, unless the record that held the text was *)
(* overwritten in between (talk_server.cpp:123, 133, 141, 153-163, 173).         *)
PendingIsDue ==
  \A k \in 1..user_counter :
    LET f == fds[k].fd
        w == users[f].write_buf
    IN /\ awaits[f] = "text" => w \in Fds \ {f} /\ users[w].buf \in due[f]
       /\ fds[k].events = "all" /\ awaits[f] = "no" => w = NULL

(* A client that has left is taken out, also when its connection was reset and   *)
(* the scan sees an error before it sees the hang-up (talk_server.cpp:109-129).  *)
LeaversAreRemoved ==
  \A f \in Fds : (f \in open /\ peer[f] # "up") ~> (f \notin open \/ pc = "exited")

(* A user who has nothing to say gets what was put up for it                     *)
(* (talk_server.cpp:160-162, 166-177).                                           *)
Awaiting(f) == f \in open /\ peer[f] = "up" /\ inbox[f] = Nothing /\ awaits[f] # "no"
PendingIsSent == \A f \in Fds : Awaiting(f) ~> (~Awaiting(f) \/ pc = "exited")

(* The chat that the table, the array and the buffers are to be for the users:   *)
(* what is put up for a user is whatever the record its write_buf points to       *)
(* holds, unless that has changed since.                                          *)
Lost == -1
Text(f) == CASE awaits[f] = "no" -> Nothing
             [] awaits[f] = "astray" -> Lost
             [] awaits[f] = "text" -> users[users[f].write_buf].buf
Author(f) == IF awaits[f] = "text" THEN users[f].write_buf ELSE NULL

Chat == INSTANCE ChatRoom WITH
          Users <- Fds, NoOne <- NULL, members <- open, gone <- {f \in open : peer[f] # "up"},
          said <- 1..sent, text <- [f \in Fds |-> Text(f)], author <- [f \in Fds |-> Author(f)]

(* Although a message is kept in one place only, records are copied over others   *)
(* and descriptors are used again, every user hears the last text that another    *)
(* has put up for it, once, unless that one has left or failed to speak since;    *)
(* and only users whose clients have gone are taken out (talk_server.cpp:79-181). *)
ChatSpec == Chat!Spec
=============================================================================
