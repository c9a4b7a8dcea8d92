# Verification of network_program

The repository is a collection of network servers in C and C++. Most are sequential
examples; four keep state that several threads, several events or several pieces of
a message work on, and those are what this project is about:

* `threadpool.c`, a growing and shrinking thread pool;
* `reactor.c`, an epoll event loop with a table of callbacks;
* `httpserver/`, a web server with a main thread, a work queue and workers;
* `talk_server.cpp`, a poll-based chat server.

`PROJECT.json` lists every component, run, mutant, finding, hazard and theorem, and
maps each definition that stands for code to its lines.

## Inventory

### Thread pool (`threadpool.c`)

State: one `threadpool_t` with a ring of tasks (`task_queue`, `queue_front`,
`queue_rear`, `queue_size`), three counters, the array `threads` of tids, and
`shutdown`; two mutexes, two condition variables. Operations: `threadpool_add` (any
number of callers), `threadpool_thread` (every worker), `adjust_thread` (one
thread), `threadpool_destroy` (one caller). They interact only through the structure
and the condition variables. Hard: signals without the mutex, decisions on copies of
the counters, wakeups that mean "task", "retire" or "shutdown" and do not say which,
a ring whose emptiness is told by a counter and whose fullness is tested twice,
joining an array that is being overwritten. Correct means: counters count; accepted
tasks leave in order, once each; a task never faces sleeping workers only; a caller
blocks only on a full ring; shutdown ends every worker, and the pool is freed after
the last one.

### Reactor (`reactor.c`)

State: the table `g_events` (descriptor, events, callback, status, buffer, length,
time), the kernel's epoll entries that point into it. Operations: `eventset`,
`eventadd`, `eventdel`, the callbacks `acceptconn`, `recvdata`, `senddata`, and the
main loop with its idle check. Hard: descriptors and records are used again while a
batch of events is being handled; the table is bounded; what the kernel knows is
kept twice. Correct means: table and kernel agree; every open connection belongs to
somebody; no callback runs for an event of an earlier connection; clients are
served, echoed, and closed when idle.

### Web server (`httpserver/`)

State: `users[fd]` objects of class `http_conn`, the work queue of `threadpool.h`
with its lock and semaphore, the static `m_user_count`, epoll. The main thread
accepts, reads and writes; workers parse and prepare responses. The queue is the
only thing handed over explicitly; everything else relies on EPOLLONESHOT. Hard:
`close_conn` called by two kinds of threads, descriptors given out again in the
middle of it, a counter without a lock, requests that arrive in pieces. Correct
means: one holder per connection and none forgotten; queue and semaphore agree; the
count is right; a request is answered when it is complete, not before, whatever the
pieces and whatever the object served before; a file stays mapped while it is being
written, and what is mapped is unmapped.

### Chat server (`talk_server.cpp`)

State: `fds`, an array of `pollfd` whose first `user_counter` entries behind the
listener are the users, and `users`, a table indexed by descriptor with each user's
receive buffer and a pointer `write_buf` to what it is to be sent. Operations: the
branches of one scan (accept, error, hang-up, receive, send). They interact through
the array, which is compacted while it is scanned, and through the pointers, which
point into the buffer of whoever spoke last. Hard: the index that steps back, slots
and descriptors used again, the order of the tests of `revents`, bits that are set
where they were to be cleared, a buffer shared by a sender and all its receivers.
Correct means: the array lists the open connections, each once; a scan handles every
reported event once; leavers are removed; text put up for a user is sent, and is
news to it as long as its sender did not overwrite it.

### The others

`select.c` keeps a table beside an `fd_set`, in one thread that handles one event at
a time. `processpool.h` does not compile (unbalanced parenthesis, undeclared names)
and is included by nothing. `epoll.c`, `epoll_nonblock.c`, `multiport.cpp`,
`multiprocessing.c`, `multipthreading.c`, `service.cpp`, `client.cpp`,
`talk_client.cpp`, the local socket, UDP and libevent pairs keep no state between
events, or none that two parties share; `PROJECT.json` says of each what was seen in
it.

## Modules

| module | what it is |
| --- | --- |
| `ThreadPool` | `threadpool.c` |
| `TaskService` | what a pool promises: a bounded first-in first-out service |
| `ThreadPool_proofs` | theorems about `ThreadPool` |
| `PoolService_proofs` | theorem that `ThreadPool` implements `TaskService` |
| `Reactor` | `reactor.c` |
| `EchoService` | what the reactor promises each of its connections |
| `Reactor_proofs` | theorems about `Reactor`, and that it implements `EchoService` |
| `HttpServer` | threads and connections of `httpserver/` |
| `ConnectionProtocol` | what the web server promises each of its connections; `HttpServer` and `HttpConnection` both implement it |
| `HttpServer_proofs` | theorems about its types, queue and semaphore |
| `HttpHolders_proofs` | theorems that a connection has one holder and that `HttpServer` implements `ConnectionProtocol` |
| `HttpCount_proofs` | theorem about `m_user_count`, built on the former |
| `HttpParser` | how a request is taken out of the read buffer |
| `HttpConnection` | `HttpParser` composed with answers, `write()` and what `init()` leaves for the next request |
| `HttpConnection_proofs` | theorems about `HttpConnection`, and that it implements `ConnectionProtocol` |
| `TalkServer` | `talk_server.cpp` |
| `ChatRoom` | what the chat server promises its users |
| `TalkServer_proofs` | theorems about `TalkServer`, and that it implements `ChatRoom` |
| `MC...` | model values, symmetry, streams for TLC |

### ThreadPool

Variables carry the names of the structure's fields. `wpc`, `apc`, `cpc`, `dpc` say
where each worker, the adjuster, each client and the destroyer is. A critical
section is one action (`Take`, `AddTask`, `Retire`, `AdjustGrow`, ...) unless a
thread that does not hold the mutex can act in the middle of it: a worker between
the evaluation of its waiting condition and `pthread_cond_wait` holds the mutex but
is not on the condition variable (`towait`), and the signals of `AdjustSignal` and
`DestroySignal`, which are sent without the mutex, do not reach it. `busy_mutex`
sections are single actions. `AdjustSnapshot` and `AdjustSnapshotBusy` take the
copies the adjuster later decides on. Condition variables follow POSIX: a signal
wakes one waiter, if there is one; a waiter may wake without a signal
(`SpuriousWakeup`). `is_thread_alive` is modelled with the meaning it has (0 for a
live thread, negated by its caller); for a thread that has ended, `pthread_kill` may
or may not report it missing. Joining an empty slot or one behind the array is
undefined and ends the behaviour in `crashed`; after `freed` nothing more is said. A
worker that sees the shutdown detaches itself (`Detach`) and then ends (`End`). A
join that has begun returns when it has ended (`JoinStart`, `JoinWait`); one that
begins between the two fails (`JoinDetached`); one that begins after both uses an id
that is no longer valid, which is undefined: it fails or ends the program
(`JoinEnded`), and so does the adjuster's `pthread_kill` (`AdjustKillsEnded`). Any
ordinary shutdown can come to this, and nothing in the code prevents it;
`JoinsWorkersOnly` says that it is the only undefined join of a pool that has not
grown. With `ConcurrentDestroy = FALSE` destroy starts when no add is in progress,
as `main` does; with `TRUE` they overlap, which `threadpool_add` provides for.

The refinement to `TaskService` reads the queue off the ring from front to rear, the
running tasks off the workers and the finished ones off a history variable.

### Reactor

One thread, so an action is a callback, a check or a wait. `batch` is what
`epoll_wait` reported and is not handled yet, in any order. The kernel part (`open`,
`inbox`, `epoll`) follows epoll: closing a descriptor removes its entry, numbers are
given out again. A client sends, closes or resets; `length` is 0 or 1. `idle` counts
time since `last_active` up to `TIMEOUT`. `checkpos` is the constant 0, because no
statement changes it. A new connection gets the lowest free descriptor, as POSIX has
it. A connection that got no record (the table is full, or `fcntl` failed) is never
read, so its client's acts are not followed.

The refinement to `EchoService` (`EchoSpec`) forgets the table, the entries of
epoll, batches and the main loop. The phase of a descriptor is what the record that
serves it has as callback ("reading", "writing"), "closed" when it is not open,
"leaked" when it has no record. The service allows closing a connection only after
its client has ended it, while it is written to, or when it was silent for
`TIMEOUT`; a callback run for the wrong connection, or an idle check on a record
that was given to somebody else, would be a step the service has not.

### HttpServer

An event of a connection disarms it (EPOLLONESHOT); `modfd` arms it again, and fails
unnoticed on a descriptor that is -1 or not in epoll. `close_conn` of a worker is
three steps (descriptor given back; object unbound; count changed), followed by the
`modfd` of `process`, because main can accept a new connection with the same
descriptor between any two. `close_conn` of main is two steps: only the change of
the count can be disturbed. A load and store of `m_user_count` are separate. The
queue section and the post of `append` are one action: a worker takes a request only
after a `sem_wait`, so the order of unlock and post shows in nothing but how long a
worker waits.

Three history variables say where the code itself gives up a guarantee: `dropped`
(append refused the request), `tainted` (a descriptor was given out while its
predecessor was still in use), `miscount` (two threads changed `m_user_count` at the
same time, or one changed it for the other's connection). `OneHolder` and
`UserCountExact` are stated around them; everything else the code has to guarantee
with EPOLLONESHOT alone.

The refinement to `ConnectionProtocol` (`ProtocolSpec`) takes the phase of a
descriptor from where it is: in the queue or with a worker it is "processing", armed
for reading, reported readable or at main's read it is "reading", and with a
response prepared "answering". `Processed` says when a worker's `process` has done
with it. Whatever the interleaving, the descriptor goes round read, process, answer,
and out of the circle only by a close. A descriptor given out while its predecessor
is in use is "astray" until it is closed; one that `append` refused is "refused",
and stays it: EPOLLONESHOT leaves it disarmed and nobody arms or closes it any more.

### HttpParser and HttpConnection

A stream is a sequence of tokens: carriage return, line feed, the text of a line
(request line, keep-alive, a Content-Length, anything else), bytes of content. The
constant `Announces` gives each Content-Length header the number that `atol` makes
of it, any integer, 0 for one that is no number. `ToInt` keeps it in an int, as the
code does, modulo the number of ints; `INT_MAX` is a constant. `ParseContent` adds
it to `m_checked_idx` as it is: a sum above `INT_MAX` is undefined and the test may
go either way, and the zero written behind the content may fall outside the buffer,
after which the process goes on or ends (`ContentComplete`). So the model acts
before the content has arrived on lengths like 2147483647, 4294967297 or -5, as the
code does. `NothingEarly` promises the whole head always, and the content for the
lengths the parser can count (`Countable`). `m_read_idx`, `m_checked_idx` and
`m_start_line` count tokens. `ReadMore` brings any number of further tokens;
`process_read` is one action per turn of its loop. The properties compare it with
`IsRequest`, a definition over the whole stream that has no parser state.

`HttpConnection` extends the parser's variables with those of an answer: a header of
`HEADER` units in `m_write_buf` (`m_iv[0]`), and for a file `FILE` units of a
mapping (`m_iv[1]`, `iv2`). `Answer...` stands for `do_request` and `process_write`
by their outcomes: an error, a file, or an empty file, for which `process_write`
falls through to `default` and the connection is closed. `do_request` looks at the
result of neither `open` nor `mmap`, so `MapFile` leaves a mapping or MAP_FAILED in
`m_file_address` ("mapped", "failed"); of MAP_FAILED `writev` takes nothing
(`Given`). `FileKept` is about what the code does see to: the address in `m_iv` is
not unmapped while `writev` may be given it again. `StartWrite` enters `write()`;
each `writev` takes any number of units of all of `m_iv`, because the code never
advances it; the loop ends when `bytes_to_send`, which started as the length of the
header, is not above `bytes_have_send`. After EAGAIN the next call starts its counts
again. An answer sent on a kept connection leads to `Reset`, which is `init()`:
buffers and indices are cleared and what had been read behind the request is gone
(`Unread` is what the socket still holds). A closed object is taken up by the next
client (`MoreArrives`). `hungUp` and `lost` are history. What the client has of an
answer is not modelled: after a short `writev` the code gives it the same vector
from its start, or takes the answer for sent, so that parts may come twice or not at
all, and no text of the repository says otherwise. What is left of `write()` to be
right is that it returns (`WriteReturns`), within its counts (`ConnTypeOK`).

Which thread does each step is the business of `HttpServer`: `OneHolder` there is
why one object's steps can be taken one after the other here. The two meet in
`ConnectionProtocol`, which an object also implements (`ProtocolSpec`): what
`HttpServer` takes of the parser and of `write()` by its outcomes (more is needed,
an answer is prepared, it is sent, the connection is closed) are the outcomes that
`HttpConnection` works out, in the same order.

### TalkServer

One thread; an action is `poll` or the handling of one entry of the array, chosen by
the first branch that applies. `Reported` is what `poll` says of an entry: errors
and hang-ups are reported with or without being asked for, except POLLRDHUP, which
the code asks for from the start; both `|= ~POLLIN` and `|= ~POLLOUT` set all other
bits, so the events of an entry are "in" or, from the first message on, "all".
`Remove` is the departure of a user: the last user's record is copied over the
leaver's, the descriptor is closed, the last entry takes the place of the leaver's,
and the index stays. `users` begins uninitialised, as `new client_data[]` leaves it.
`Send` sends once, whatever `send` returns. Two things are left out: a client that
does not read until its window is full, for whom POLLOUT is not reported and the
text waits; and SIGPIPE, which `send` (173, without MSG_NOSIGNAL) raises when the
client has reset the connection. Messages are numbered; what one `recv` takes is one
message.

History: `todo`, the connections `poll` reported and the scan has not reached;
`due`, what each user has not heard of what was said since it came; `awaits`,
whether text was put up for a user, and whether the record it points to was
overwritten since ("astray"). `PendingIsDue` excepts what went astray: the code
shares the buffer, and the model shows that a second message of the same sender, or
its departure, replaces the first before slower receivers have it.

The refinement to `ChatRoom` (`ChatSpec`) forgets the array, the scan, what `poll`
reported and where messages are kept. There a message is put up for the members who
are to hear it, in place of what any member put up before, and stays what it was; in
the server it is whatever the record `write_buf` points to holds when `send` comes
(`Text`, `Author`). The room lets a text be lost only for the readers of one who
leaves or whose `recv` has found nothing, and takes out only members whose clients
have gone. A text may outlive its author there: the table keeps the record of a user
who was the last in the array.

## Runs

| run | instance | states | shows |
| --- | --- | --- | --- |
| `pool_growing` | min 1, max 2, 3 tids, ring 2, 4 tasks, 2 clients, destroy at any time | 639,701 | `TypeOK`, `CountersExact`, `BlockedAdderMeansFull`, `StrandedOnlyByRetiring`, `UngrownEndsInOrder`, refinement of `TaskService` |
| `pool_fixed` | min = max = 2, ring 1, 2 tasks, destroy at any time, fair | 60,270 | `NoStrandedTask`, `FreeIsQuiescent`, `JoinsWorkersOnly`, `EveryTaskRuns` |
| `pool_abandoned` | shrinking pool | violation | a stale request to retire strands a task |
| `pool_tids` | growing pool | violation | tids of live workers are overwritten |
| `pool_add` | ring of 2 | violation | a task is dropped with room in the ring |
| `pool_shutdown` | one worker, fair | violation | a worker misses the shutdown and never ends |
| `reactor_safety` | 2 records, 3 descriptors, fair | 88,663 | `TypeOK`, `RegistrationExact`, `OpenAccounted`, `NoStaleEvent`, `ReadableIsServed`, refinement of `EchoService` |
| `reactor_echo` | 1 record | violation | received data is not written back |
| `reactor_idle` | 2 records, fair | violation | an idle client outside record 0 stays |
| `http_safety` | 2 workers, 3 descriptors, 4 clients, queue limit 1 | 1,281,516 | `TypeOK`, `OneHolder`, `UserCountExact`, `SemaphoreMatchesQueue`, refinement of `ConnectionProtocol` |
| `http_connection` | 174 streams of up to 14 tokens, buffer of 14, `INT_MAX` 31, answers of 4 + 2 units, one more request, fair | 173,390 | `TypeOK`, `NothingEarly`, `CompleteIsAnswered`, `LingerAsAsked`, `ConnTypeOK`, `FileKept`, `MappingReleased`, `ProcessReadReturns`, `WriteReturns`, refinement of `ConnectionProtocol` |
| `talk_server` | 2 places, 3 descriptors, 2 messages, fair | 287,354 | `TypeOK`, `RoomIsOpen`, `ScanExact`, `RecvFindsData`, `PendingIsDue`, `LeaversAreRemoved`, `PendingIsSent`, refinement of `ChatRoom` |

Why the bounds are enough. In `pool_growing` a ring of 2 with 4 tasks wraps, fills
and blocks both clients; the third tid is a worker created after one retired. 3 tids
also bound how often the pool may grow. In `pool_fixed` the ring of 1 makes every
add meet a full ring, and two workers make a signal that reaches the wrong one
possible. In `reactor_safety` a third descriptor against two records fills the
table, and batches hold the listener and two connections. In `http_safety` a limit
of 1 makes the queue hold 2 (the test is `>`) and refuse a third request; four
clients on three descriptors use descriptors again. The streams of `http_connection`
have up to two headers, content shorter than, equal to and longer than announced,
content that looks like a header, and one malformed line end in every kind of place,
and one has two requests; the lengths are 0 (or no number), 1, 2, a negative one,
the greatest int, and one that wraps to 1 in an int, alone and before or after
another header; an `INT_MAX` of 31 is above twice the buffer, so that sums overflow
only with lengths that no buffer could hold; the buffer is full with the longest of
them. A header of four units and a file of two let a `writev` stop inside either
part and between them, and the loop of `write()` go round again, which it does only
after less than half a header; one later request is enough for everything the first
can leave behind. In `talk_server` two places let one user leave in front of the
other or behind it, from the middle of a scan, with a new one in the freed slot; the
third descriptor is there so that a server that lets in too many is seen; a second
message overwrites the first or answers it.

Bounds named in the modules: `Tids`, `Tasks` (ThreadPool), `Backlog`, `TIMEOUT`
(Reactor), `MaxClients`, `Backlog` (HttpServer), `Streams`, `Announces`, `INT_MAX`,
`Later`, `MaxLater` (HttpParser, HttpConnection), `MaxMessages` (TalkServer). The
index of `threadpool_destroy`'s first loop is kept at `max_thread_num + 1` once it
has passed `live_thread_num`, where the loop no longer ends.

Deadlock is not checked where the system may stop: a pool whose workers all wait or
that was freed; a connection that is closed and has no next client; a chat server
whose `poll` failed; and the web server, whose clients may be done, and which also
stops for a reason of its own: its listening socket is edge triggered and `main`
accepts one connection per event (`main.cpp:106-122`), so with a full backlog no
further event arrives. No text of the repository says that it should, so this is
described here and not counted as a finding. The reactor is checked for deadlock.

### Fairness

`ThreadPool!Fairness`: threads run (weak fairness per worker) and a thread that
keeps finding the mutex free at times gets it (strong fairness on taking it), which
is what POSIX mutexes on a fair scheduler give; the adjuster and a started destroy
go on. No client is obliged to call, nothing obliges a wakeup to be spurious, and
destroy need not be called. `Reactor!FairSpec`: the one thread goes on and time
passes; clients are free. `HttpConnection!ConnFairSpec`: a call of `process_read`
and a call of `write()` that have started go on; nothing has to arrive, and `writev`
may take as little as it likes, but something. `TalkServer!FairSpec`: the one thread
goes on; `poll` may fail, after which nothing is promised, and clients are free.
`poll` reports every entry that is ready and the scan visits them all, so no
fairness per client is needed.

### Findings

Six places where the code does something other than its comments say, each the
counterexample of a violation run: see `findings`. Those of the pool
(`threadpool.c:143, 171, 250, 297`) combine: the pool of fixed size is free of the
second and third, and the passing runs and theorems say how much of the intended
behaviour it then has.

## Proofs

`ThreadPool_proofs`, for every size of pool and ring, any set of tasks and clients,
and any finite set of tids, under `PoolAssumption`:

* `CountersCorrect`: `TypeOK` and `CountersExact` are inductive together. Apart they
  are not: that `live_thread_num` and `busy_thread_num` stay in their ranges follows
  from what they count, and what they count from the types. The argument rests on
  cardinalities: a worker that moves enters or leaves the two counted sets
  (`GoesCounts`), a signal does not change them (`SignalKeepsCounts`), and growing
  adds as many threads as slots were filled (`GrowCounts`).
* `BlockedAdderCorrect`: only a dequeue makes room, and it wakes all.
* `RetiringAloneStrands` (`StrandedOnlyByRetiring`): however the pool grows, as long
  as no worker has retired, tasks in the ring never face sleeping workers only. The
  invariant `PoolInv` adds that a worker about to wait has seen an empty ring (it
  still holds the mutex) and that workers leave for shutdown only
  (`SleepersAreIdle`): so the signal for a new task wakes a worker, or one is awake.
* `GrowingAloneBreaksDestroy` (`UngrownEndsInOrder`): as long as no more than the
  first `min_thread_num` workers were created, the first slots name them and the
  others are empty, nobody is asked to retire (`FirstWorkersOnly`), and the joins
  have come as far as their index says (`JoinProgress`); so `threadpool_destroy`
  joins those workers and no others, if the undefined join of one that has ended
  does not end the program before, and frees the pool when they have left it.
* `FixedPoolServes`, `FixedPoolFreedLast`, `FixedPoolJoins` are corollaries for
  `min_thread_num = max_thread_num`: such a pool neither grows nor shrinks. Without
  the assumption `NoStrandedTask` and `FreeIsQuiescent` fail, for the reasons that
  `pool_abandoned` and `pool_tids` show; the two theorems above say that these are
  the only reasons.

`PoolService_proofs`, for every size of pool and ring and without assuming
`min_thread_num = max_thread_num`: `ServiceCorrect`, `Spec => ServiceSpec`. The
invariant `ServiceInv` adds to that of `CountersCorrect` that `queue_rear` is
`queue_front + queue_size` modulo the size of the ring (`RearFollows`), and that
every task that was offered is in one place at most: with its caller, in one slot
between front and rear, with one worker, or done (`OnePlace`). `RingIndex` and
`NextIndex` do the arithmetic, `RearIsFree` says that writing at the rear touches no
task in the ring. `Take` then maps to `Start`, `FinishTask` to `Finish`, `AddTask`
to `Submit` or, when the slot is not empty and the task is dropped
(`threadpool.c:143`), to a stutter: a dropped task is one that was not accepted.

`Reactor_proofs`, for any number of records and descriptors, under the module's
assumption on its constants: `TableCorrect` (`TypeOK` and `RegistrationExact`),
`ConnectionsOwned` (`OpenAccounted`) and `BatchCorrect` (`NoStaleEvent`). The
invariant `RegInv` behind all three adds three facts none of them gives: the
listening socket keeps the last record and the others keep connections
(`RolesKept`), no two records and no record and refused connection share a
descriptor (`OneOwner`), and `batch` is empty outside dispatch (`BatchInDispatch`).
`OneOwner` is what `recvdata` and the idle check need: closing a connection must
remove its own entry and nobody else's. `NoStaleEvent` then holds because within a
batch a callback closes its own connection only, and the idle check runs between
batches (`reactor.c:238-266`).

`ReactorServesEach`, `Spec => EchoSpec`, needs two facts more: the connection of an
event that is still to be handled by `recvdata` has something to read
(`ReadyStays`), and a record is registered for reading exactly with `recvdata`
(`CallbackFits`). `OneRecord` says that a step on one record is a step of its
connection and of no other, by `OneOwner`; then there is a lemma per action that
names the step of the service it is, or shows that nothing the service knows has
changed.

`HttpServer_proofs`, for any finite sets of workers and descriptors and any number
of clients: `QueueCorrect`, that is `SemaphoreMatchesQueue` and the queue's limit,
which the code exceeds by one. The invariant `QueueInv` adds the types. The argument
counts: `GoesCounts` says what a worker's move does to the number of workers between
`sem_wait` and the queue; append adds to the queue and the semaphore together,
`SemWait` moves one from the semaphore to that number, `Pop` takes one from that
number and one from the queue, so that `run`'s test for an empty queue
(`httpserver/threadpool.h:102`) never succeeds. `TypesCorrect` is `TypeOK`, whose
invariant adds that an event of the listener has a connection in the backlog
(`ListenInv`): the socket reports arrivals, not their number.

`HttpHolders_proofs`: `ConnectionsHeldOnce`, that is `OneHolder`. The invariant
`HolderInv` says it per descriptor and without counting (`Held`: there is an h with
`Holders(f) = {h}`), and adds that no worker which has closed a connection has still
to come back to a descriptor that is not `tainted` (otherwise its late `modfd` would
arm a connection that somebody else holds), that events exist only while main
dispatches, that a worker has a request exactly from pop to the end of `process`,
and that epoll's entries are the open connections. The proof has a step per action;
`HeldFrame` says that a step which is not about f keeps its holders.
`ServerKeepsProtocol`, `Spec => ProtocolSpec`, uses the same invariant: a thread's
step is a step of the connection it holds, and the other connections, which have
holders of their own, keep their phase. What it adds (`AnswerInv`) is that an answer
is prepared exactly for connections that are in the phase of being answered.

`HttpCount_proofs`: `CountCorrect`, that is `UserCountExact`. `CountInv` says that,
unless two updates have overlapped, nobody's descriptor was given out too early
(`tainted = {}`), everyone who is about to act on a connection finds it open, and
`m_user_count` is the number of open connections plus those that were closed and not
yet counted out, less the one not yet counted in (`Counted`). It needs `HolderInv`:
only the one holder of a connection closes it.

`HttpConnection_proofs`, for every set of streams, every buffer size and all lengths
of header and file: `IndicesCorrect` (`TypeOK`), where each line status has to leave
`m_checked_idx` between `m_start_line` and `m_read_idx`, also when `parse_line`
looks one token back or ahead, and `init()` starts over; `WriteCounts`
(`ConnTypeOK`), whose bound on `bytes_have_send` is half a header plus one answer;
`MappingsCorrect` (`FileKept`, `MappingReleased`); and `RequestsCorrect`
(`NothingEarly`, `CompleteIsAnswered`, `LingerAsAsked`), which relates the parser to
`IsRequest`, for every function `Announces` into the integers and every `INT_MAX`
above the buffer's size: `ToIntFacts` says that an int keeps the lengths it can
hold, and a countable length added to an index of the buffer does not overflow. Its
invariant `ParseInv` says what the parser knows of its request: the tokens up to
`m_start_line` are a request line and headers without an empty line (`HeadTo`),
`m_content_length` and `m_linger` are what an int and a flag keep of these headers
(`FieldsTo`), there is no line end between `m_start_line` and `m_checked_idx`; in
`CONTENT`, that the head ended at or before `m_checked_idx` (`Collected`); and, when
`process_read` has asked for more, that no line can be completed from
`m_checked_idx` with what has arrived (`Waiting`, `Stuck`). `LineFound` says what
`parse_line` finds, `NextLine` and `NextFields` what a further line adds;
`SameTokens` says that all of this is about a prefix, so what arrives later changes
none of it. No induction is needed: the invariant carries the last length header as
a witness. `ObjectKeepsProtocol`, `ConnSpec => ProtocolSpec`, adds that
`m_write_idx` is 0 whenever no answer is under way (`NoAnswer`); that is what
`init()` has to see to between requests and between clients.

`TalkServer_proofs`, for any number of places, descriptors and messages:
`ScanCorrect` (`TypeOK`, `RoomIsOpen`, `ScanExact`), `RecvCorrect`
(`RecvFindsData`), `PendingCorrect` (`PendingIsDue`), from one invariant `TalkInv`
that adds that nothing is put up for a closed descriptor. Compaction is the core:
the last entry moves to the slot of the leaver, the index stays, and the events
still to be handled are those of `todo` because descriptors in the array are
distinct (`RoomIsOpen`), which is also why the copied record belongs to one user
only. `ServerKeepsChat`, `Spec => ChatSpec`, adds to `TalkInv` that what `poll`
reported stays true (`ReportsHold`): a hang-up is followed by a removal only because
the client has still gone when the scan gets there, and whoever is polled for
writing was given a text or has a null pointer. In each case the proof compares what
the record of the author holds before and after the step, for the reader it is about
and for every other.

Only model-checked: liveness (`EveryTaskRuns`, `ReadableIsServed`,
`ProcessReadReturns`, `WriteReturns`, `LeaversAreRemoved`, `PendingIsSent`), which
is out of the prover's reach. Every other property of a passing run is proved; those
of `pool_fixed` under the assumption that `min_thread_num = max_thread_num`.

## Not modelled, and why

Failing system calls whose result the code ignores (`pthread_create`, `malloc` in
`threadpool_create`, `epoll_ctl` other than where named, `send` in the chat server,
whose message is given up either way); SIGPIPE and clients that do not read in the
chat server; what a client gets of an answer of the web server; the length that
`unmap` gives to `munmap`, which is that of another file only after a client hung
up; the text of responses and the choice among error codes; what is inside a request
line; the exit of the reactor's, the chat server's and the web server's main loop
beyond the failing wait; the stopping of the web server's pool. The components
listed above under "The others" are left out for good: `processpool.h` cannot be
compiled, so it has no behaviour; `select.c`, `epoll.c`, `epoll_nonblock.c` and
`multiport.cpp` handle one event at a time in one thread and keep nothing from one
to the next but the set of descriptors; `multiprocessing.c` and `multipthreading.c`
start processes and threads that share nothing; the remaining pairs are sequential.

## What is left

Larger instances of `http_safety` and `talk_server`, which take a few minutes each
as they are. `HttpServer` and `HttpConnection` are not composed into one module;
they are tied together by `ConnectionProtocol`, which both implement, on the ground
that `OneHolder` gives.
