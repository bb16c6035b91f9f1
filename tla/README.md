# small_rpc in TLA+

small_rpc is a C++ RPC framework: an event loop over epoll, a server that runs
protobuf services on TCP connections, a client, and two wire protocols. This
directory models the parts of it that are hard to test, checks them with TLC
and proves some of the results with TLAPS.

Paths such as `net/eventloop.cpp` are relative to `src/`.

## Inventory

| part | state | operations | talks to | properties that make it correct |
|---|---|---|---|---|
| EventLoop, WakeUper, TimerManager (`net/eventloop.*`, `net/timer_manager.h`) | `_is_stop`, `_funcs`, `_timers`, `_channels`, eventfd, epoll set | `loop`, `stop`, `add_func`, `run_after`, `update_channel`, `add_/remove_/has_channel` | any thread calls it; it calls back channels, functions, timers | no lost wakeup; functions once and in order; timers once and not early; stop ends it |
| Acceptor (`net/acceptor.*`) | listening descriptor | `handle_events` | main loop; new-connection callback | every accepted connection gets a loop |
| TCPConnection, Channel (`net/tcpconnection.*`, `net/channel.h`) | descriptor, event masks, `ts`, `timer_id`, context, two buffers, callbacks | `handle_events`, `close`, destructor | its loop; the callbacks of PbServer or PbClient | descriptor closed once and by its owner; callbacks run when they should |
| PbServer (`net/pb_server.*`) | timeouts, protocols, services | `new_connection_`, `data_read_`, `request_`, `response_`, `write_complete_`, `timeout_`, `close_callback` | loops, services (in their own threads if asynchronous) | each request served once, answered in order, none lost; no timer closes the wrong connection; no use after delete |
| Buffer (`net/buffer.*`) | two indexes, bytes, extra data | `read_fd`, `write_fd`, `append`, `retrieve`, `clear` | protocols, connections | indexes in order and in range |
| SimpleProtocol (`protocols/simple.*`) | `_stage`, payload view | `parse_request`, `parse_response`, `pack_*` | Buffer | framing independent of how TCP cuts the stream |
| HTTPProtocol (`protocols/http.*`) | stage, body size, headers, connection type | the same | Buffer | the same; the verdict is that of the headers |
| PbClient, PbController (`net/pb_client.*`) | `_connected`, context, session, event masks | `CallMethod` (synchronous, asynchronous), `client_conn_`, `data_read_`, `response_`, `write_complete_`, `close_callback` | loop, server | every call answered once, by its own response |
| TCPServer (`net/tcpserver.*`) | loops, threads, `_next_el` | `set_thread_num`, `start`, `stop`, `_get_next_el` | loops | connections spread evenly; orderly stop |
| StatusManager (`base/status_manager.*`) | exit flag, mutex, condition variable | `register_signals`, `is_close`, `wait_for_signal`, the handler | `main`, any interrupted thread | a signal ends the process |
| Logging (`base/logging.*`) | severity, appender, `_f`, `_file_node`, `_t` | `LOG_*`, `init_log`, `append`, `do_rollover`, `open`, `close` | file system, clock; any thread | what was written is not lost at rollover, reopening or restart; a bounded span per file |
| TimeStamp (`base/timestamp.h`) | seconds and milliseconds | comparison, difference, `after_now_ms` | timers, logs | agrees with a count of milliseconds |
| DoneGuard (`base/done_guard.h`) | a closure | runs it at the end of a scope | services | done runs once |

What is hard: several threads hand work to one loop through a mutex, an atomic
and an eventfd; connections are raw pointers kept in epoll, in queued
functions, in timers and in asynchronous calls; nothing cancels a timer;
addresses and descriptor numbers are reused at once; TCP cuts messages
anywhere and takes part of a write; callbacks close the object they belong to;
a client's members are shared by its caller and its loop without a lock; a
signal handler takes a mutex; a log file can vanish, be replaced or be left
behind by a crash between any two system calls.

## Modules

| module | models | composes |
|---|---|---|
| `Executor` | what an EventLoop promises (abstract) | |
| `EventLoop` | `loop`, `add_func`, `run_after`, `stop`, WakeUper, TimerManager | refines `Executor` |
| `EventLoopProofs` | theorems about `EventLoop` and `TimeStamp` | |
| `PbServer` | connections of a server: Acceptor, TCPConnection, Channel, PbServer, channel map, `update_channel`, the write side of Buffer | |
| `PbServerProofs` | theorems about `PbServer` | |
| `SimpleProtocol` | the two parsers over a filling Buffer | |
| `SimpleProtocolProofs` | theorems about `SimpleProtocol` | |
| `HttpProtocol` | the HTTP parsers behind the choice of a protocol; what `pack_*` send | |
| `HttpProtocolProofs` | theorems about `HttpProtocol` | |
| `RpcChannel` | what an RPC channel promises its caller (abstract) | |
| `PbClient` | connect, `CallMethod` and the callbacks of a client | refines `RpcChannel` |
| `PbClientProofs` | theorems about `PbClient` | |
| `ServerProcess` | `main` of the echo server: TCPServer and StatusManager | |
| `ServerProcessProofs` | theorems about `ServerProcess` | |
| `Logging` | severity filter and file appender over a file system | |
| `LoggingProofs` | theorems about `Logging` | |
| `Buffer` | the indexes of a Buffer under all its operations, with a theorem | |
| `TimeStamp` | the arithmetic of times | |
| `MC*` | instances for TLC | |

Definitions that start with the comment "Mutant" are deliberately wrong
variants of the definition after them: replacing one by the other must break
the property it is listed for in `PROJECT.json`. They are part of no
specification.

### EventLoop

State: `isStop`, `funcs`, `timers` are the members; `efd` says whether the
eventfd's counter is positive; `io` stands for all other channels; `loopPc`,
`waitUntil`, `events`, `batch`, `exeTimers` are where the loop thread is and
its locals; `pc` and `arg` are the calls in progress; `ran`, `fired`, `used`
are history.

A step ends where another thread could see the difference. `add_func` is
two steps with `_funcs_mtx` held between them (`AddFuncPush`,
`AddFuncWakeup`); `run_after` is three (deadline, heap under the lock, wakeup
after it); `stop` is two. `loop` is cut at the test of `_is_stop`, the
computation of the timeout, `epoll_wait`, each event, the swap of `_funcs`,
each function, the popping of timers and each timer. Functions, timers and
event handlers may themselves call `add_func`, `run_after` and `stop`: while
`loopPc` is in `InCallback` the loop thread is one of the callers. The heap is
the set of its elements (`Top` gives any with the earliest deadline: the
comparison of `Timer` leaves ties open). Left out: fatal system errors, the
registration of channels (in `PbServer`) and destruction.

### PbServer

State: the kernel's sockets, descriptor table and interest list; the
TCPConnection at every address (`conn`), the loop's `_channels`, `_funcs` and
`_timers`; the reactor's position and locals; the accepting thread's position;
asynchronous calls; a clock in milliseconds; `fault`, which records the first
use of a deleted object, missing context, empty callback or failing
`epoll_ctl`, after which the program does nothing more; histories of requests
executed, replies received and completions.

A callback in the reactor is one step except `close_callback`, which closes
the descriptor twice (`CloseBegin`, `CloseEnd`) with room for an accept
between. `new_connection_callback` is five steps (`Accept`, `ArmRead`, three
`SetCallback`): with sub-reactors the connection's events are handled
meanwhile by another thread, otherwise the same thread finishes them first.
`response_callback` is part of `HandleRead` for a synchronous service
(`CallMethod`) and two steps of another thread for an asynchronous one
(`AsyncPack`, `AsyncArm`). Requests are sequences of chunks (`"part"` or a
last chunk that says what the whole request is: for a short or a kept
connection, unparsable, or without service); a response is a header and a
payload, because `Buffer` writes them separately: with `PartialWrites` neither, one, or
both of the two go out, the payload also behind a part of the header (`"cut"`).

Abstractions: one service call is one step of its thread; the trial of
several protocols is one parse with one verdict; the eventfd is omitted
(`EventLoop` shows that queued functions and due timers end `epoll_wait`);
clients close in order and never reset; there is always a free descriptor; `read_fd`
never returns -1 (the event is level-triggered and only the reactor reads the socket, so
there is something to read); `accept`, `add_channel` and the first `epoll_ctl` are one
step, for until then nothing in the process names the connection (with sub-reactors, the
second close of another connection may hit the descriptor between them, which ends the
process in `PLOG_FATAL`; the model has that close before or after);
`fetch_add` and `load` of `timer_id` are one step; `ts` is a number. Pointers
in timers carry the socket as a history field so that the properties can tell
which connection they were made for; the code's own tests (`TimerIsCurrent`)
do not look at it.

### SimpleProtocol

State: the message in transit (its field lengths and which fields are valid,
request or response), the buffer's size and indexes, the parser's stage, the
payload view, the last verdict. `ReadFd(n)` receives n bytes, doubling a full
buffer; the parser's stages follow one step each until it returns. A length or a
path that reaches behind `_windex` reads zeros in a buffer that has had one message only
(the vector is made of zeros), and whatever an earlier message left there otherwise
(`Used`): then it is a nondeterministic choice. A connection ends in the model with its
first `Error` or `TryAnotherProtocol`: what the callers do then is
`PbServer`'s (close) and the client's.

### HttpProtocol

State: the message in transit, `proto_idx`, the buffer's indexes and the
members of HTTPContext; `parsing` is the inside of `data_read_callback`. A
message is the lengths of its lines and what the parser sees in each (method,
shape of the request line, key and kind of value of a header), so a cut
between CR and LF, a line as long as its window or a second Content-Length are
members of a small set and no strings are built. One step is one stage, or one
header line. `TrySimple` is the trial of SimpleProtocol that comes first in
`examples/echo/server.cpp`. `"throws"` is an exception of `std::stoi` or
`std::string`, which nobody catches. `NextMessage` is the reset between two
messages of a kept connection.

### PbClient

State: the connection as the kernel knows it, units in flight in both
directions, `_connected`, `_event`, `_sevent`, queued `update_channel` calls,
context, session and buffers, and the positions of the two threads. The
caller's part of `CallMethod` is cut after `pack_request`, after the
assignment of `_event` and after `add_func` (or into the write and read loops
of a call without done; the early return for a request too long cannot be taken, since
protobuf makes none of 2 GiB or more); in the loop, `response_callback` is cut after
`done->Run()` and after the session is cleared, `client_conn_callback` after
`_connected`: the other thread sees each of these. A request is two units of
header and one of payload (Buffer writes them separately), a response two
units. `RpcChannel` is the promise: calls one at a time, each answered at most
once and by its own response.

### ServerProcess

State: where `main` is, the members of TCPServer, the state of every
reactor's thread, connections not yet accepted, the mutex and flag of
StatusManager and where each thread is in the signal handler. A handler runs
on any thread and suspends what that thread was doing. `EventLoop` shows that
`stop()` ends `loop()`; here this is the step `ReactorEnds`. `wait_until` ends
by notification, timeout or spuriously (`WakeUp`). `stop()` waits for nothing but its
joins: clients connect and the main reactor accepts all the while. `fault` is the use of
a loop outside the array or in a deleted one; a loop that is stopped and still there
takes a connection and never looks at it.

### Logging

State: all files there ever were (their lines numbered, each with the time it carries,
the time it was written and whether it is whole), which one has the log file's name, which ones are backups, which ones an operator took; the members
of `_LogFileAppender`; where each thread is in `append`. Each system call
(`stat`, `fclose`, `rename`, `fopen`, `fwrite`) is a step, those of `init_log` too, so
the operator, the clock and crashes come between any two. A line has three times: that
of its `_LogRecord`, which it carries, the one `do_rollover` compares with `_t`, and the
one at which `fwrite` puts it into the file. A short write leaves a piece of a line, and
nobody writes the rest. A backup's name is the local time of `_t` to the second
(`BackupName`). Files are never mixed up by a reused inode number: `_f` keeps the one in
`_file_node` open.

### Buffer

The two indexes, the size of the vector and the index into the extra data under
every operation of the class; bytes are counted only. The other modules each
have the part of Buffer they need; this one is for the theorem, and has no run.

### TimeStamp

Operators for `now`, `operator<`, `operator==`, `operator-` with its cast to
`int`, and `after_now_ms` with C's division. It has no state and no run; its
theorems, in `EventLoopProofs`, justify that the other modules count milliseconds.

`TypeOK` of `HttpProtocol`, `PbClient`, `ServerProcess` and `Logging` states
the types of their variables; it holds in the instances below but is not one
of their runs' listed properties.

## Runs

The runs except `process` have `CHECK_DEADLOCK FALSE`: a stopped loop, a clock
at its bound and peers that have sent all they may are states in which the
system may stay.

| run | instance | shows |
|---|---|---|
| `loop` | 1 thread and the loop's own callbacks, 2 functions, 1 timer with delay 0 or 9, clock to 2, one EINTR, default timeout beyond the end of time | no lost wakeup of any of the three kinds; `EventLoop` refines `Executor`; functions run, timers fire, stop ends the loop |
| `server` | 2 clients, 2 addresses, 2 descriptors, 2 chunks each, both timeouts 1 ms, clock to 3, full send buffers; one reactor, synchronous services, kept connections | no fault; descriptors, channel map and interest list agree; requests served once, in order, answered by their own reply, none lost; timeouts hit the right connection, at the right time, in the right wait |
| `server_threads` | the same clients; a separate accepting thread and asynchronous services, write timeout but no read timeout | up to the first fault, answers and timeouts are right in spite of events before callbacks and answers packed by other threads |
| `server_live` | 1 client, short and kept connections, half, unparsable and unknown requests, stalls; clock to 6 | no connection waits for ever; every complete request is served or its connection closed |
| `simple` | requests and responses with fields of 0, 1, 3 and 6 bytes, valid or not, an initial buffer of 3 bytes, 2 messages per connection | exact framing, right verdicts, no stall |
| `http` | what `pack_*` send, and messages with up to two headers out of good, blank, repeated, keyless and non-numeric ones, windows of 40 bytes, 2 messages per connection | exact framing, connection type and verdict those of the headers, no stall |
| `client` | 3 calls, with a loop or without, each with or without done; connect at once, later or refused; responses cut, broken or never sent; writes cut in the header | each call answered by its own response, once, and always unless the connection is lost; no callback without session; a quiet channel between calls |
| `process` | 0, 1, 3 or too many threads, 4 connections, 2 signals on any thread | connections evenly spread; loops deleted only when joined, and missed only during `stop()`; the process ends after a signal, whoever connects meanwhile |
| `logging` | 1 thread, rollover after 2 s, 2 lines, clock to 4, the file taken once and put back any number of times, one short write, 3 starts | what was written of every line is in a file that can be found, backups in order, a file's span bounded, a taken file left |
| `async_close` | 1 client, no read timeout | **violation**: done of an asynchronous service uses a connection that EOF deleted |
| `partial_write` | | **violation**: a payload that did not fit into the socket is dropped, and the write reported complete |
| `simple_cut` | as `simple`, with every cut | **violation**: a message is declared complete up to four bytes early; the trace is a response, the first message of its connection, whose payload is cut |

Bounds. Two clients, addresses and descriptors are what reuse needs: one
connection is closed and another takes its address, its number, or both,
while a timer, an event or a function of the first is pending. Two chunks make
a cut request, two requests on one connection, or a request and its
successor. Timeouts of 1 ms with a clock to 3 let a timer outlive a wait, the
connection and its successor's start. In `EventLoop` a delay of 9 lies beyond
the clock's bound, so that only a wakeup ends the sleep; two functions are what
order needs. In `SimpleProtocol` the longest field is longer than the length in
front of it and the buffer doubles up to four times. In `HttpProtocol` two
headers are what repetition needs, and some lines just fit, just miss or
overflow the window of 40 bytes. Three calls of a client show a rest of one
answer meeting the next call, with and without a loop. Three sub-reactors and
four connections take round robin once around. Two lines over four seconds
with a rollover after two make a backup with a line, another with the second (the check
for a third renames before it would write) and two restarts between them. Symmetry is used for clients and addresses, in safety runs of `PbServer`
only.

What the passing runs assume, beyond the bounds:

- `FullBuffers` but not `PartialWrites` in `server`: with partial writes the
  payload is lost (`partial_write`).
- no `Pipelining`. With it, requests read together are lost:
  `write_complete_callback` clears `_rbuf` (`RequestsNotDropped` fails); with
  `AsyncService` too, bytes that come while a call is in progress make the
  service run again (`AtMostOnce` fails).
- one reactor in `server`. With `SubReactors` a request read before the accepting
  thread has set the read callback waits for ever (`RequestsNotDropped` fails),
  and the second close of a descriptor, in `~Channel`, can hit a connection
  accepted in between (`FdOwned` fails).
- synchronous services in `server`. With `AsyncService` the read timer stays
  current while the service works and closes the connection (`TimeoutKind` fails).
- no read timeout in `server_threads`. With one, and four clients (three addresses, one
  descriptor, one client that sends), TLC finds `RepliesMatch` violated: a connection that
  lost its descriptor to the second close of another keeps the number; its read
  timer closes the socket that has the number by then, while a call for that socket's
  connection is in progress; the number goes to a fourth client, and the function
  queued for the call registers the connection on the fourth client's socket, which
  gets the answer.
- no `SameMs`: a connection closed and another accepted at the same address in
  the same millisecond cannot be told apart by `has_channel`, and the first's
  timer can close the second (`TimeoutNotEarly` fails).
- both timeouts set wherever `TimeoutKind` is checked: with `WriteTimeout = 0` nothing makes the read
  timer stale when the request has arrived, and it closes a connection that is
  being answered (`TimeoutKind` fails).
- no `TailCuts` in `simple`: no read ends in the last four bytes of a path or of
  a payload (`simple_cut` shows what happens if one does).
- `Overlap = "none"` in `client`: a call is made when the loop is out of the
  callback that told the caller so. With `"informed"` (the next call may be made
  from done, or as soon as `connected()` is true, as `async_client.cpp` does) the
  end of `response_callback` destroys the new session (`ContextAlive` fails), and
  the end of `client_conn_callback` the new mask (`EveryCallAnswered` fails).
  With `"any"`, calls before the last answer, answers are mixed up
  (`ImplementsChannel` fails).
- no `"headerOnly"` in `SocketTakes`: the client's payload would never be sent
  (`EveryCallAnswered` fails), the client's side of `partial_write`.
- no `InterruptLocked` in `process`: the signal does not hit `main` while it holds
  `_mtx`; if it does, the handler deadlocks (`EndsAfterSignal` fails).
- one thread in `logging`. With two, one writes to the `FILE` the other has just closed
  or set to null (`fault` becomes true; the comment at `logging.h:62` is about `fwrite`
  alone, and `tests/test_logging.cpp:56` logs from several threads).
- no `OpenFails` and no `CreateRaces` in `logging`: after a failed `fopen` the
  null file is written to; a file put in place between
  `fopen` and `stat` is taken for the open one (`TakenFileLeft` fails).
- `LocalTime` is injective in `logging`: an hour that comes twice lets a backup
  overwrite another (`LinesKept` fails).

Each can be seen by changing the named constant in the `.cfg` of the run.

`ConnTypeRight`, a part of `SuccessMeansComplete` of `HttpProtocol`, demands a kept
connection for `Keep-Alive`, which `pack_request` sends, and a short one for everything
but the two spellings below.

Four disagreements met on the way are not runs.

- `tests/test_http_protocol.cpp` sends `Connection: Keep-alive` (line 58) and expects
  `ConnType_Single` (line 68), while `http.cpp:154` knows `Keep-Alive` only. Messages with
  both spellings are in the instance of `http`; with the invariant that `Keep-alive` keeps
  the connection TLC gives the trace of that test.
- A client that connects during `stop()` meets a deleted loop: `stop()` deletes the
  sub-reactors (`tcpserver.cpp:35`) before it stops the main reactor, which still accepts
  for them. This happens in `process`, whose clients connect at any time; `LoopsThere`
  says that it happens in no other case, and the invariant `~fault` gives the trace.
- The enumeration of methods has CONNECT, and the loops at `http.cpp:63` and `:242` end
  before it.
- `after_now_ms` of a negative delay gives a time whose milliseconds may be negative;
  nobody asks for one.

Fairness. `EventLoop`: weak fairness of the loop's steps, of the rest of each
call once made, and of the clock; the operating system schedules every thread
and none of these steps waits for anything but a mutex that is released in one
step. Nothing is assumed of callers, channels or signals. `PbServer`: weak
fairness of the server as a whole (the run has one reactor thread, in which at
most one thing is next to do) and of the clock; nothing of clients. `PbClient`:
weak fairness of the caller inside a call, of the loop, and of a server that
resolves the connect and answers what it received; it may close instead.
`ServerProcess`: weak fairness of `main` (`wait_until` has a timeout), of the
reactors and of a handler that holds the mutex; strong fairness of a handler
that waits for it, because `main` is without the mutex for up to `timeout_ms`
in every round, longer than a waiter needs to get it. Nobody need send a
signal. `HttpProtocol` and `Logging` state safety only.

## Proofs

`EventLoopProofs`, for any sets of threads, functions, timers and delays
(assumption: `Loop \notin Threads`, delays and bounds are naturals):

- `TypeCorrect`: `Spec => []TypeOK`, with `ArgOK` (a thread inside `run_after`
  has a timer in hand) as strengthening.
- `NoLostWakeup`: `Spec => []WakeupPending`, the three of no lost function, no
  oversleeping, no missed stop.
  `NoLostFunc` is not inductive: between the swap of `_funcs` and the next
  `epoll_wait` the eventfd may have been read. `FuncsSignalled` extends it to
  all positions of the loop in which a function in `_funcs` might be missed;
  the swap is what makes it true again. The other two are inductive given the
  types.
- `LoopImplementsExecutor`: `Spec => ImplementsExecutor`, from `HandoverInv`:
  timers in flight have been used (so a new one is new), `batch` and
  `exeTimers` are empty outside their loops, popped timers are due. `QueueAppend`
  and `QueueTake` show that the concatenation `batch \o funcs` moves as the
  abstract queue does; `RefinementStep` has one case per action.

`PbServerProofs`, for one reactor and synchronous services (`Solo`; `NeverEarly` does
without) and any set of clients, addresses and descriptors, any timeouts, requests,
stalls and closes. `CoreInv` is `TypeOK` and three parts: `OwnInv` (every open connection has its own
socket, descriptor, entry in the interest list and in the channel map; the one inside
`close_callback` has lost the first three), `PlaceInv` (what can be pending at each
place of `loop()`: `ready` and `funcs` are empty outside the handling of events, `batch`
outside the functions, so a pointer in them was taken in this round) and `MaskInv` (the
mask a connection wants and the one epoll has differ only while a queued function will
set it; a connection with an event to come has neither changed nor been closed since
`epoll_wait`). None is inductive alone: that an event is for a live connection rests on
the masks, these on the queue, the queue on nobody closing what it names. `CoreNext`
has a lemma per action (`CoreClose`, `CoreAccept`, `CoreHandleRead`, ...).

- `ServerTypes` (`TypeOK`), `NeverFaults` (`NoFault`), `FdsAlwaysOwned` (`FdOwned`) and
  `ChannelsAlwaysExact` (`ChannelsExact`) from `CoreInv`. `NeverFaults` is what the
  framework's raw pointers depend on; `async_close` shows that it needs `~AsyncService`.
- `ExecutedAtMostOnce` (`AtMostOnce`) from `SentInv`: requests are numbered as they are
  sent, those executed before those in the socket, and a connection that waits for a
  request has nothing left in its read buffer. Pipelining clients are included.
- `RepliesAlwaysMatch` (`RepliesMatch`) and, for `~PartialWrites`, `CompleteIsWritten`
  (`CompleteMeansWritten`) from `ReplyInv`: a connection that waits has answered every
  call, one that writes has in its buffer the response to the last call and only that
  (its payload may be gone already if the kernel took a part of the header).
- `NothingDropped` (`RequestsNotDropped`) for `~Pipelining` from `OneInv`: at most one
  request is on its way, and none while a response is written.
- `TimeoutsFit` (`TimeoutKind`) for `~SameMs` and both timeouts set, from `TimerInv`: a
  timer whose `ts` is that of the connection at its address was made for it, its number
  is not above `timer_id`, and the one with that number is for the current wait.
  `TimeStep` says what any step may do to a wait: nothing, start a new one with a timer
  of its own, or accept.
- `NeverEarly` (`TimeoutNotEarly`) for `~SameMs` and any threads. Descriptors may then
  belong to others and connections be used after they were deleted, so little of
  `CoreInv` is left; `ThreadInv` is what holds up to the first fault. `ObjectsThere`:
  every object is in the channel map with its own `ts` or not at all, and whoever is
  registered for a socket is alive and has a descriptor of that socket, not always its
  own (so nobody is registered twice). `EventsThere`: therefore each event left is the
  only one of its connection, which nobody has closed since. `TimersThere`: a timer
  whose `ts` is that of the connection at its address was made for it. `Stays` says what
  a step may do to a connection that timers depend on.

The hypotheses are those of the runs; the list above names the properties that fail
without them. `RepliesMatch` fails without `Solo` if read timeouts are set; without them
`server_threads` finds it true for two clients, and it is not proved.

`SimpleProtocolProofs`, for any set of messages whose length fits into `size_t`:

- `TypeCorrect`: types, and `_windex` never leaves the buffer, for all reads.
- `FramingExact` (`SuccessMeansComplete`), `NeverOverruns` (`NoOverrun`) and
  `VerdictsRight` (`VerdictRight`), if no read ends in the last four bytes of a path
  or payload. The invariant
  `FrameInv` says where the parser stands at each stage (`InStep`), that the
  fields behind it were valid (`PassedValid`) and what a verdict means
  (`Verdict`). `FieldWhole` is the heart: without a cut in the tail, "at least
  as many bytes as the length says" and "all of the field" are the same.
- `NeverStalls` (`NoStall`), under the same hypothesis: the parser stops for more
  data only in front of the end of what was sent (`ShortOfEnd`), and only a read
  changes that (`StallStep`).

`HttpProtocolProofs`, for any set of messages, lines and headers of any number and length,
and any cuts. The invariant `HttpInv` says that the parser has read a whole number of
lines (`LinesRead`: `_rindex` is where the next begins, each of those before fits into
the window) and what it knows is what the headers among them say (`ContextRead`: the
keys seen are those of the headers that are not blank, the size and the connection type
those of the first of each); `StageLines` is how many lines the stage can stand for,
`ResultRight` what a verdict means. Where a line begins is a recursive function; that
there is one that satisfies its equation (`SumExists`, `StartIsNext`) and that it grows
(`StartsGrow`, and so the parser is at one line only, `CurrentIs`) is shown with a least
counterexample (`NatLeast`, from the well-foundedness of `<`) in place of an induction.
`HeaderStep` is the heart: what `_parse_headers` does with one more line is what one more
header does to what the headers say.

- `HttpTypes`: `TypeOK`.
- `SuccessAlwaysComplete` (`SuccessMeansComplete`) and `VerdictAlwaysRight` (`VerdictRight`),
  without hypothesis.
- `NeverStalls` (`NoStall`) for `RequestsHaveMethod`: every request has at least the
  `HTTPMethodMaxLen` bytes the parser wants to see before it looks at the method. A whole
  request of fewer bytes is no HTTP request, and is waited for until the read timeout.

`PbClientProofs`, for any number of calls and any way the socket takes them, if a
call is made only when the loop is out of the callbacks of the last one
(`Overlap = "none"`). `ClientInv` is `TypeOK` and four parts: `AnswersInv` (what is
on its way back belongs to the last request sent), `CallInv` (context, session
and masks at each position of the caller), `ChannelInv` (the same for the
callbacks of the loop) and `DataInv` (what is in the buffers and in flight). None
holds alone: the caller fills the session the loop empties, and what the loop
reads was caused by what the caller wrote.

- `ClientTypes`: `TypeOK`.
- `ContextAlways` (`ContextAlive`) and `IdleAlwaysQuiet` (`IdleIsQuiet`: when the caller
  knows of its answer and the loop waits, both masks, the queue of functions, the write
  buffer and both directions of the connection are empty and there is no context).
- `ClientImplementsChannel` (`ImplementsChannel`): the refinement of `RpcChannel`,
  one case per action.

`ServerProcessProofs`, for every argument of `set_thread_num`, any number of
connections and signals, whatever thread a signal hits. `ProcessInv` is `TypeOK`,
`StageInv` (the members of TCPServer at each place of `main`), `SubsInv` (the
sub-reactors, as `stop()` goes through them) and `AcceptInv` (what was handed to
whom: `Ahead` says which loops have one connection more than loop 0 in this
round).

- `ProcessTypes`: `TypeOK`.
- `SpreadEvenly` (`Balanced`), without hypothesis.
- `LoopsAlwaysThere` (`LoopsThere`), without hypothesis: only a server with sub-reactors
  that is inside `stop()` can use a loop that is not there (`FaultStep`), and the array is deleted only when its threads are joined.

`LoggingProofs`, for any rollover time and any number of lines, seconds, takings,
short writes and starts, for one thread, an `fopen` that succeeds and no file put
in place between `fopen` and `stat` (`Alone`). The invariants come in layers, each proved with the help of
those before it:

- `LogTypes` (`TypeOK`) from `BaseInv`: `HandleInv` (`_f`
  is open at every use) and `NameInv` (the file at `_filename` is the newest one
  and neither taken nor a backup).
- `TakenAlwaysLeft` (`TakenFileLeft`) from `WatchInv` (the inode in `_file_node` is the
  one of `_filename` just when the open file is) and `LateInv` (a file has its late
  line only after it was taken, and a thread past the check has written none).
- `SpanAlwaysBounded` (`SpanBounded`) from `TimeInv` (`_t`, the local `now` of
  `do_rollover` and the clock) and `SpanInv`: at each place of `append` the open file,
  or the one that will be opened, has of this run only lines written at `_t` or later that
  carry a time less than `RolloverS` after it, or none (`SpanAt`).
- `LinesAlwaysKept` (`LinesKept`) and `BackupsAlwaysInOrder` (`BackupsInOrder`), if local
  time only grows (`ClockGrows`). Every backup is named for a second that is over
  (`Over`, `OverStays`), so `rename` takes a name no backup has and later than theirs
  (`BackupNew`); files are in the order of their lines (`OrderInv`), and none gets
  lost (`KeptInv`).

`Buffer`, for any sizes:

- `AppendStaysInside`: `Inside` (no unsigned difference wraps, nothing is copied
  behind the end) is inductive if no single append is longer than a new buffer:
  the buffer never shrinks below that, so one doubling always makes room. Every
  append of the two protocols is that short except those of the service and
  method names, which nothing limits.

`EventLoopProofs` on `TimeStamp`, for all times the clock can show:

- `OrderIsMillis`: comparison is that of milliseconds.
- `AfterIsLater`: `after_now_ms(ms)` is `ms` milliseconds later, and again
  normalised, for every `ms >= 0`.
- `TimeoutIsTimeLeft`: what `loop()` hands to `epoll_wait` is exactly the time left
  to the deadline, or 0: the cast to `int` (`CastKeeps`) loses nothing for a delay
  that is an `int` and a loop that asks less than 2^31 ms after it was set.

Only model-checked: `RepliesMatch` of `PbServer` with sub-reactors and asynchronous
services (`server_threads`), and all liveness, which is out of the proof system's reach.

## Not modelled

- socket helpers: thin wrappers around system calls, without state;
- PbController (an error text), `add_protocol` and `add_service` (called before
  the server starts), destructors of PbServer, PbClient and the appender;
- what ends the process at once and leaves nothing to check: a reset connection
  (`PLOG_FATAL` in `read_fd`, `write_fd`), no descriptor left for `accept`, other
  fatal system errors;
- a failing `pack_response`: neither protocol has one;
- the text of log lines, the syntax of the log streams, the echo services and the
  unit tests.

## Plan

Done, in this order: `Executor`, `EventLoop` and its proofs; `PbServer`;
`SimpleProtocol` and its proofs; `HttpProtocol`; `RpcChannel` and `PbClient`;
`ServerProcess`; `Logging`; `TimeStamp` and `Buffer` with their proofs.

The proofs of `PbClient`, `ServerProcess`, `Logging` and `PbServer` followed, then those
of `HttpProtocol` and of `TimeoutNotEarly` for any threads.

Left: `RepliesMatch` up to the first fault without read timeouts, for any threads. It needs
an invariant about connections that share a descriptor.
