# gologincase in TLA+

gologincase is a chat over TCP written in C++: a server application that
accepts connections, registers clients that log in with the configured
credentials and relays every registered client's message to all of them, and a
desktop client with a window. This directory holds TLA+ modules of the program,
the TLC configurations that check them and TLAPS proofs of their safety: both
applications from start to end, the TCP code under them, the byte stream between
them and the server's log file. Paths below are relative to the repository's `src/` directory unless
they start with `messages.json`, `config/` or `spdlog/` (vendored, under
`contrib/spdlog/include/`).

What is modelled is the Windows build: it is the only one that compiles
(`tcp/server/server.cpp:64` names `_errorno`, which no header declares).

## 1. Inventory

| component | state | operations | talks to |
|---|---|---|---|
| TCP server, `tcp/server/` | `m_status`, listening socket, accept thread, list of handler threads, `m_client_list` (client id to `server_client`), three mutexes | `start`, `stop`, `~server`, `send_to`, `handler_thread_routine`, `client_handler`, `packet_handler`, `set_keep_alive` | dispatcher (call), sockets, every handler thread |
| `server_client` and `client_base`, `tcp/core/core.*` | `m_socket` (raw handle), `m_status` | `recv`, `send`, `disconnect`, destructor | sockets |
| Dispatcher, `tcp/core/dispatcher.hpp` | handlers by hash of the command, fixed after start-up | `dispatch`, `handle` | packer, packet handlers |
| Auth provider, `auth/provider/` | `m_clients` (id to cookie, session), a shared mutex | `add_client`, `rem_client`, `status_client`, `get_clients` | packet handlers |
| Server application, `server/app.cpp` | the members above, the main `jthread`, its stop token | six packet handlers, `startup`, `main`, `exit`, destruction | all of the above |
| Messages, `messages/`, `messages.json` | none | field layout, JSON conversion | dispatcher |
| TCP client, `tcp/client/` | `m_status`, `m_socket`, handler thread | `connect`, `disconnect`, `recv`, `send` | dispatcher, sockets |
| Client application and window, `client/` | cookie (id, login, session), which buttons are enabled and shown | five window callbacks, six packet handlers, output handlers | TCP client, window |
| Logger, `core/logger.hpp` over `spdlog/` | level, the sink's mutex, the file and its buffer, the time of rotation | `create_logger`, `log` with its rotation and flush | every thread of the server |
| Errors, `core/error.*` | none | texts | |

How they interact. The **owner** of a server (the thread that calls `start`,
`stop` and the destructor) starts one **accept thread**; that starts one
**handler thread** per connection. A handler thread reads a packet, dispatches it
and sends the answer, all synchronously; inside the dispatch the message handler
calls `send_to`, which writes to *other* connections' sockets. So all handler
threads share `m_client_list` (under a reader-writer lock), the provider (under
its own), the `m_socket` of every `server_client` (under none) and, through the
operating system, the table of socket handles, in which a handle is issued
again as soon as it is closed.

The server process has two more threads: the process's main thread, which waits
for a termination request, and the `jthread` that builds the provider, the
dispatcher and the TCP server and is their owner until it ends; the main thread
then destroys them. All of them log.

The client has two threads. The **window's thread** runs the callbacks of the
buttons, which call `connect`, `send` and `disconnect`; the **handler thread** of
`tcp::client` receives packets and runs their handlers, which change the cookie
and the window. A widget called from another thread is a message to the
window's thread, so each such call waits for it to be back in its message loop.

What is hard, and what correct means for each component:

* **TCP server.** A client's id *is* its socket handle; `disconnect()` closes
  the handle before `client_handler` erases the entry with that id; a failed
  `set_keep_alive` closes the socket and still starts the thread; `send()` reads
  `m_socket` unlocked; `stop()` races `accept()` and clears the lists without
  locks. Correct: a `server_client` uses its own connection only; whoever is
  served is listed; `stop()` leaves nothing running or open and returns; a
  packet reaches its addressee.
* **Provider and message handler.** Entries outlive connections; the handler
  takes and releases the provider's lock twice and the list's lock once per
  recipient. Correct: a message reaches all registered clients that are still
  connected; nobody gets another client's message; a session does not change
  while it is in use; every dispatch returns.
* **Dispatcher.** Whatever a packet holds, its connection keeps working.
* **Server application.** A termination request may come at any moment of the
  start-up; members are destroyed in reverse order, the provider before the
  server that still runs handlers. Correct: the process ends, leaves no thread
  behind, and does not linger half started.
* **Framing.** `::recv` may return part of what was asked for, or an error that the
  client takes for a header; `::send` of two threads may interleave on one socket.
  Correct: what is dispatched is what was sent, as long as the stream is cut where
  packets begin; the receiver comes to the end of the stream when it is not.
* **TCP client, client application, window.** `connect` and `disconnect` against
  the handler thread, a `recv` error taken for success, late and missing answers
  against the state of the window, the session assigned by one thread and read by
  another. Correct: the user always has a way out, the window agrees with the
  server once all answers are in, threads and sockets belong together.
* **Logger.** A message is stamped, then waits for the mutex; rotation closes the
  file before it opens the next; the line and its flush are two holds of the
  mutex; of errors in the same second the first alone is shown. Correct: a call that
  returned left its line on disk, in the right file, or stderr tells of an error;
  and it returns.

`PROJECT.json` lists the hazards one by one with their lines and the properties
that cover them.

## 2. Modules

| module | models | uses |
|---|---|---|
| `TcpServer` | the TCP server, `server_client`, the sockets and the peers; the dispatcher is arbitrary | |
| `AuthProvider` | the auth provider: one operator per operation | |
| `ChatServer` | the dispatcher and the packet handlers of the server application | EXTENDS `TcpServer`, INSTANCE `AuthProvider` |
| `ServerApp` | the server process from `main(args)` to the destruction of its members, over an abstraction of the server's threads | |
| `TcpClient` | `tcp::client`: its owner's thread, its handler thread, a server that may be gone | |
| `ClientApp` | the client application and its window over the TCP client | EXTENDS `TcpClient` |
| `Framing` | `create_packet`, `::send` and both `recv` over a byte stream | INSTANCE `PacketChannel` |
| `PacketChannel` | what the other modules take a connection for | |
| `DailyLog` | the server's log file: `core::create_logger` and spdlog's logger, sink and file helper | |
| `MCTcpServer`, `MCChatServer`, `MCServerApp`, `MCClientApp`, `MCFraming`, `MCDailyLog` | values and symmetry for TLC | |
| `TcpServerProofs`, `ChatServerProofs`, `TcpClientProofs`, `ClientAppProofs`, `ServerAppProofs`, `FramingProofs`, `DailyLogProofs` | theorems about the module they are named after | EXTENDS it; those of an application also the proofs of its half of the TCP code |
| `ClientSessionProofs` | theorems about the session of `ClientApp`, its types, and its window against the server | EXTENDS `ClientAppProofs` |

### TcpServer

A connection `c` stands for three things that are born together: the TCP
connection, the handler thread that serves it and the thread's `server_client`.
`pc[c]` is where its handler thread is; `client_id[c]` is `_client_id`;
`m_socket[c]` and `m_client_list` are the members of those names. `os_socket` is
the system's handle table: it is the piece of state the hazards turn on, since a
number that one `server_client` still holds may mean another connection.

Steps end where another thread can see the difference: at each lock, at each
system call and between `closesocket` and the assignment after it in
`disconnect()` (`RecvDisconnect`, then `Invalidate`). `emplace` and `erase` are
single steps under the exclusive lock, which is the guard `NoReader`; `send_to`
holds the lock shared from `SendTo`, which reads the entry and its `m_socket`, to
`SysSend`, where `::send` returns. The answer to a packet (`Reply`) goes the same
way without the lock. `::send` blocks while the peer's receive window is full.

| code | actions |
|---|---|
| `start` | `StartUp`, `StartFails` (with `Stop(TRUE)` first on a running server) |
| `stop`, `~server` | `Stop`, `CloseListener`, `JoinAccept`, `JoinClients`, `Clear` |
| `handler_thread_routine` | `AcceptLoop`, `Accept`, `AcceptInvalid`, `AdmitNot`, `Admit`, `Spawn` |
| `client_handler` | `Register`, `Loop`, `Erase`, `Exit` |
| `server_client::recv`, `disconnect` | `RecvPacket`, `RecvNoSize`, `RecvDisconnect`, `Invalidate`, `RecvNotSocket`, `RecvBodyReset` |
| `packet_handler`, `send_to`, `client_base::send` | `SendTo`, `SysSend`, `Reply`, `NoReply` |
| the other end (external) | `PeerConnect`, `PeerSend`, `PeerRead`, `PeerClose`, `PeerReset` |

Destructors are part of the steps that drop the last `shared_ptr`: of `Exit`
when the entry is gone, of `Erase` or `Clear` when the thread is. Two history
variables, `ka_failed` and `collided`, record that a `set_keep_alive` failed and
that an `emplace` found its key taken; no action reads them. `NoBody` says whether
a peer may send a header that announces no body, at which the handler thread ends
without `disconnect()` (`RecvNoSize`); this repository's client sends none.

The owner is one thread, as it is in this repository: `start` and `stop` are
never called concurrently. It may restart the server any number of times,
although the application starts it once.

### AuthProvider and ChatServer

`AuthProvider` gives each operation of the provider as one step on `m_clients`
(the whole body runs under the mutex). A new session is a fresh value, numbered
in the order of generation: 32 random letters do not recur. The
credentials are compared outside the lock with constants, so they are a Boolean
of the request.

`ChatServer` replaces the arbitrary dispatching of `TcpServer` by the six
handlers. Five are one step, since they take one lock once. The message handler
is split at each lock: `MessageStatus` (`status_client`), `MessageSnapshot`
(`get_clients`), then for each entry, in any order (the map is unordered),
`MessageRelay` and `Send`, or `MessageRelayMiss` when `send_to` returns false,
and last `MessageDone`. `CharOf` is what the assignment of an integer to the
string field `client_id` does, and `AnswerMessage` what becomes of the response.
A client's requests all carry the id its application drew for the connection
(`IdOf`). Ids are taken to be distinct for distinct connections: they have 64 bits,
but the generator is seeded from 32 (`client/app.cpp:214-218`), so that two in use at
once are unlikely to be the same and not certain not to be.
The life of the application from `app::main()` to its destruction is covered, so
the server is never stopped there.

### ServerApp

`main_pc` is where the process's main thread is, `thread` where the `jthread` is,
`conn` the handler threads. `Startup` to `Wait` are `startup()` and the first half
of `exit()`; `RequestStop` and `Join` the rest; then the members go one by one,
last first: `DestroyProvider`, `StopServer` and `JoinHandlers` (`~server`, which
returns when its threads have ended, see `TcpServer`), `DestroyLogger`.
`ThreadBegin`, `CreateServer`, `StartServer` and `ThreadStops` are the `jthread`.
An exception on the `jthread`, the use of a null logger and a call of a destroyed
provider end the process (the last one only perhaps). `Terminate` may come at any
moment.

### TcpClient and ClientApp

`TcpClient` lets its owner call anything at any time. `connect` is one step per
outcome, since no handler thread runs before its last statement; `disconnect` is
`Shutdown`, `CloseSocket`, `Disconnected` and `Join`, all of which the handler
thread can fall between. `RecvNothing` and `RecvGarbage` are the two ends of a
connection as `recv` takes them: 0 bytes, and -1 with a header never written.

`ClientApp` gives the owner its callbacks. `ui` is the callback the window's thread
is in; `ui_ops` and `h_ops` are the calls of widgets that the window's output
handler has still to make for the callback and for the packet handler. They are
made one at a time because the two threads' calls interleave:
`on_connect`, `on_disconnect`, `on_login`, `on_logout`, `on_send` and `on_recv` list
them in the order of `client/frame.cpp`. A call by the handler thread (`Output`)
needs the window's thread in its loop; `IsEnabled()` does not. `m_cookie` passes
through `Torn` while a login's answer is assigned to it (`Handle`, `SetSession`).
The server (`ServerHello` to `ServerRelay`) answers as the handlers of `ChatServer`
do for one client. Its handler thread may also wait for others (`busy`): for the
lock before `emplace`, and in the relay of a message to clients that do not read;
`ServerGoesOn` ends the wait. A relayed message may come at any time, from a snapshot
or a cookie of before too. A second click on Connect draws the id anew
(`ClickConnectAgain`), which nobody has been told yet. The application's members go in
the order of `client/app.hpp:53-60`: the window has destroyed itself by then, the logger
goes before the client (`LoggerGone`), and `stale` records a packet handler that was
at work without either. `ping_reply` is left out: this client never pings.
`disconnect()` on a client that is not connected, which returns at once, is
left out too: its button is not there then. A form with an empty or
malformed address or login ends in the callback's text alone and is left out.

### Framing and PacketChannel

One direction of one connection as a sequence of units: the three fields of the
header and the parts of a body. `::recv` returns any part of what it is asked for,
since nothing in the code asks for all of it. `side` is which `recv` is at the end of
the stream: the server's ends with it, the client's goes round. `Reset` ends the
connection with an error, which `::recv` tells once or each time: the server's
disconnects on it (`RecvHeaderError`), the client's takes the -1 for a header that
nobody has written (`RecvNoHeader`), and an error in place of a body makes either return
false (`RecvBodyError`). A field read from the wrong place, or not written, holds
anything in `Garbage`, also `Huge`, for which memory may not be found. `Write` hands
over what fits; another thread's `Write` can come next. `short`, `mixed` and `failed`
(history) record the three ways in which the receiver comes to read from a wrong place;
`Whole` says that none has happened, `Intact` that no reset has either.
`PacketChannel` is a list of packets sent and of packets delivered, with `Cut` after
which it promises nothing: the end of `Intact` is mapped to it, and both lists are
empty after.

### DailyLog

`Log` stamps a message, `Sink` or `Rotate` take the mutex (a rotation is due when
the message is past `rotation_tp_`), `Opens` and `OpenFails` are the tries of
`file_helper::open`, `Write`, `WriteNull` and `WriteFails` the write, `Flush` the
second hold of the mutex; `Tick` and `Kill` may come between any two. When the sink
throws the logger calls its error handler, which writes to stderr (`Report`) or, within a
second of the last time it did, returns without a word (`ReportNot`); a second is at
most a tick. `buffer` are lines in the open file's stdio buffer, `disk` those the
system has, `errors` those for which the sink threw, `shown` and `dropped` (history) the
calls of the error handler that did and did not write, `lost` (history) the lines in the
buffer of a flush that failed. The console sink changes spdlog's default logger and writes to
stdout: not modelled.

## 3. Runs

TLC, exhaustive. Deadlock is checked in the `MCTcpServer` runs. Elsewhere the
system may stop: clients do not come back, a process or an application ends, the
bounded messages have been sent.

| run | instance | shows |
|---|---|---|
| `tcp_safety` | 3 connections, 2 handles, 1.4 M states | `TypeOK`, `SocketOwned`, `ServingIsListed`, `StrayOnlyFromDeparted` |
| `tcp_stop` | 2 connections, 1 handle, `set_keep_alive` may fail, headers without a body, fairness, 420 k | `StopClean`, `StopTerminates` |
| `tcp_nonblocking` | 1 connection, thread fairness only | `RecvReturns` is **violated** |
| `chat_relay` | 2 clients, 2 handles, 2 logins, ping, logout, 1.3 M | `ChatTypeOK`, `ReachesAll`, `RelayReachesOwner`, `EntryStable` |
| `chat_dispatch` | 2 clients, 2 handles, 1 login, refused login, hello, unknown packet, fairness | `DispatchTerminates`, `ImplementsTcpServer` |
| `chat_answer` | as `chat_relay` | `MessageAnswered` is **violated** |
| `chat_session` | as `chat_relay` | `RelaySession` is **violated** |
| `gui_safety` | 2 logins, window of 1 packet, unresolved names, both garbage sizes, 1.5 M | `AppTypeOK`, `ThreadOwned`, `ConnectedSocket`, `SocketNotReplaced`, `WayOut`, `ConnectionButtons`, `WindowFollowsServer`, `SessionCarried`, `StaleOnlyIfConnected`, `ImplementsTcpClient` |
| `gui_hang` | 1 login, fairness | `HangOnlyInOutput`, `SendHangOnlyInRing` |
| `framing` | 2 senders, 2 packets, bodies of 0 and 2 units, window of 4, both receivers, resets, fairness, 620 k | `FramingTypeOK`, `DispatchedIsSent`, `HeaderSafe`, `ReceiverEnds`, `ImplementsChannel` |
| `process` | 3 connections, every sink, fairness | `ServerAppTypeOK`, `EndsClean`, `HandlersSeeProvider`, `TerminationEnds`, `HalfStartedEnds` |
| `log` | 2 threads of 2 and 1 messages, 3 days of 2 ticks, all faults, fairness, 350 k | `DailyTypeOK`, `ReturnedIsDurable`, `FileNearDate`, `NullOnlyOvertaken`, `LogReturns` |

What the properties say:

* `SocketOwned` - the handle a `server_client` holds is its own connection's,
  however handles are re-issued, except inside `disconnect()`. It needs that
  no `set_keep_alive` failed; with a failure it is false.
* `ServingIsListed` - a connection being served is in `m_client_list` under its
  id. The exception is written into the property: an id on which an `emplace`
  has collided, which happens when a connection is accepted on a handle whose
  earlier owner has closed it and not yet erased its entry.
* `StopClean` - after `stop()`: no thread, no entry, no open client socket, but
  for a connection that `accept()` returned after the status had changed, which
  the code drops without closing.
* `StrayOnlyFromDeparted` - where a packet may go wrong: only from a client that
  has disconnected to the one that got its handle.
* `ReachesAll` - at the end of the relay loop every client of the list that is
  still listed and still reads has a copy, whatever happened meanwhile.
* `RelayReachesOwner` - the same bound for messages led by a stale cookie.
* `EntryStable` - a repeated login changes neither session nor cookie.
* `StopTerminates`, `DispatchTerminates` - `stop()` and every `dispatch()` return.
* `ImplementsTcpServer`, `ImplementsTcpClient` - each application is one of the
  users that its half of the TCP code allows, so that the theorems about
  `TcpServer` and `TcpClient` are about it too.
* `ThreadOwned`, `SocketNotReplaced`, `ConnectedSocket` - a handler thread exists
  exactly while the client is connected, so `connect()` never assigns to a
  joinable thread; it keeps the socket it was started on; and that socket is open
  unless the server's name did not resolve.
* `WayOut` - the user can always connect or disconnect, but for a hello that was
  sent and not answered: the code has disabled one button and not yet shown the
  other. A hello that is never answered leaves it so.
* `ConnectionButtons` - no button that needs a connection can be pressed without
  one.
* `WindowFollowsServer` - once all answers are in, the buttons agree with the
  server's registry, unless a login was refused or the user logged out before
  the answer to a login had come. Both exceptions are real.
* `SessionCarried` - a message carries the session the server issued, unless it
  was written while a login was not answered.
* `StaleOnlyIfConnected` - a packet handler meets the destroyed window or logger only
  if the user closed the window of a client that was connected; after a
  `disconnect()` no packet is handled any more. The case it excepts is real.
* `HangOnlyInOutput`, `SendHangOnlyInRing` - the window stops answering for good in
  three ways only: in a `disconnect()` that joins a handler which waits for the
  window; in a `send()` to a server that waits for a handler which waits for the
  window; and in a `send()` to a server whose handler thread for this client never
  comes back from other clients that do not read.
* `DispatchedIsSent`, `HeaderSafe` - until the stream is cut in a wrong place, or a
  client takes an error of `::recv` for a header, the packets dispatched are the
  packets sent, in order, with their bodies; no size is read that nobody sent and every
  command has its terminator. A reset alone takes nothing of this away.
* `ReceiverEnds` - cut anywhere, closed or reset, the receiver comes to the end of the
  stream or crashes on a size nobody sent, if `dispatch()` returns.
* `ImplementsChannel` - until a cut in a wrong place or a reset the code is
  `PacketChannel`, liveness included: what was sent arrives.
* `EndsClean`, `TerminationEnds`, `HalfStartedEnds` - a process that ends by itself
  leaves no thread; a request to terminate ends it; and an exception or a missing
  logger ends it too, although no catch block is what does. A failed bind is neither:
  that process waits for the request, with no server.
* `HandlersSeeProvider` - a handler may meet a destroyed provider in one interval
  only, between the provider's destruction and the end of `~server`. That it may is a
  fact about the code; the property is that there is no other moment.
* `ReturnedIsDurable` - a log call that returned left its line on disk, or stderr shows
  its error or another one of the second before, or the line was in a buffer the disk
  refused, of which nobody is told.
* `FileNearDate` - a line is at most one day from its file's date, if no call lasts
  longer than from midnight to the rotation. (It is off by one every day: see below.)
* `NullOnlyOvertaken` - a null file handle is written to only by a message stamped
  before a rotation that failed while it waited for the mutex.
* `LogReturns` - a log call returns, however often the file cannot be opened.

Every property of a passing run has a mutant in its module (marked `MUTANT of`,
defined before the action it changes): a plausible bug that violates it.

**Bounds.** Every hazard of the handle table takes one connection that has left
and one that got its handle; a third (`tcp_safety`) adds one that sends to
either. Two handles allow both re-issue and two live connections; in `tcp_stop`
one handle makes each connection the heir of the other. `MaxIn` = 1
packet on its way and `Window` = 1 packet in a receive window make blocking as
frequent as it can be; longer queues only delay it. `MaxLogin` = 2 gives a second
login by the same client, or one by each of two; it is the number of logins
sent, so sessions suffice. The ids 257 and 456 have low bytes 1 and 200: one
that is a character by itself and one that is not. In `Framing` a body of two units
can be split, two packets can be taken for one another, and a window of four units
is one short of a packet; a size of 3 read by mistake asks for more than a body and
less than `Huge`. In `DailyLog` a day has two ticks
(`DayLen`), of which the last is the minute of the rotation (`RotationAt`); five
ticks (`MaxTime` = 4) span three days, which a line two days off needs; the clock is
not set back and days are of one length (no daylight saving); two tries
stand for the five of `open_tries_`; `MaxLag` = `RotationAt` says that no call
lasts longer than from midnight to the rotation, 23 hours 59 in the code. `Logged`
is the one level that every configured level but debug filters out.

**Fairness.** `ThreadFairness` gives each thread weak fairness, since the system
schedules it, and strong fairness to `Answer`, the return of the arbitrary
dispatcher: the handlers of this program have no loop but the one over a finite
list, and `DispatchTerminates` shows for them what is assumed here.
`PeerFairness`, that every peer closes some day, is an assumption about the
environment that `StopTerminates` needs: without it `stop()` waits in a join, see
`tcp_nonblocking`. `ChatFairness` adds that clients read what they are
sent, some day: a client that never reads does stall whoever sends to it, which is
what `SendHangOnlyInRing` says of its effect on another client. `Send` is strongly fair since another thread's packet can fill the window
again each time it empties; sockets serve waiting writers in turn.
In `AppFairSpec` both threads are weakly fair; `Output` is strongly fair, since a
message to a window is taken before the user's input whenever its thread is in
its loop, and so is `ServerAnswer`, the server's handler thread, whose packets the
client's window may close to again and again. That thread's waits for other clients
are not fair: nothing makes `ServerGoesOn` happen. Users are not fair. In `Framing`,
`ServerApp` and `DailyLog` each thread is weakly fair; `ServerApp` adds that peers
close some day, which `~server` needs. `Framing` takes the handlers that `dispatch()`
calls to return, which `DispatchTerminates` shows of the server's and the exceptions in
`HangOnlyInOutput` and `SendHangOnlyInRing` limit for the client's.
`HangOnlyInOutput`, `SendHangOnlyInRing` and `LogReturns` are written as "always
eventually not there", which is the same as "whoever is there leaves".

## 4. Where code and documents disagree

* `server.cpp:40` calls the read of the header non-blocking. On Windows the
  call that would make it so is commented out and the flags are 0:
  `RecvReturns` fails, and with it `stop()` depends on the peers.
* `messages.json:47-53` promises a client an answer to its message. `client_id` is a
  string assigned from an integer (`server/app.cpp:310`): for half of all ids
  the response cannot be serialised and nothing is sent. `MessageAnswered` asks for an
  answer when the relay of a logged-in client's message ends and it is connected still;
  in the run's trace the message has been relayed, to its sender too.
* `client/app.cpp:271-274` expects the receiver's session in every message.
  Entries of clients that dropped stay in the provider, with handles as cookies:
  a later client receives their copy (`RelaySession`).

Others the models explain, as exceptions in the properties named, without a run of
their own:

* `tcp/client/client.cpp:96` joins the handler thread from the window's thread. If
  a packet handler is in its output, neither thread goes on and neither text of
  `client/app.cpp:240-241` is ever shown (`HangOnlyInOutput`).
* `client/app.cpp:169` and its like report success once the request is sent. A late
  answer to a login puts the window back to logged in after a logout, with Login
  hidden and Logout disabled (`WindowFollowsServer`'s exception `crossed`).
* `tcp/client/client.cpp:77`: the handler of a relayed message fills in a response
  (`client/app.cpp:264-280`, `messages.json:72-78`) that is never sent.
* `server/app.cpp:10` reads `server_addrr` while `config/server.json:4` sets
  `tcp_server`: the server listens at its default address.
* `server/app.cpp:193` logs "ok" whatever `start()` returned at line 191.
* `server/app.cpp:96` means to log an exception, but what `startup()` can throw it
  throws before `m_logger` is set, and those of the `jthread` do not get there
  (`HalfStartedEnds`).
* `core/logger.hpp` rotates at 23:59 and spdlog names the file by the date of that
  minute: a day's lines are in the file of the day before (`FileNearDate`).
* `spdlog/details/file_helper-inl.h:91` may write through a null handle
  (`NullOnlyOvertaken`), and lines 75 and 82 drop the results of `fflush` and
  `fclose` (`ReturnedIsDurable`'s case `lost`), where `file_helper.h:14` says "Throw
  spdlog_ex exception on errors".
* `spdlog/logger-inl.h:242` shows one error a second: of a burst, all lines but the
  first are lost without a word of their own (`ReturnedIsDurable`'s case `dropped`).
* `client/app.hpp:56-59` destroys the window and the logger before the client whose
  handlers use them (`StaleOnlyIfConnected`'s exception).
* `messages.json` names `HELLO` and `logout_reply` where `messages.hpp` has `hello` and
  `logout`; `server/app.cpp:250` reports wrong credentials for an id that is already
  registered; `server::handle` (`server.cpp:125`) inserts only when the key is
  present, hence never.

## 5. Proofs

For every value of the constants that the modules' assumptions allow, infinite
sets included:

| module | theorem | states |
|---|---|---|
| `TcpServerProofs` | `TypeCorrect` | `Spec => []TypeOK` |
| | `SocketsOwned` | `Spec => []SocketOwned` |
| | `ServingListed` | `Spec => []ServingIsListed` |
| | `StopIsClean` | `Spec => []StopClean` |
| | `StrayFromDeparted` | `Spec => []StrayOnlyFromDeparted` |
| `ChatServerProofs` | `ChatTypeCorrect` | `ChatSpec => []ChatTypeOK` |
| | `ChatImplementsTcp` | `ChatSpec => ImplementsTcpServer` |
| | `EntriesStable` | `ChatSpec => EntryStable` |
| | `MessageReachesAll` | `ChatSpec => [](ka_failed = {} => ReachesAll)` |
| | `RelayFindsOwner` | `ChatSpec => [](ka_failed = {} => RelayReachesOwner)` |
| `TcpClientProofs` | `ClientTypeCorrect` | `ClientSpec => []ClientTypeOK` |
| | `ThreadIsOwned` | `ClientSpec => []ThreadOwned` |
| | `ConnectedHasSocket` | `ClientSpec => []ConnectedSocket` |
| | `SocketIsNotReplaced` | `ClientSpec => SocketNotReplaced` |
| `ClientAppProofs` | `AppImplementsClient` | `AppSpec => ImplementsTcpClient` |
| | `FreedOnlyIfConnected` | `AppSpec => []StaleOnlyIfConnected` |
| | `AlwaysAWayOut` | `AppSpec => []WayOut` |
| | `ButtonsNeedConnection` | `AppSpec => []ConnectionButtons` |
| `ClientSessionProofs` | `MessageCarriesSession` | `AppSpec => []SessionCarried` |
| | `AppTypeCorrect` | `AppSpec => []AppTypeOK` |
| | `WindowAgrees` | `AppSpec => []WindowFollowsServer` |
| `ServerAppProofs` | `ServerTypeCorrect` | `Spec => []ServerAppTypeOK` |
| | `ProcessEndsClean` | `Spec => []EndsClean` |
| | `HandlersHaveProvider` | `Spec => []HandlersSeeProvider` |
| `FramingProofs` | `FramingTypeCorrect` | `Spec => []FramingTypeOK` |
| | `WholeStreamDelivers` | `Spec => []DispatchedIsSent` |
| | `HeaderIsSafe` | `Spec => []HeaderSafe` |
| | `FramingIsChannel` | `Spec => Channel!Init /\ [][Channel!Next]_(Channel!vars)` |
| `DailyLogProofs` | `LoggedIsDurable` | `Spec => []ReturnedIsDurable` |
| | `NullHandleIsOvertaken` | `Spec => []NullOnlyOvertaken` |
| | `FilesNearDate` | `Spec => []FileNearDate`, if `MaxLag <= RotationAt` |
| | `DailyTypeCorrect` | `Spec => []DailyTypeOK` |

**TcpServer.** None of the four properties is inductive alone, so they are proved together with
what supports them, as `IInv`:

* `AcceptInv`, `OwnerInv` - the accept thread holds at most one connection, and
  how far the owner is in `stop()` bounds which other threads are alive. This is
  why clearing the lists without their locks is sound.
* `ListInv`, `SocketInv`, `TableInv` - entries are keyed by their owners' ids; a
  socket held is the one `accept()` returned, and one that outlives its thread is
  listed, so that `Erase` or `Clear` will destroy it; every open handle has
  somebody left to close it, or leaked.
* `HeldInv`, `SendInv` - without keep-alive failures a handle not yet served is
  its own connection's, and so is the handle of a send in progress, unless the
  addressee has disconnected.

`ControlStep`, `BookStep` and `HandleStep` prove that every step preserves the
three groups, with one proof step per action; `Inductive` puts them together. The
proofs rest on the module's assumptions only: `None` is neither a connection, a
handle nor a packet (`NoneAssumption`), `KeepAlive` is a set of Booleans,
`MaxIn` and `Window` are positive. They hold for failing `set_keep_alive` calls
too, where TLC checks `StopClean` alone.

**ChatServer.** Each action of a packet handler or of a client is an action of
`TcpServer` (`HandlerRefines`, `ClientRefines`): the handler thread answers, calls
`send_to` or stays silent, with packets of the protocol. This takes `UserInv`: a
handler is at work only in a dispatch (`AtWork`), and a request that is dispatched
is in `Request` (`RequestOK`). The five theorems about `TcpServer` thus hold of the
application, and its invariant `IInv` is at hand for what follows.

A message reaches whom it should because three things keep step. The socket: a
client in service, or listed with its peer still there, holds the socket that
`accept()` returned (`HoldsSocket`, `OpenListed`), so that `send_to` by its id
arrives. The provider: an entry's cookie is the handle of the client that logged in
with its id (`EntryInv`), and so is the addressee of a message on its way
(`SendingInv`). The loop: a client no longer in `todo` has its copy or is being
sent it (`DoneInv`). `Relayed` is `RelayReachesOwner` itself, carried along because a
packet stays on its connection. Every action but those of the packet handlers
leaves these alone up to the departure of clients, which `Quiet` says once for all
of them (`OthersQuiet`, `ServeQuiet`). The two theorems about relays assume that no `set_keep_alive` failed,
as `SocketOwned` does: after a failure a thread serves a handle that may become
another client's, and requests of one client are dispatched as another's.

**TcpClient.** `ThreadOwned` and `ConnectedSocket` do not survive every step by
themselves. `ClientInv` adds the types, that the owner joins the handler thread
only once the status is disconnected (`JoinsDisconnected`), and that what it sends
is a request of the protocol (`SendsRequest`). `SocketIsNotReplaced` is the step property that follows from it.

**ClientApp.** Each action of the window or of a packet handler is an action of
`TcpClient` or leaves its variables alone: `AppImplementsClient` goes through the
disjuncts of `AppNext` and names it. It needs that a packet sent or handled is one
of the protocol's, for which `AppInv` keeps `HasPacket` (what is read or dispatched
is in `Packet`) and `DataOK` (the types of `m_cookie`, `answer` and `asked`). What is proved of `TcpClient` thus
holds of the application, `ThreadOwned` first of all, and `AppInv` says that a handler is
at work only in a dispatch (`AtWork`). `FreedOnlyIfConnected` adds to it what
happens after the window was closed (`ClosedDown`): its thread presses no button and only
destroys the client, so a packet handler that finds the window or the logger gone means
a client that was connected when the window closed and is so still, or is in the
`disconnect()` of its destructor.

**ClientApp, the buttons.** `AlwaysAWayOut` and `ButtonsNeedConnection` need to know what is left of an
output handler at every moment, since each call is a step and the other thread's
come in between. `Offline` says that without a connection the window's thread is at
some call of `on_disconnect`, and `Undone` what has been done by then; with a
connection (`Online`) the calls left take neither button away (`Harmless`,
`Pending`), but for those that follow a hello's answer, of which the first has shown
the disconnect button. `Turns` ties the callback the window's thread is in to what
it does in the TCP client, from which no packet handler is at work without a
connection (`WorksConnected`, by `ThreadOwned`).

**ClientApp, the session.** What a message carries and what the window shows depend on
packets that are in either queue, on the server's answer and on the two handlers'
remaining calls at once, so `ClientSessionProofs` builds its invariant in layers, each
inductive over those before it:

* `LinkInv`, `Counted` - each login asked for is in one place: about to be sent, in
  the client's queue, the server's answer, the server's queue or the handler's hands.
  `asked` counts those of a live connection, and `issued` the sessions made of them;
  the two bounds in `AppTypeOK` follow, which are not inductive alone.
* `ButtonInv` - a login is sent only when the server will have no session by the time
  it reads it (`Alternates`), because the login button is hidden from the moment a
  login is pressed until a logout is (`LoginButton`). A session is thus never
  replaced while it is in use.
* `CarryInv` - while the server has a session, the last answer to a login on its
  way has it, or `m_cookie` does once that answer was handled (`Cookie`); so has a
  message being sent (`Carrying`) or in the queue (`Carried`) that was written while
  no login was unanswered. `SessionCarried` speaks of the server's reading only, and
  follows.
* `FollowInv` - the window shows what the user asked for last, or its output is on the
  way there (`Shows`); no logout is read between a login and the end of its handler
  (`LogoutLater`), and no answer to a logout arrives after the answer to the login
  that followed it (`LogoutBefore`). Without these two, the calls a handler still has
  to make (`Tells`) could undo what a callback has told the window since: this is
  what happens when the user logs out too early, the exception `crossed`. The
  login and send buttons need no more than that nobody disables or hides them
  (`LoginEnabled`, `SendShown`).

TLC checked these conjuncts as invariants, with two logins and a window of two packets,
before they were proved.

**Framing.** `FramingInv` says that as long as the stream was cut where packets begin, a
single line of packets, with the place where each ends in the stream, explains the
whole state (`Explains`): the wire holds the line's units from where the receiver is
(`WireHolds`), at most the last packet of the line is not written to its end, by the one
thread that holds exactly the rest of it (`Writers`), and the receiver's fields are those
of the packet it is at (`Receiving`). A write that would fall into the midst of another
thread's packet, a `::recv` that returns less, or an error taken for a header ends `Whole`
and with it the claim; a reset cuts the wire off and leaves the line as it was. That
line is a witness built step by step, which is how no induction over the stream is
needed. `FramingIsChannel` needs besides that no packet is written to its end twice
(`Once`) and counts packets for the channel's bound. The constants are numbers, a body is
shorter than `Huge` and garbage at most that.

**ServerApp.** The invariant `Inv` says what has ended before what: the `jthread`
before any destruction (`JoinedFirst`), accepting and then the handler threads
before the logger (`ServerStopped`), and that the provider exists before the
server and goes before it (`ProviderFirst`).

**DailyLog.** `LoggedIsDurable` needs that every message in progress passed the
logger's level, so that its flush is due (`Passed`), and that a line whose call is
about to flush is in the buffer, or somebody else's flush or rotation took it, or its
error was shown or fell within a second of one that was (`Waiting`, `Noted`), which holds because the
time of the last report is that of an error shown (`LastShown`). `NullHandleIsOvertaken` needs that opening and writing exclude each
other (`Exclusive`), that a writer's message is ahead of `rotation_tp_` and an
opener's is not (`Ahead`, from `RotationAhead`: the next rotation is in the future),
and that with no file and nobody opening one a rotation threw (`Reported`).
`FilesNearDate` adds how far the clock may be from the message that named the open
file (`DateInv`): the rotation after it is due before the second midnight after the
message (`RotationNear`), which is where the bound on a call's length comes from.

Only model-checked: liveness, which TLAPS does not prove under fairness:
`StopTerminates`, `DispatchTerminates`, `TerminationEnds`, `HalfStartedEnds`,
`HangOnlyInOutput`, `SendHangOnlyInRing`, `ReceiverEnds`, `LogReturns`, and of
`ImplementsChannel` that what was sent arrives. Every invariant and every step property
of a passing run is also stated by a theorem, `ImplementsChannel` in its safety; the two
theorems about relays and `FilesNearDate` under the conditions given above.

## 6. Not modelled, and the plan

Not modelled by choice: error texts, the layout and wording of the window, JSON
text (its two effects on control are in `NoResponse` and `AnswerMessage`),
`server::handle` and `m_packet_handlers` (never used, never filled), the POSIX
branches, `size_t` against `uint32_t` in packet sizes (a body of 4 GiB), the
console sink, daylight saving and a clock that is set back. The limit-free growth of the thread list is a hazard without a
property.

The program's own code is about 2,900 lines; its components are modelled but for the
JSON packer, which is a pure conversion, and the error texts. The other nine tenths of the repository's source are vendored headers, spdlog and
its bundled fmt above all. Of these the parts the program runs and that have state
are in `DailyLog`; formatting is text, and the asynchronous logger, the backtracer,
the registry and the other sinks are not used by this program, so a model of them
would be of another system.

Left for later, in this order:

1. An end-to-end composition of `ClientApp` with the provider and the handlers,
   against an abstract chat: a registry and messages delivered to its members.
   Today the two applications meet only through what each assumes of the other.
2. A `chat_relay` instance with a third client.
3. Proofs for that composition: that the server `ClientApp` assumes is an
   abstraction of `ChatServer` with one client, from which its theorems would
   hold of the two applications together.
