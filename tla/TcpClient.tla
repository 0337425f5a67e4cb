------------------------------ MODULE TcpClient ------------------------------
(***************************************************************************)
(* gologin::tcp::client (src/tcp/client/client.cpp), Windows build.        *)
(*                                                                         *)
(* Threads: the owner, which calls connect, send, disconnect and ~client   *)
(* (the window's thread in this program), and the handler thread that      *)
(* connect starts.  m_socket is the state of the socket behind the handle  *)
(* of that name.  What dispatch() does with a packet is left to the module *)
(* that extends this one: here it takes its time and returns.              *)
(***************************************************************************)
EXTENDS Naturals, Sequences

CONSTANTS
  Packet,   \* packets from the server
  Request,  \* packets the owner sends
  None,     \* no packet
  Resolve,  \* what getaddrinfo may find: a subset of BOOLEAN
  Garbage,  \* the size in a header never written: "small", "huge"
  Window    \* packets a direction holds before its sender blocks

ASSUME ClientNoneAssumption == None \notin Packet \cup Request
ASSUME ClientBoundAssumption ==
  /\ Window \in Nat \ {0}
  /\ Resolve \subseteq BOOLEAN
  /\ Garbage \subseteq {"small", "huge"}

VARIABLES
  m_status,    \* client_base::m_status
  m_socket,    \* the socket: "none", "fresh", "open", "shut", "closed"
  owner,       \* where the owner is in send, disconnect or ~client
  sending,     \* the packet being sent
  destroying,  \* disconnect() was called by ~client
  pc,          \* where the handler thread is
  incoming,    \* _header, _in: the packet being read or dispatched
  peer,        \* the server's end: "none", "open", "closed", "reset"
  inbox,       \* packets from the server, not yet read
  outbox,      \* packets to the server
  unresolved   \* history: getaddrinfo failed for the present socket

ownerVars   == <<owner, sending, destroying>>
handlerVars == <<pc, incoming>>
netVars     == <<peer, inbox, outbox>>
vars == <<m_status, m_socket, ownerVars, handlerVars, netVars, unresolved>>

ConnectError == {"init_error", "connect_error"}

ClientInit ==
  /\ m_status = "disconnected"
  /\ m_socket = "none"
  /\ owner = "idle"
  /\ sending = None
  /\ destroying = FALSE
  /\ pc = "none"
  /\ incoming = None
  /\ peer = "none"
  /\ inbox = <<>>
  /\ outbox = <<>>
  /\ unresolved = FALSE

\* bad_alloc has not ended the process.
Alive == pc # "crashed"

OwnerIdle == Alive /\ owner = "idle"

-----------------------------------------------------------------------------
(* connect().  No handler thread runs before its last statement, so each    *)
(* outcome is one step.                                                     *)

\* MUTANT of ConnectFails: the return of connect_error is missing.
ConnectFailsOn(e) ==
  /\ OwnerIdle
  /\ m_status # "connected"
  /\ m_status' = "connected"
  /\ m_socket' = "closed"
  /\ pc' = "loop"
  /\ unresolved' = FALSE
  /\ UNCHANGED <<ownerVars, incoming, netVars>>

ConnectFails(e) ==
  /\ OwnerIdle
  /\ m_status # "connected"
  /\ m_status' = e
  /\ m_socket' = IF e = "init_error" THEN "none" ELSE "closed"
  /\ unresolved' = FALSE
  /\ UNCHANGED <<ownerVars, handlerVars, netVars>>

\* MUTANT of Connected: the early return on a connected client is missing.
ConnectedAgain(found) ==
  /\ OwnerIdle
  /\ m_status' = "connected"
  /\ m_socket' = IF found THEN "open" ELSE "fresh"
  /\ pc' = "loop"
  /\ unresolved' = ~found
  /\ peer' = IF found THEN "open" ELSE "none"
  /\ inbox' = <<>>
  /\ outbox' = <<>>
  /\ UNCHANGED <<ownerVars, incoming>>

\* The handler thread starts; when getaddrinfo found nothing ::connect is
\* skipped and the status is connected all the same.
Connected(found) ==
  /\ OwnerIdle
  /\ m_status # "connected"
  /\ m_status' = "connected"
  /\ m_socket' = IF found THEN "open" ELSE "fresh"
  /\ pc' = "loop"
  /\ unresolved' = ~found
  /\ peer' = IF found THEN "open" ELSE "none"
  /\ inbox' = <<>>
  /\ outbox' = <<>>
  /\ UNCHANGED <<ownerVars, incoming>>

-----------------------------------------------------------------------------
(* send(): blocks while the server's receive window is full.                *)

SendBegin(r) ==
  /\ OwnerIdle
  /\ owner' = "send"
  /\ sending' = r
  /\ UNCHANGED <<m_status, m_socket, destroying, handlerVars, netVars, unresolved>>

\* MUTANT of SendOk: the packet is gone by the time it is sent.
SendOkNone ==
  /\ Alive
  /\ owner = "send"
  /\ m_socket = "open"
  /\ peer = "closed" \/ (peer = "open" /\ Len(outbox) < Window)
  /\ outbox' = IF peer = "open" THEN Append(outbox, None) ELSE outbox
  /\ owner' = "idle"
  /\ sending' = None
  /\ UNCHANGED <<m_status, m_socket, destroying, handlerVars, peer, inbox,
                 unresolved>>

\* ::send returns >= 0; it may still do so when the server has just closed.
SendOk ==
  /\ Alive
  /\ owner = "send"
  /\ m_socket = "open"
  /\ peer = "closed" \/ (peer = "open" /\ Len(outbox) < Window)
  /\ outbox' = IF peer = "open" THEN Append(outbox, sending) ELSE outbox
  /\ owner' = "idle"
  /\ sending' = None
  /\ UNCHANGED <<m_status, m_socket, destroying, handlerVars, peer, inbox,
                 unresolved>>

\* MUTANT of SendFails: an error of the connection is tried again.
SendFailsRetry ==
  /\ Alive
  /\ owner = "send"
  /\ m_socket # "open"
  /\ owner' = "idle"
  /\ sending' = None
  /\ UNCHANGED <<m_status, m_socket, destroying, handlerVars, netVars, unresolved>>

SendFails ==
  /\ Alive
  /\ owner = "send"
  /\ m_socket # "open" \/ peer # "open"
  /\ owner' = "idle"
  /\ sending' = None
  /\ UNCHANGED <<m_status, m_socket, destroying, handlerVars, netVars, unresolved>>

-----------------------------------------------------------------------------
(* disconnect(), ~client().                                                 *)

\* ::shutdown, on a connected client; it does nothing to a fresh socket.
Shutdown(d) ==
  /\ OwnerIdle
  /\ m_status = "connected"
  /\ m_socket' = IF m_socket = "open" THEN "shut" ELSE m_socket
  /\ destroying' = d
  /\ owner' = "close"
  /\ UNCHANGED <<m_status, sending, handlerVars, netVars, unresolved>>

CloseSocket ==
  /\ Alive
  /\ owner = "close"
  /\ m_socket' = "closed"
  /\ owner' = "status"
  /\ UNCHANGED <<m_status, sending, destroying, handlerVars, netVars, unresolved>>

Disconnected ==
  /\ Alive
  /\ owner = "status"
  /\ m_status' = "disconnected"
  /\ owner' = "join"
  /\ UNCHANGED <<m_socket, sending, destroying, handlerVars, netVars, unresolved>>

\* MUTANT of Join: the handler thread is detached, not joined.
Detach ==
  /\ Alive
  /\ owner = "join"
  /\ owner' = IF destroying THEN "gone" ELSE "idle"
  /\ UNCHANGED <<m_status, m_socket, sending, destroying, handlerVars, netVars,
                 unresolved>>

Join ==
  /\ Alive
  /\ owner = "join"
  /\ pc = "done"
  /\ pc' = "none"
  /\ owner' = IF destroying THEN "gone" ELSE "idle"
  /\ UNCHANGED <<m_status, m_socket, sending, destroying, incoming, netVars,
                 unresolved>>

\* ~client() of a client that is not connected has nothing to undo.
Destroy ==
  /\ OwnerIdle
  /\ m_status # "connected"
  /\ owner' = "gone"
  /\ UNCHANGED <<m_status, m_socket, sending, destroying, handlerVars, netVars,
                 unresolved>>

-----------------------------------------------------------------------------
(* The handler thread.                                                      *)

\* MUTANT of Loop: while(true).
LoopForEver ==
  /\ pc = "loop"
  /\ pc' = "header"
  /\ UNCHANGED <<m_status, m_socket, ownerVars, incoming, netVars, unresolved>>

Loop ==
  /\ pc = "loop"
  /\ pc' = IF m_status = "connected" THEN "header" ELSE "done"
  /\ UNCHANGED <<m_status, m_socket, ownerVars, incoming, netVars, unresolved>>

RecvHeader ==
  /\ pc = "header"
  /\ m_socket = "open"
  /\ inbox # <<>>
  /\ incoming' = Head(inbox)
  /\ inbox' = Tail(inbox)
  /\ pc' = "body"
  /\ UNCHANGED <<m_status, m_socket, ownerVars, peer, outbox, unresolved>>

\* ::recv has nothing more to read: the connection has ended on one side, or
\* there never was one.
Ended == m_socket # "open" \/ (inbox = <<>> /\ peer # "open")

\* ::recv of the header returns 0: the loop goes round, the status is
\* connected as before.
RecvNothing ==
  /\ pc = "header"
  /\ Ended
  /\ pc' = "loop"
  /\ UNCHANGED <<m_status, m_socket, ownerVars, incoming, netVars, unresolved>>

\* It returns -1, which counts as success: the size g is whatever the memory
\* of _header holds.  The body is resized to it, which may throw bad_alloc,
\* and ::recv of the body fails too.
RecvGarbage(g) ==
  /\ pc = "header"
  /\ Ended
  /\ pc' = IF g = "huge" THEN "crashed" ELSE "loop"
  /\ UNCHANGED <<m_status, m_socket, ownerVars, incoming, netVars, unresolved>>

RecvBody ==
  /\ pc = "body"
  /\ m_socket = "open"
  /\ peer # "reset"
  /\ pc' = "dispatch"
  /\ UNCHANGED <<m_status, m_socket, ownerVars, incoming, netVars, unresolved>>

\* ::recv of the body fails, or returns 0 and a body of zeros is dispatched,
\* which does not parse.
RecvBodyLost ==
  /\ pc = "body"
  /\ m_socket # "open" \/ peer = "reset"
  /\ incoming' = None
  /\ pc' = "loop"
  /\ UNCHANGED <<m_status, m_socket, ownerVars, netVars, unresolved>>

\* dispatch() returns.
Dispatched ==
  /\ pc = "dispatch"
  /\ incoming' = None
  /\ pc' = "loop"
  /\ UNCHANGED <<m_status, m_socket, ownerVars, netVars, unresolved>>

-----------------------------------------------------------------------------
(* The server at the other end.                                             *)

ServerSend(p) ==
  /\ Alive
  /\ peer = "open"
  /\ m_socket = "open"
  /\ Len(inbox) < Window
  /\ inbox' = Append(inbox, p)
  /\ UNCHANGED <<m_status, m_socket, ownerVars, handlerVars, peer, outbox,
                 unresolved>>

ServerRead ==
  /\ Alive
  /\ peer = "open"
  /\ outbox # <<>>
  /\ outbox' = Tail(outbox)
  /\ UNCHANGED <<m_status, m_socket, ownerVars, handlerVars, peer, inbox,
                 unresolved>>

ServerClose ==
  /\ Alive
  /\ peer = "open"
  /\ peer' = "closed"
  /\ outbox' = <<>>
  /\ UNCHANGED <<m_status, m_socket, ownerVars, handlerVars, inbox, unresolved>>

ServerReset ==
  /\ Alive
  /\ peer \in {"open", "closed"}
  /\ peer' = "reset"
  /\ inbox' = <<>>
  /\ outbox' = <<>>
  /\ UNCHANGED <<m_status, m_socket, ownerVars, handlerVars, unresolved>>

-----------------------------------------------------------------------------
\* The steps of disconnect() after ::shutdown.
Disconnecting == CloseSocket \/ Disconnected \/ Join

Owner ==
  \/ \E e \in ConnectError : ConnectFails(e)
  \/ \E found \in Resolve : Connected(found)
  \/ \E r \in Request : SendBegin(r)
  \/ SendOk
  \/ SendFails
  \/ \E d \in BOOLEAN : Shutdown(d)
  \/ Disconnecting
  \/ Destroy

\* The handler thread outside dispatch().
Receive ==
  \/ Loop
  \/ RecvHeader
  \/ RecvNothing
  \/ \E g \in Garbage : RecvGarbage(g)
  \/ RecvBody
  \/ RecvBodyLost

Server ==
  \/ \E p \in Packet : ServerSend(p)
  \/ ServerRead
  \/ ServerClose
  \/ ServerReset

ClientNext == Owner \/ Receive \/ Dispatched \/ Server

ClientSpec == ClientInit /\ [][ClientNext]_vars

-----------------------------------------------------------------------------
(* Properties.                                                              *)

OwnerPc   == {"idle", "send", "close", "status", "join", "gone"}
ThreadPc  == {"none", "loop", "header", "body", "dispatch", "done", "crashed"}

\* The type invariant.
ClientTypeOK ==
  /\ m_status \in {"connected", "disconnected"} \cup ConnectError
  /\ m_socket \in {"none", "fresh", "open", "shut", "closed"}
  /\ owner \in OwnerPc
  /\ sending \in Request \cup {None}
  /\ destroying \in BOOLEAN
  /\ pc \in ThreadPc
  /\ incoming \in Packet \cup {None}
  /\ peer \in {"none", "open", "closed", "reset"}
  /\ inbox \in Seq(Packet)
  /\ outbox \in Seq(Request)
  /\ unresolved \in BOOLEAN

\* connect() assigns to m_handler_thread, which ends the process if the thread
\* it holds was not joined, and disconnect() joins it: a handler thread exists
\* exactly while the client is connected, through every sequence of calls, and
\* none is left when the client is destroyed.
ThreadOwned ==
  /\ owner \in {"idle", "send"} => (pc # "none" <=> m_status = "connected")
  /\ owner \in {"close", "status", "join"} => pc # "none"
  /\ owner = "gone" => pc = "none"

\* A handler thread keeps the socket it was started on: a socket is created
\* only when no thread reads m_socket.
SocketNotReplaced ==
  [][m_socket' \in {"fresh", "open"} /\ m_socket' # m_socket => pc = "none"]_vars

\* While the status is connected and nobody disconnects, the handler thread
\* reads a socket that is connected, unless the server's name did not resolve.
ConnectedSocket ==
  m_status = "connected" /\ owner \in {"idle", "send"} =>
    m_socket = "open" \/ unresolved
=============================================================================
