------------------------------ MODULE TcpServer ------------------------------
(***************************************************************************)
(* gologin::tcp::server and gologin::tcp::server_client                    *)
(* (src/tcp/server/server.cpp, src/tcp/core/core.cpp), Windows build.      *)
(*                                                                         *)
(* Threads: the owner (the thread that calls start, stop and ~server), the *)
(* accept thread (handler_thread_routine) and one handler thread per       *)
(* accepted connection (client_handler).  A connection c \in Conn stands   *)
(* for the TCP connection, for its handler thread and for its              *)
(* server_client object.  Socket handles are values the system re-issues   *)
(* once they are closed: os_socket[h] is the connection behind handle h.   *)
(*                                                                         *)
(* m_client_list_mutex: emplace and erase are single steps under the       *)
(* exclusive lock, so the lock is the guard NoReader; send_to holds it     *)
(* shared from SendTo to SysSend.  m_client_handler_mutex is held by the   *)
(* owner while owner_pc = "join_clients".                                  *)
(***************************************************************************)
EXTENDS Naturals, Sequences

CONSTANTS
  Conn,    \* the TCP connections peers may open
  Handle,  \* the socket handles the system can issue
  Packet,  \* packets: header and body, read and written as a whole
  None,    \* INVALID_SOCKET, no map entry, no pending operation
  KeepAlive, \* what set_keep_alive may return: a subset of BOOLEAN
  NoBody,  \* whether a peer may send a header of size 0: create_packet, on the
           \* clients of this repository, does not
  MaxIn,   \* bound: packets a peer has on their way to the server
  Window   \* packets a peer's receive window holds before send() blocks

ASSUME NoneAssumption == None \notin Conn \cup Handle \cup Packet
ASSUME KeepAliveAssumption == KeepAlive \subseteq BOOLEAN
ASSUME NoBodyAssumption == NoBody \in BOOLEAN
ASSUME BoundAssumption == MaxIn \in Nat \ {0} /\ Window \in Nat \ {0}

VARIABLES
  m_status,                  \* server::m_status
  m_server_socket,           \* "none", "open" (not listening), "listening"
  m_client_handler_threads,  \* connections whose std::thread is in the list
  m_client_list,             \* [Handle -> Conn or None], keyed by client id
  owner_pc,                  \* where the owner is in start() or stop()
  restart,                   \* stop() was called by start()
  accept_pc,                 \* where the accept thread is
  accepted,                  \* its local: the connection just accepted
  pc,                        \* where the handler of each connection is
  client_id,                 \* _client_id: the handle accept returned
  m_socket,                  \* client_base::m_socket
  request,                   \* _header, _data: the packet being dispatched
  sendop,                    \* the send_to in progress in each handler
  os_socket,                 \* [Handle -> Conn or None], the handle table
  peer,                      \* the remote end of each connection
  inbox,                     \* packets from the peer, not yet read
  outbox,                    \* packets to the peer, with their addressee
  ka_failed,                 \* history: set_keep_alive failed, socket closed
  collided                   \* history: emplace found the key taken

serverVars  == <<m_status, m_server_socket, m_client_handler_threads>>
ownerVars   == <<owner_pc, restart>>
acceptVars  == <<accept_pc, accepted>>
mainVars    == <<serverVars, ownerVars, acceptVars>>
localVars   == <<client_id, m_socket, request, sendop>>
handlerVars == <<pc, localVars>>
peerVars    == <<peer, inbox, outbox>>
netVars     == <<os_socket, peerVars>>
histVars    == <<ka_failed, collided>>
clientVars  == <<m_client_list, handlerVars, netVars, histVars>>
vars == <<mainVars, clientVars>>

StartError == {"init_error", "bind_error", "listening_error"}
Status     == {"up", "close"} \cup StartError

\* The handler thread runs and owns a shared_ptr to its server_client.
Live    == {"start", "loop", "recv", "dispatch", "sending", "replying",
            "invalidate", "erase", "exit"}
\* Between emplace and erase in client_handler.
Serving == {"loop", "recv", "dispatch", "sending", "replying", "invalidate",
            "erase"}
\* Once recv() has failed.
Departed == {"invalidate", "erase", "exit", "done"}
HandlerPc == Live \cup {"absent", "backlog", "refused", "accepted", "leaked",
                        "done"}

\* A packet on its way to a peer: the client it was sent to, what is sent.
Delivery == [to : Conn, pkt : Packet]
SendOp == [to : Conn, sock : Handle \cup {None}, pkt : Packet]

Init ==
  /\ m_status = "close"
  /\ m_server_socket = "none"
  /\ m_client_handler_threads = {}
  /\ m_client_list = [h \in Handle |-> None]
  /\ owner_pc = "idle"
  /\ restart = FALSE
  /\ accept_pc = "off"
  /\ accepted = None
  /\ pc = [c \in Conn |-> "absent"]
  /\ client_id = [c \in Conn |-> None]
  /\ m_socket = [c \in Conn |-> None]
  /\ request = [c \in Conn |-> None]
  /\ sendop = [c \in Conn |-> None]
  /\ os_socket = [h \in Handle |-> None]
  /\ peer = [c \in Conn |-> "none"]
  /\ inbox = [c \in Conn |-> <<>>]
  /\ outbox = [c \in Conn |-> <<>>]
  /\ ka_failed = {}
  /\ collided = {}

\* The handle table after closesocket on the handles hs.
Closed(hs) == [h \in Handle |-> IF h \in hs THEN None ELSE os_socket[h]]

\* The connection behind the value s of an m_socket.
At(s) == IF s = None THEN None ELSE os_socket[s]

Listed(c) == \E h \in Handle : m_client_list[h] = c

\* No thread holds m_client_list_mutex: the exclusive lock can be taken.
NoReader == \A c \in Conn : pc[c] # "sending"

GoTo(c, to) == pc' = [pc EXCEPT ![c] = to]

-----------------------------------------------------------------------------
(* The owner: start(), stop(), ~server().                                  *)

\* start() with the server not up, or its remainder after stop().
CanStart == owner_pc = "starting" \/ (owner_pc = "idle" /\ m_status # "up")

StartUp ==
  /\ CanStart
  /\ m_status' = "up"
  /\ m_server_socket' = "listening"
  /\ accept_pc' = "loop"
  /\ owner_pc' = "idle"
  /\ UNCHANGED <<m_client_handler_threads, restart, accepted, clientVars>>

\* socket, bind or listen fails; the socket of a failed bind or listen stays.
StartFails(e) ==
  /\ CanStart
  /\ m_status' = e
  /\ m_server_socket' = IF e = "init_error" THEN "none" ELSE "open"
  /\ owner_pc' = "idle"
  /\ UNCHANGED <<m_client_handler_threads, restart, acceptVars, clientVars>>

\* stop() from ~server (again = FALSE) or from start() on a running server.
Stop(again) ==
  /\ owner_pc = "idle"
  /\ m_status = "up"
  /\ m_status' = "close"
  /\ owner_pc' = "close_listener"
  /\ restart' = again
  /\ UNCHANGED <<m_server_socket, m_client_handler_threads, acceptVars,
                 clientVars>>

\* MUTANT of CloseListener: stop() does not close the listening socket.
CloseListenerNot ==
  /\ owner_pc = "close_listener"
  /\ owner_pc' = "join_accept"
  /\ UNCHANGED <<serverVars, restart, acceptVars, clientVars>>

\* closesocket on the listening socket refuses what is still in its backlog.
CloseListener ==
  /\ owner_pc = "close_listener"
  /\ m_server_socket' = "none"
  /\ pc' = [c \in Conn |-> IF pc[c] = "backlog" THEN "refused" ELSE pc[c]]
  /\ owner_pc' = "join_accept"
  /\ UNCHANGED <<m_status, m_client_handler_threads, restart, acceptVars,
                 m_client_list, localVars, netVars, histVars>>

JoinAccept ==
  /\ owner_pc = "join_accept"
  /\ accept_pc = "done"
  /\ accept_pc' = "off"
  /\ owner_pc' = "join_clients"
  /\ UNCHANGED <<serverVars, restart, accepted, clientVars>>

\* MUTANT of JoinClients: the handler threads are detached, not joined.
DetachClients ==
  /\ owner_pc = "join_clients"
  /\ owner_pc' = "clear"
  /\ UNCHANGED <<serverVars, restart, acceptVars, clientVars>>

JoinClients ==
  /\ owner_pc = "join_clients"
  /\ \A c \in m_client_handler_threads : pc[c] = "done"
  /\ owner_pc' = "clear"
  /\ UNCHANGED <<serverVars, restart, acceptVars, clientVars>>

\* Both lists are cleared without a lock; ~server_client closes each socket
\* that was still listed.
Clear ==
  /\ owner_pc = "clear"
  /\ m_client_handler_threads' = {}
  /\ m_client_list' = [h \in Handle |-> None]
  /\ os_socket' = Closed({m_socket[c] : c \in {d \in Conn : Listed(d)}})
  /\ m_socket' = [c \in Conn |-> IF Listed(c) THEN None ELSE m_socket[c]]
  /\ owner_pc' = IF restart THEN "starting" ELSE "idle"
  /\ restart' = FALSE
  /\ UNCHANGED <<m_status, m_server_socket, acceptVars, pc, client_id, request,
                 sendop, peerVars, histVars>>

-----------------------------------------------------------------------------
(* The accept thread: handler_thread_routine().                            *)

AcceptLoop ==
  /\ accept_pc = "loop"
  /\ accept_pc' = IF m_status = "up" THEN "accept" ELSE "done"
  /\ UNCHANGED <<serverVars, ownerVars, accepted, clientVars>>

\* accept() returns a connection behind some free handle.
Accept(c, h) ==
  /\ accept_pc = "accept"
  /\ m_server_socket = "listening"
  /\ pc[c] = "backlog"
  /\ os_socket[h] = None
  /\ os_socket' = [os_socket EXCEPT ![h] = c]
  /\ client_id' = [client_id EXCEPT ![c] = h]
  /\ accepted' = c
  /\ accept_pc' = "admit"
  /\ GoTo(c, "accepted")
  /\ UNCHANGED <<serverVars, ownerVars, m_client_list, m_socket, request,
                 sendop, peerVars, histVars>>

\* accept() returns INVALID_SOCKET once the listening socket is closed.
AcceptInvalid ==
  /\ accept_pc = "accept"
  /\ m_server_socket # "listening"
  /\ accept_pc' = "loop"
  /\ UNCHANGED <<serverVars, ownerVars, accepted, clientVars>>

\* The server left "up" after accept() returned: the socket is dropped open.
AdmitNot ==
  /\ accept_pc = "admit"
  /\ m_status # "up"
  /\ GoTo(accepted, "leaked")
  /\ accepted' = None
  /\ accept_pc' = "loop"
  /\ UNCHANGED <<serverVars, ownerVars, m_client_list, localVars, netVars,
                 histVars>>

Admit ==
  /\ accept_pc = "admit"
  /\ m_status = "up"
  /\ accept_pc' = "keep_alive"
  /\ UNCHANGED <<serverVars, ownerVars, accepted, clientVars>>

\* set_keep_alive, then the handler thread; a failed set_keep_alive closes
\* the socket and the handler thread is started all the same.
Spawn(alive) ==
  /\ accept_pc = "keep_alive"
  /\ owner_pc # "join_clients"
  /\ os_socket' = IF alive THEN os_socket ELSE Closed({client_id[accepted]})
  /\ ka_failed' = IF alive THEN ka_failed ELSE ka_failed \cup {accepted}
  /\ m_client_handler_threads' = m_client_handler_threads \cup {accepted}
  /\ GoTo(accepted, "start")
  /\ accepted' = None
  /\ accept_pc' = "loop"
  /\ UNCHANGED <<m_status, m_server_socket, ownerVars, m_client_list,
                 localVars, peerVars, collided>>

-----------------------------------------------------------------------------
(* A handler thread: client_handler().                                     *)

\* MUTANT of Register: the condition of server::handle, which inserts only
\* over an entry that is there.
RegisterIfPresent(c) ==
  LET h == client_id[c] IN
  /\ pc[c] = "start"
  /\ NoReader
  /\ m_socket' = [m_socket EXCEPT ![c] = h]
  /\ m_client_list' = [m_client_list EXCEPT ![h] = IF @ = None THEN @ ELSE c]
  /\ GoTo(c, "loop")
  /\ UNCHANGED <<mainVars, client_id, request, sendop, netVars, histVars>>

\* server_client's constructor, then emplace, which keeps an existing entry.
Register(c) ==
  LET h == client_id[c] IN
  /\ pc[c] = "start"
  /\ NoReader
  /\ m_socket' = [m_socket EXCEPT ![c] = h]
  /\ m_client_list' = [m_client_list EXCEPT ![h] = IF @ = None THEN c ELSE @]
  /\ collided' = IF m_client_list[h] = None THEN collided ELSE collided \cup {c}
  /\ GoTo(c, "loop")
  /\ UNCHANGED <<mainVars, client_id, request, sendop, netVars, ka_failed>>

Loop(c) ==
  /\ pc[c] = "loop"
  /\ GoTo(c, IF m_status = "up" THEN "recv" ELSE "exit")
  /\ UNCHANGED <<mainVars, m_client_list, localVars, netVars, histVars>>

\* The connection whose stream recv() on c's socket reads, None if closed.
Behind(c) == At(m_socket[c])

RecvPacket(c) ==
  LET d == Behind(c) IN
  /\ pc[c] = "recv"
  /\ d # None
  /\ inbox[d] # <<>>
  /\ request' = [request EXCEPT ![c] = Head(inbox[d])]
  /\ inbox' = [inbox EXCEPT ![d] = Tail(@)]
  /\ GoTo(c, "dispatch")
  /\ UNCHANGED <<mainVars, m_client_list, client_id, m_socket, sendop,
                 os_socket, peer, outbox, histVars>>

\* recv() of the header returns 0 or a connection error: disconnect() closes
\* the socket ...
RecvDisconnect(c) ==
  LET d == Behind(c) IN
  /\ pc[c] = "recv"
  /\ d # None
  /\ inbox[d] = <<>>
  /\ peer[d] = "closed"
  /\ os_socket' = Closed({m_socket[c]})
  /\ GoTo(c, "invalidate")
  /\ UNCHANGED <<mainVars, m_client_list, localVars, peerVars, histVars>>

\* MUTANT of Invalidate: m_socket keeps the closed handle.
InvalidateNot(c) ==
  /\ pc[c] = "invalidate"
  /\ GoTo(c, "erase")
  /\ UNCHANGED <<mainVars, m_client_list, localVars, netVars, histVars>>

\* ... and then forgets it.
Invalidate(c) ==
  /\ pc[c] = "invalidate"
  /\ m_socket' = [m_socket EXCEPT ![c] = None]
  /\ GoTo(c, "erase")
  /\ UNCHANGED <<mainVars, m_client_list, client_id, request, sendop, netVars,
                 histVars>>

\* recv() fails on a handle that is not a socket; so does ioctlsocket, and
\* the function returns before disconnect().
RecvNotSocket(c) ==
  /\ pc[c] = "recv"
  /\ Behind(c) = None
  /\ GoTo(c, "erase")
  /\ UNCHANGED <<mainVars, m_client_list, localVars, netVars, histVars>>

\* The packet turns out to have no body: recv() returns false for a header of
\* size 0, without disconnect(), and the handler leaves a peer that is there.
RecvNoSize(c) ==
  LET d == Behind(c) IN
  /\ pc[c] = "recv"
  /\ d # None
  /\ NoBody
  /\ inbox[d] # <<>>
  /\ inbox' = [inbox EXCEPT ![d] = Tail(@)]
  /\ GoTo(c, "erase")
  /\ UNCHANGED <<mainVars, m_client_list, localVars, os_socket, peer, outbox, histVars>>

\* The connection is reset between header and body: recv() of the body fails
\* and the function returns false without disconnect().
RecvBodyReset(c) ==
  LET d == Behind(c) IN
  /\ pc[c] = "recv"
  /\ d # None
  /\ peer[d] = "open"
  /\ inbox[d] # <<>>
  /\ peer' = [peer EXCEPT ![d] = "closed"]
  /\ inbox' = [inbox EXCEPT ![d] = <<>>]
  /\ outbox' = [outbox EXCEPT ![d] = <<>>]
  /\ GoTo(c, "erase")
  /\ UNCHANGED <<mainVars, m_client_list, localVars, os_socket, histVars>>

\* The entry under the client's id goes, whosever it is; its server_client
\* is destroyed, and its socket closed, if no handler thread holds it.
Erase(c) ==
  LET h == client_id[c]
      e == m_client_list[h]
      orphan == e # None /\ pc[e] \notin Live
  IN
  /\ pc[c] = "erase"
  /\ NoReader
  /\ m_client_list' = [m_client_list EXCEPT ![h] = None]
  /\ os_socket' = IF orphan THEN Closed({m_socket[e]}) ELSE os_socket
  /\ m_socket' = IF orphan THEN [m_socket EXCEPT ![e] = None] ELSE m_socket
  /\ GoTo(c, "exit")
  /\ UNCHANGED <<mainVars, client_id, request, sendop, peerVars, histVars>>

\* The thread's shared_ptr goes; ~server_client runs unless c is still listed.
Exit(c) ==
  /\ pc[c] = "exit"
  /\ os_socket' = IF Listed(c) THEN os_socket ELSE Closed({m_socket[c]})
  /\ m_socket' = IF Listed(c) THEN m_socket ELSE [m_socket EXCEPT ![c] = None]
  /\ GoTo(c, "done")
  /\ UNCHANGED <<mainVars, m_client_list, client_id, request, sendop, peerVars,
                 histVars>>

-----------------------------------------------------------------------------
(* packet_handler(): what dispatching a packet may do to the server.       *)

\* send_to finds the addressee under the shared lock and reads its m_socket.
SendTo(c, h, p) ==
  LET t == m_client_list[h] IN
  /\ pc[c] = "dispatch"
  /\ t # None
  /\ sendop' = [sendop EXCEPT ![c] = [to |-> t, sock |-> m_socket[t], pkt |-> p]]
  /\ GoTo(c, "sending")
  /\ UNCHANGED <<mainVars, m_client_list, client_id, m_socket, request,
                 netVars, histVars>>

\* The outboxes after ::send of p, addressed to t, on handle s.
Sent(s, t, p) ==
  LET d == At(s) IN
  IF d # None /\ peer[d] = "open"
  THEN [outbox EXCEPT ![d] = Append(@, [to |-> t, pkt |-> p])]
  ELSE outbox

\* ::send on handle s returns: it blocks while the receive window is full.
CanSend(s) ==
  LET d == At(s) IN d # None /\ peer[d] = "open" => Len(outbox[d]) < Window

\* MUTANT of SysSend: send_to sends on the socket of the thread that calls it.
SysSendOwn(c) ==
  LET op == sendop[c] IN
  /\ pc[c] \in {"sending", "replying"}
  /\ CanSend(m_socket[c])
  /\ outbox' = Sent(m_socket[c], op.to, op.pkt)
  /\ sendop' = [sendop EXCEPT ![c] = None]
  /\ GoTo(c, IF pc[c] = "sending" THEN "dispatch" ELSE "loop")
  /\ UNCHANGED <<mainVars, m_client_list, client_id, m_socket, request,
                 os_socket, peer, inbox, histVars>>

\* MUTANT of SysSend: the packet stays queued after it was sent.
SysSendKeeps(c) ==
  LET op == sendop[c] IN
  /\ pc[c] \in {"sending", "replying"}
  /\ CanSend(op.sock)
  /\ outbox' = Sent(op.sock, op.to, op.pkt)
  /\ GoTo(c, IF pc[c] = "sending" THEN "dispatch" ELSE "loop")
  /\ UNCHANGED <<mainVars, m_client_list, localVars, os_socket, peer, inbox,
                 histVars>>

SysSend(c) ==
  LET op == sendop[c] IN
  /\ pc[c] \in {"sending", "replying"}
  /\ CanSend(op.sock)
  /\ outbox' = Sent(op.sock, op.to, op.pkt)
  /\ sendop' = [sendop EXCEPT ![c] = None]
  /\ GoTo(c, IF pc[c] = "sending" THEN "dispatch" ELSE "loop")
  /\ UNCHANGED <<mainVars, m_client_list, client_id, m_socket, request,
                 os_socket, peer, inbox, histVars>>

\* dispatch() returned the answer p: _client.send, without a lock.
Reply(c, p) ==
  /\ pc[c] = "dispatch"
  /\ sendop' = [sendop EXCEPT ![c] = [to |-> c, sock |-> m_socket[c], pkt |-> p]]
  /\ request' = [request EXCEPT ![c] = None]
  /\ GoTo(c, "replying")
  /\ UNCHANGED <<mainVars, m_client_list, client_id, m_socket, netVars,
                 histVars>>

\* The handler left _out empty: client_base::send returns at once.
NoReply(c) ==
  /\ pc[c] = "dispatch"
  /\ request' = [request EXCEPT ![c] = None]
  /\ GoTo(c, "loop")
  /\ UNCHANGED <<mainVars, m_client_list, client_id, m_socket, sendop, netVars,
                 histVars>>

-----------------------------------------------------------------------------
(* The peers.                                                              *)

\* The server has not closed its end of c.
Connected(c) ==
  /\ peer[c] = "open"
  /\ pc[c] = "backlog" \/ \E h \in Handle : os_socket[h] = c

PeerConnect(c) ==
  /\ m_server_socket = "listening"
  /\ pc[c] = "absent"
  /\ peer' = [peer EXCEPT ![c] = "open"]
  /\ GoTo(c, "backlog")
  /\ UNCHANGED <<mainVars, m_client_list, localVars, os_socket, inbox, outbox,
                 histVars>>

PeerSend(c, p) ==
  /\ Connected(c)
  /\ Len(inbox[c]) < MaxIn
  /\ inbox' = [inbox EXCEPT ![c] = Append(@, p)]
  /\ UNCHANGED <<mainVars, m_client_list, handlerVars, os_socket, peer, outbox,
                 histVars>>

PeerRead(c) ==
  /\ peer[c] = "open"
  /\ outbox[c] # <<>>
  /\ outbox' = [outbox EXCEPT ![c] = Tail(@)]
  /\ UNCHANGED <<mainVars, m_client_list, handlerVars, os_socket, peer, inbox,
                 histVars>>

PeerClose(c) ==
  /\ Connected(c)
  /\ peer' = [peer EXCEPT ![c] = "closed"]
  /\ outbox' = [outbox EXCEPT ![c] = <<>>]
  /\ UNCHANGED <<mainVars, m_client_list, handlerVars, os_socket, inbox,
                 histVars>>

\* The peer resets the connection or the keep-alive probes time out.
PeerReset(c) ==
  /\ Connected(c)
  /\ peer' = [peer EXCEPT ![c] = "closed"]
  /\ inbox' = [inbox EXCEPT ![c] = <<>>]
  /\ outbox' = [outbox EXCEPT ![c] = <<>>]
  /\ UNCHANGED <<mainVars, m_client_list, handlerVars, os_socket, histVars>>

-----------------------------------------------------------------------------
Owner ==
  \/ StartUp
  \/ \E e \in StartError : StartFails(e)
  \/ \E again \in BOOLEAN : Stop(again)
  \/ CloseListener
  \/ JoinAccept
  \/ JoinClients
  \/ Clear

AcceptThread ==
  \/ AcceptLoop
  \/ \E c \in Conn, h \in Handle : Accept(c, h)
  \/ AcceptInvalid
  \/ AdmitNot
  \/ Admit
  \/ \E alive \in KeepAlive : Spawn(alive)

\* The steps of a handler thread outside packet_handler.
Serve(c) ==
  \/ Register(c)
  \/ Loop(c)
  \/ RecvPacket(c)
  \/ RecvDisconnect(c)
  \/ Invalidate(c)
  \/ RecvNotSocket(c)
  \/ RecvBodyReset(c)
  \/ RecvNoSize(c)
  \/ Erase(c)
  \/ Exit(c)

\* dispatch() returns.
Answer(c) == NoReply(c) \/ \E p \in Packet : Reply(c, p)

Dispatch(c) ==
  \/ \E h \in Handle, p \in Packet : SendTo(c, h, p)
  \/ SysSend(c)
  \/ Answer(c)

Peer(c) ==
  \/ PeerConnect(c)
  \/ \E p \in Packet : PeerSend(c, p)
  \/ PeerRead(c)
  \/ PeerClose(c)
  \/ PeerReset(c)

Next ==
  \/ Owner
  \/ AcceptThread
  \/ \E c \in Conn : Serve(c) \/ Dispatch(c) \/ Peer(c)

Spec == Init /\ [][Next]_vars

\* Every thread keeps running; a handler's dispatch() makes finitely many
\* send_to calls; every peer closes its connection some day.
StopStep == CloseListener \/ JoinAccept \/ JoinClients \/ Clear

ThreadFairness ==
  /\ WF_vars(StopStep)
  /\ WF_vars(AcceptThread)
  /\ \A c \in Conn :
       /\ WF_vars(Serve(c))
       /\ WF_vars(SysSend(c))
       /\ SF_vars(Answer(c))

PeerFairness == \A c \in Conn : WF_vars(PeerClose(c))

ThreadFairSpec == Spec /\ ThreadFairness
FairSpec == ThreadFairSpec /\ PeerFairness

-----------------------------------------------------------------------------
(* Properties.                                                             *)

OwnerPc  == {"idle", "starting", "close_listener", "join_accept",
             "join_clients", "clear"}
AcceptPc == {"off", "loop", "accept", "admit", "keep_alive", "done"}

MainTypeOK ==
  /\ m_status \in Status
  /\ m_server_socket \in {"none", "open", "listening"}
  /\ m_client_handler_threads \subseteq Conn
  /\ owner_pc \in OwnerPc
  /\ restart \in BOOLEAN
  /\ accept_pc \in AcceptPc
  /\ accepted \in Conn \cup {None}
  /\ (accept_pc \in {"admit", "keep_alive"}) <=> (accepted # None)

HandlerTypeOK ==
  /\ m_client_list \in [Handle -> Conn \cup {None}]
  /\ pc \in [Conn -> HandlerPc]
  /\ client_id \in [Conn -> Handle \cup {None}]
  /\ \A c \in Conn :
       (client_id[c] = None) <=> (pc[c] \in {"absent", "backlog", "refused"})
  /\ m_socket \in [Conn -> Handle \cup {None}]
  /\ request \in [Conn -> Packet \cup {None}]
  /\ sendop \in [Conn -> SendOp \cup {None}]
  /\ \A c \in Conn : IF pc[c] \in {"sending", "replying"}
                      THEN sendop[c] \in SendOp ELSE sendop[c] = None

NetTypeOK ==
  /\ os_socket \in [Handle -> Conn \cup {None}]
  /\ peer \in [Conn -> {"none", "open", "closed"}]
  /\ inbox \in [Conn -> Seq(Packet)]
  /\ outbox \in [Conn -> Seq(Delivery)]
  /\ ka_failed \subseteq Conn
  /\ collided \subseteq Conn

\* The type invariant; the threads' locals are set where their pc says so.
TypeOK == MainTypeOK /\ HandlerTypeOK /\ NetTypeOK

\* client_base::m_socket is a raw handle that disconnect(), ~server_client and
\* send() use unchecked.  As long as no set_keep_alive failed, the handle a
\* server_client holds is its own connection's, although handles are
\* re-issued as soon as they are closed; the one exception is the moment
\* between closesocket and the assignment after it in disconnect().
SocketOwned ==
  ka_failed = {} =>
    \A c \in Conn :
      m_socket[c] # None /\ pc[c] # "invalidate" => os_socket[m_socket[c]] = c

\* A connection being served is in m_client_list under its id, so that send_to
\* reaches it, unless emplace met an entry left by an earlier connection with
\* the same handle (disconnect() frees the handle before client_handler
\* erases the entry).
ServingIsListed ==
  \A c \in Conn :
    pc[c] \in Serving =>
      \/ m_client_list[client_id[c]] = c
      \/ \E d \in collided : client_id[d] = client_id[c]

\* When stop() has returned no handler thread runs, both lists are empty and
\* every client socket is closed, but for one that accept() returned after
\* the status had changed.
StopClean ==
  owner_pc \in {"idle", "starting"} /\ m_status # "up" =>
    /\ accept_pc = "off"
    /\ m_client_handler_threads = {}
    /\ \A h \in Handle : m_client_list[h] = None
    /\ \A c \in Conn : pc[c] \notin Live
    /\ \A h \in Handle : os_socket[h] # None => pc[os_socket[h]] = "leaked"

\* send() reads m_socket without a lock that disconnect() takes, so a packet
\* can end on a connection it was not sent to: only on one that got the
\* handle of the addressee, and only when the addressee has disconnected.
StrayOnlyFromDeparted ==
  ka_failed = {} =>
    \A d \in Conn : \A i \in DOMAIN outbox[d] :
      LET t == outbox[d][i].to IN
      t # d => client_id[t] = client_id[d] /\ pc[t] \in Departed

\* stop() returns: the accept thread and every handler end.
StopTerminates ==
  owner_pc = "close_listener" ~> owner_pc \in {"idle", "starting"}

\* server.cpp:40, "Read data length in non-blocking mode": recv() of a header
\* returns whatever the peer does.
RecvReturns == \A c \in Conn : pc[c] = "recv" ~> pc[c] # "recv"
=============================================================================
