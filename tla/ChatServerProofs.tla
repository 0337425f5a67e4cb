--------------------------- MODULE ChatServerProofs ---------------------------
(***************************************************************************)
(* The server application is one of the users TcpServer allows, so what is  *)
(* proved of TcpServer holds of it; and a message reaches the registered    *)
(* clients, for any number of them, of handles, sessions and requests.      *)
(***************************************************************************)
EXTENDS ChatServer, TcpServerProofs

\* Where the handler of a message is decides where its thread is.
AtWork ==
  \A c \in Conn :
    /\ h_pc[c] # "enter" => pc[c] \in {"dispatch", "sending"}
    /\ h_pc[c] = "snapshot" => pc[c] = "dispatch"
    /\ pc[c] = "sending" => h_pc[c] = "relay"

\* The requests of a client carry its own id.
RequestOf(c) == {r \in Request : r.id = IdOf[c]}

\* Clients send such requests, and one of them is dispatched: its own client's,
\* unless a failed set_keep_alive gave the thread another's socket.
RequestOK ==
  /\ \A c \in Conn : inbox[c] \in Seq(RequestOf(c))
  /\ \A c \in Conn :
       pc[c] \in {"dispatch", "sending"} =>
         request[c] \in Request /\ (ka_failed = {} => request[c].id = IdOf[c])

\* The types of what the application adds to the TCP server.
BookOK ==
  /\ DOMAIN m_clients \subseteq ClientId
  /\ \A id \in DOMAIN m_clients : m_clients[id] \in AuthClient
  /\ issued \subseteq Session
  /\ h_pc \in [Conn -> {"enter", "snapshot", "relay"}]
  /\ todo \in [Conn -> SUBSET AuthClient]
  /\ snap \in [Conn -> SUBSET AuthClient]
  /\ got \in [Conn -> SUBSET Conn]
  /\ logins \in 0 .. MaxLogin

UserInv == IInv /\ AtWork /\ RequestOK /\ BookOK

-----------------------------------------------------------------------------
(* What the packet handlers send is a packet of the protocol.               *)

\* A request's packets: its own kind and the answers to it.
LEMMA Answers ==
  ASSUME NEW r \in Request, NEW b \in BOOLEAN
  PROVE  /\ [cmd |-> "hello", id |-> r.id] \in Packet
         /\ \A cmd \in {"logout", "ping_reply"} :
              [cmd |-> cmd, id |-> r.id, status |-> IfOk(b)] \in Packet
         /\ \A s \in Session \cup {None} :
              [cmd |-> "login", id |-> r.id, status |-> IfOk(b), session |-> s] \in Packet
<1>1. r.id \in ClientId /\ IfOk(b) \in Outcome
  BY DEF Request, IfOk, Outcome
<1> QED
  BY <1>1, PacketAssumption DEF HelloAnswer, StatusAnswer, LoginAnswer

\* The answer to a message, and a message relayed.
LEMMA Messages ==
  ASSUME NEW r \in Request
  PROVE  /\ \A status \in Outcome :
              [cmd |-> "message_reply", id |-> r.id, status |-> status,
               client_id |-> CharOf(r.id)] \in Packet
         /\ \A e \in AuthClient :
              [cmd |-> "message", id |-> e.id, session |-> e.session,
               body |-> r.id] \in Packet
<1>1. r.id \in ClientId /\ CharOf(r.id) \in {id % 256 : id \in ClientId}
  BY DEF Request, CharOf
<1>2. \A status \in Outcome :
        [cmd |-> "message_reply", id |-> r.id, status |-> status,
         client_id |-> CharOf(r.id)] \in MessageAnswer
  BY <1>1 DEF MessageAnswer
<1>3. \A e \in AuthClient :
        [cmd |-> "message", id |-> e.id, session |-> e.session,
         body |-> r.id] \in Relay
  BY <1>1 DEF Relay, AuthClient
<1> QED
  BY <1>2, <1>3, PacketAssumption

-----------------------------------------------------------------------------
(* Every step of the application is a step of the TCP server.               *)

\* What a packet handler's step is for the TCP server.
LEMMA HandlerRefines ==
  ASSUME UserInv, NEW c \in Conn, Handler(c)
  PROVE  Dispatch(c) \/ UNCHANGED vars
<1> USE DEF UserInv
<1> DEFINE r == request[c]
<1>1. CASE client_hello_packet_handler(c)
  <2>1. r \in Request
    BY <1>1 DEF client_hello_packet_handler, Handles, RequestOK
  <2> QED
    BY <1>1, <2>1, Answers DEF client_hello_packet_handler, Dispatch, Answer
<1>2. CASE client_ping_packet_handler(c)
  <2>1. r \in Request
    BY <1>2 DEF client_ping_packet_handler, Handles, RequestOK
  <2>2. (status_client(r.id) = "accepted") \in BOOLEAN
    OBVIOUS
  <2> QED
    BY <1>2, <2>1, <2>2, Answers DEF client_ping_packet_handler, Dispatch, Answer
<1>3. ASSUME NEW s \in Session, client_login_packet_handler(c, s)
      PROVE  Dispatch(c)
  <2> DEFINE ok == AddStatus(r.id, r.valid) = "accepted"
  <2>1. r \in Request
    BY <1>3 DEF client_login_packet_handler, Handles, RequestOK
  <2>2. [cmd |-> "login", id |-> r.id, status |-> IfOk(ok),
         session |-> IF ok THEN s ELSE None] \in Packet
    <3>1. ok \in BOOLEAN /\ (IF ok THEN s ELSE None) \in Session \cup {None}
      OBVIOUS
    <3> QED
      BY <2>1, <3>1, Answers
  <2> QED
    BY <1>3, <2>2 DEF client_login_packet_handler, Dispatch, Answer
<1>4. CASE client_logout_packet_handler(c)
  <2>1. r \in Request
    BY <1>4 DEF client_logout_packet_handler, Handles, RequestOK
  <2>2. Registered(r.id) \in BOOLEAN
    BY DEF Registered
  <2> QED
    BY <1>4, <2>1, <2>2, Answers DEF client_logout_packet_handler, Dispatch, Answer
<1>5. CASE NoResponse(c)
  BY <1>5 DEF NoResponse, Dispatch, Answer
<1>6. CASE MessageStatus(c) \/ MessageSnapshot(c)
  BY <1>6 DEF MessageStatus, MessageSnapshot
<1>7. ASSUME NEW status \in Outcome, AnswerMessage(c, status)
      PROVE  Answer(c)
  <2>1. r \in Request
    BY <1>7 DEF AnswerMessage, Reply, NoReply, RequestOK
  <2> QED
    BY <1>7, <2>1, Messages DEF AnswerMessage, Answer
<1>8. CASE MessageRefused(c) \/ MessageDone(c)
  BY <1>7, <1>8 DEF MessageRefused, MessageDone, Outcome, Dispatch
<1>9. ASSUME NEW e \in todo[c], MessageRelay(c, e)
      PROVE  Dispatch(c)
  <2>1. e \in AuthClient /\ r \in Request
    BY <1>9 DEF BookOK, RequestOK, MessageRelay, SendTo
  <2>2. e.cookie \in Handle /\ RelayTo(c, e) \in Packet
    BY <2>1, Messages DEF AuthClient, RelayTo
  <2> QED
    BY <1>9, <2>2 DEF MessageRelay, Dispatch
<1>10. ASSUME NEW e \in todo[c], MessageRelayMiss(c, e)
       PROVE  UNCHANGED vars
  BY <1>10 DEF MessageRelayMiss
<1>11. CASE Send(c)
  BY <1>11 DEF Send, Dispatch
<1> QED
  BY <1>1, <1>2, <1>3, <1>4, <1>5, <1>6, <1>8, <1>9, <1>10, <1>11 DEF Handler

\* What a client's step is for the TCP server.
LEMMA ClientRefines ==
  ASSUME NEW c \in Conn, Client(c)
  PROVE  Peer(c)
<1>1. ASSUME NEW r \in Sends, ClientSend(c, r)
      PROVE  Peer(c)
  <2>1. r \in Packet
    BY PacketAssumption
  <2> QED
    BY <1>1, <2>1 DEF ClientSend, Peer
<1> QED
  BY <1>1 DEF Client, Peer

\* Each step of the application is one that TcpServer allows.
LEMMA StepRefines ==
  ASSUME UserInv, [ChatNext]_chat_vars
  PROVE  [Next]_vars
<1>1. CASE AppMain
  BY <1>1 DEF AppMain, Next, Owner
<1>2. CASE AcceptThread
  BY <1>2 DEF Next
<1>3. ASSUME NEW c \in Conn, Serve(c) \/ Handler(c) \/ Client(c)
      PROVE  [Next]_vars
  BY <1>3, HandlerRefines, ClientRefines DEF Next
<1>4. CASE UNCHANGED chat_vars
  BY <1>4 DEF chat_vars
<1> QED
  BY <1>1, <1>2, <1>3, <1>4 DEF ChatNext

-----------------------------------------------------------------------------
(* The steps of everything but the packet handlers.                         *)

\* The handler thread of a client that has been registered in the list.
Past == Serving \cup {"exit", "done"}

\* Such a step leaves what the packet handlers work with alone, and
\* - keeps the handles of connections, and the departed departed;
\* - sends nothing;
\* - lists and connects nobody that was served before.
Quiet ==
  /\ UNCHANGED <<authVars, msgVars>>
  /\ ka_failed' = {} => ka_failed = {}
  /\ \A c \in Conn :
       /\ pc[c] \in {"dispatch", "sending"} =>
            pc'[c] = pc[c] /\ request'[c] = request[c]
       /\ pc'[c] \in {"sending", "replying"} =>
            pc[c] = pc'[c] /\ sendop'[c] = sendop[c]
       /\ client_id[c] # None => client_id'[c] = client_id[c]
       /\ pc[c] \in Departed => pc'[c] \in Departed
       /\ pc[c] \in Past => pc'[c] \in Past
       /\ \/ outbox'[c] = outbox[c] \/ outbox'[c] = <<>>
          \/ outbox[c] # <<>> /\ outbox'[c] = Tail(outbox[c])
       /\ peer'[c] = "open" => peer[c] = "open" \/ pc[c] = "absent"
  /\ \A h \in Handle, c \in Conn :
       m_client_list'[h] = c => m_client_list[h] = c \/ pc[c] = "start"

\* The application's owner, the accept thread and the clients.
LEMMA OthersQuiet ==
  ASSUME UserInv, \/ AppMain
                  \/ AcceptThread /\ UNCHANGED chatVars
                  \/ \E c \in Conn : Client(c)
  PROVE  Quiet /\ RequestOK'
<1> USE NoneAssumption
<1> USE DEF UserInv, Quiet, Past, Live, Serving, Departed, chatVars, authVars, msgVars,
        GoTo, mainVars, serverVars, ownerVars, acceptVars, clientVars, handlerVars,
        localVars, netVars, peerVars, histVars
<1>1. TypeOK /\ AcceptInv
  BY DEF IInv
<1> USE <1>1 DEF TypeOK, MainTypeOK, HandlerTypeOK, NetTypeOK
<1>2. CASE AppMain
  BY <1>2 DEF AppMain, StartUp, StartFails, RequestOK
<1>3. CASE AcceptThread /\ UNCHANGED chatVars
  <2>1. CASE AcceptLoop \/ AcceptInvalid \/ Admit
    BY <1>3, <2>1 DEF AcceptLoop, AcceptInvalid, Admit, RequestOK
  <2>2. ASSUME NEW c \in Conn, NEW h \in Handle, Accept(c, h)
        PROVE  Quiet /\ RequestOK'
    BY <1>3, <2>2 DEF Accept, RequestOK
  <2>3. CASE AdmitNot
    BY <1>3, <2>3 DEF AdmitNot, AcceptInv, RequestOK
  <2>4. ASSUME NEW alive \in KeepAlive, Spawn(alive)
        PROVE  Quiet /\ RequestOK'
    BY <1>3, <2>4 DEF Spawn, AcceptInv, RequestOK
  <2> QED
    BY <1>3, <2>1, <2>2, <2>3, <2>4 DEF AcceptThread
<1>4. ASSUME NEW c \in Conn, Client(c)
      PROVE  Quiet /\ RequestOK'
  <2>1. ASSUME NEW r \in Sends, ClientSend(c, r)
        PROVE  Quiet /\ RequestOK'
    <3>1. r \in RequestOf(c)
      BY <2>1, PacketAssumption DEF ClientSend, RequestOf
    <3>2. inbox'[c] = Append(inbox[c], r) /\ \A d \in Conn \ {c} : inbox'[d] = inbox[d]
      BY <2>1 DEF ClientSend, PeerSend
    <3>3. ASSUME NEW S, NEW q \in Seq(S), r \in S
          PROVE  Append(q, r) \in Seq(S)
      BY <3>3
    <3>4. inbox'[c] \in Seq(RequestOf(c))
      BY <3>1, <3>2, <3>3 DEF RequestOK
    <3>5. \A d \in Conn : inbox'[d] \in Seq(RequestOf(d))
      BY <3>2, <3>4 DEF RequestOK
    <3> QED
      BY <2>1, <3>5 DEF ClientSend, PeerSend, RequestOK
  <2>2. CASE PeerConnect(c) /\ UNCHANGED chatVars
    BY <2>2 DEF PeerConnect, RequestOK
  <2>3. CASE PeerRead(c) /\ UNCHANGED chatVars
    BY <2>3 DEF PeerRead, RequestOK
  <2>4. CASE PeerClose(c) /\ UNCHANGED chatVars
    BY <2>4 DEF PeerClose, RequestOK
  <2>5. CASE PeerReset(c) /\ UNCHANGED chatVars
    BY <2>5 DEF PeerReset, RequestOK
  <2> QED
    BY <1>4, <2>1, <2>2, <2>3, <2>4, <2>5 DEF Client
<1> QED
  BY <1>2, <1>3, <1>4

\* A handler thread outside packet_handler.
LEMMA ServeQuiet ==
  ASSUME UserInv, NEW c \in Conn, Serve(c), UNCHANGED chatVars
  PROVE  Quiet /\ RequestOK'
<1> USE NoneAssumption
<1> USE DEF UserInv, Quiet, Past, Live, Serving, Departed, chatVars, authVars, msgVars,
        GoTo, mainVars, serverVars, ownerVars, acceptVars, clientVars, handlerVars,
        localVars, netVars, peerVars, histVars
<1>1. TypeOK
  BY DEF IInv
<1> USE <1>1 DEF TypeOK, MainTypeOK, HandlerTypeOK, NetTypeOK
<1>2. CASE Register(c)
  BY <1>2 DEF Register, RequestOK
<1>3. CASE Loop(c)
  BY <1>3 DEF Loop, RequestOK
<1>4. CASE RecvPacket(c)
  <2> DEFINE d == Behind(c)
  <2>1. d \in Conn
    BY <1>4 DEF RecvPacket, Behind, At
  <2>2. Head(inbox[d]) \in RequestOf(d) /\ Tail(inbox[d]) \in Seq(RequestOf(d))
    BY <1>4, <2>1 DEF RecvPacket, RequestOK
  <2>3. ka_failed = {} => d = c
    BY <1>4 DEF RecvPacket, Behind, At, IInv, SocketOwned
  <2>4. RequestOK'
    BY <1>4, <2>1, <2>2, <2>3 DEF RecvPacket, RequestOK, RequestOf
  <2>5. Quiet
    BY <1>4 DEF RecvPacket
  <2> QED
    BY <2>4, <2>5
<1>5. CASE RecvDisconnect(c)
  BY <1>5 DEF RecvDisconnect, RequestOK
<1>6. CASE Invalidate(c)
  BY <1>6 DEF Invalidate, RequestOK
<1>7. CASE RecvNotSocket(c)
  BY <1>7 DEF RecvNotSocket, RequestOK
<1>8. CASE RecvBodyReset(c)
  BY <1>8 DEF RecvBodyReset, RequestOK
<1>11. CASE RecvNoSize(c)
  BY <1>11 DEF RecvNoSize, RequestOK
<1>9. CASE Erase(c)
  BY <1>9 DEF Erase, RequestOK
<1>10. CASE Exit(c)
  BY <1>10 DEF Exit, RequestOK
<1> QED
  BY <1>2, <1>3, <1>4, <1>5, <1>6, <1>7, <1>8, <1>9, <1>10, <1>11 DEF Serve

-----------------------------------------------------------------------------
(* The application uses the TCP server as it may, and keeps its types.      *)

\* A packet handler.
LEMMA HandlerKeeps ==
  ASSUME UserInv, NEW c \in Conn, Handler(c)
  PROVE  AtWork' /\ RequestOK' /\ BookOK'
<1> USE NoneAssumption, IdAssumption
<1> USE DEF UserInv, chatVars, authVars, msgVars, GoTo, mainVars, serverVars,
        ownerVars, acceptVars, clientVars, handlerVars, localVars, netVars, peerVars,
        histVars, vars
<1>0. HandlerTypeOK
  BY DEF IInv, TypeOK
<1>1. ASSUME NEW p, Reply(c, p) \/ NoReply(c), h_pc'[c] = "enter",
             h_pc' = [h_pc EXCEPT ![c] = "enter"] \/ h_pc' = h_pc
      PROVE  AtWork' /\ RequestOK'
  <2>1. /\ pc'[c] \in {"replying", "loop"}
        /\ \A d \in Conn \ {c} : pc'[d] = pc[d] /\ request'[d] = request[d]
        /\ UNCHANGED <<inbox, ka_failed>>
    BY <1>0, <1>1 DEF HandlerTypeOK, Reply, NoReply
  <2>2. \A d \in Conn \ {c} : h_pc'[d] = h_pc[d]
    BY <1>1 DEF BookOK
  <2>3. AtWork'
    BY <1>1, <2>1, <2>2 DEF AtWork
  <2>4. RequestOK'
    BY <2>1 DEF RequestOK
  <2> QED
    BY <2>3, <2>4
<1>2. CASE client_hello_packet_handler(c)
  BY <1>1, <1>2 DEF client_hello_packet_handler, Handles, BookOK
<1>3. CASE client_ping_packet_handler(c)
  BY <1>1, <1>3 DEF client_ping_packet_handler, Handles, BookOK
<1>4. ASSUME NEW s \in Session, client_login_packet_handler(c, s)
      PROVE  AtWork' /\ RequestOK' /\ BookOK'
  <2> DEFINE r == request[c]
  <2>1. /\ UNCHANGED <<msgVars, logins>>
        /\ pc[c] = "dispatch"
        /\ AddClient(r.id, client_id[c], r.valid, s)
        /\ h_pc[c] = "enter"
    BY <1>4 DEF client_login_packet_handler, Handles
  <2>2. AtWork' /\ RequestOK'
    BY <1>1, <1>4, <2>1 DEF client_login_packet_handler
  <2>3. [id |-> r.id, cookie |-> client_id[c], session |-> s] \in AuthClient
    BY <1>0, <2>1 DEF RequestOK, Request, HandlerTypeOK, AuthClient
  <2>4. BookOK'
    BY <2>1, <2>3 DEF AddClient, BookOK, RequestOK, Request
  <2> QED
    BY <2>2, <2>4
<1>5. CASE client_logout_packet_handler(c)
  <2>1. BookOK'
    BY <1>5 DEF client_logout_packet_handler, RemClient, BookOK
  <2> QED
    BY <1>1, <1>5, <2>1 DEF client_logout_packet_handler, Handles
<1>6. CASE NoResponse(c)
  BY <1>1, <1>6 DEF NoResponse, Handles, BookOK
<1>7. CASE MessageStatus(c)
  BY <1>7 DEF MessageStatus, Handles, AtWork, RequestOK, BookOK
<1>8. CASE MessageRefused(c)
  BY <1>1, <1>8 DEF MessageRefused, AnswerMessage, Handles, BookOK
<1>9. CASE MessageSnapshot(c)
  <2>1. get_clients \in SUBSET AuthClient
    BY DEF get_clients, BookOK
  <2> QED
    BY <1>9, <2>1 DEF MessageSnapshot, AtWork, RequestOK, BookOK
<1>10. ASSUME NEW e \in todo[c], MessageRelay(c, e)
       PROVE  AtWork' /\ RequestOK' /\ BookOK'
  BY <1>0, <1>10 DEF MessageRelay, SendTo, HandlerTypeOK, AtWork, RequestOK, BookOK
<1>11. ASSUME NEW e \in todo[c], MessageRelayMiss(c, e)
       PROVE  AtWork' /\ RequestOK' /\ BookOK'
  BY <1>11 DEF MessageRelayMiss, AtWork, RequestOK, BookOK
<1>12. CASE MessageDone(c)
  <2>1. BookOK'
    BY <1>12 DEF MessageDone, BookOK
  <2> QED
    BY <1>1, <1>12, <2>1 DEF MessageDone, AnswerMessage, BookOK
<1>13. CASE Send(c)
  <2> DEFINE d == At(sendop[c].sock)
  <2>1. d \in Conn \cup {None}
    BY <1>0, <1>13 DEF Send, SysSend, HandlerTypeOK, SendOp, At, IInv, TypeOK, NetTypeOK
  <2>2. BookOK'
    BY <1>13, <2>1 DEF Send, BookOK
  <2> QED
    BY <1>0, <1>13, <2>2 DEF Send, SysSend, HandlerTypeOK, AtWork, RequestOK
<1> QED
  BY <1>2, <1>3, <1>4, <1>5, <1>6, <1>7, <1>8, <1>9, <1>10, <1>11, <1>12, <1>13
  DEF Handler

\* The number of logins sent is bounded.
LEMMA LoginsBounded ==
  ASSUME BookOK, NEW c \in Conn, Client(c)
  PROVE  logins' \in 0 .. MaxLogin
BY LoginAssumption DEF Client, ClientSend, BookOK, chatVars

\* UserInv is inductive.
LEMMA UserStep ==
  ASSUME UserInv, [ChatNext]_chat_vars
  PROVE  UserInv'
<1>1. IInv'
  BY StepRefines, ControlStep, BookStep, HandleStep DEF UserInv, IInv, BookInv, HandleInv
<1>2. ASSUME Quiet, RequestOK', logins' \in 0 .. MaxLogin
      PROVE  UserInv'
  BY <1>1, <1>2 DEF UserInv, Quiet, authVars, msgVars, AtWork, BookOK
<1>3. logins \in 0 .. MaxLogin
  BY DEF UserInv, BookOK
<1>4. CASE AppMain \/ (AcceptThread /\ UNCHANGED chatVars)
  BY <1>2, <1>3, <1>4, OthersQuiet DEF AppMain, chatVars
<1>5. ASSUME NEW c \in Conn, Serve(c), UNCHANGED chatVars
      PROVE  UserInv'
  BY <1>2, <1>3, <1>5, ServeQuiet DEF chatVars
<1>6. ASSUME NEW c \in Conn, Client(c)
      PROVE  UserInv'
  BY <1>2, <1>6, OthersQuiet, LoginsBounded DEF UserInv
<1>7. ASSUME NEW c \in Conn, Handler(c)
      PROVE  UserInv'
  BY <1>1, <1>7, HandlerKeeps DEF UserInv
<1>8. CASE UNCHANGED chat_vars
  BY <1>1, <1>8 DEF UserInv, chat_vars, vars, chatVars, authVars, msgVars, AtWork,
     RequestOK, BookOK, clientVars, handlerVars, localVars, netVars, peerVars, histVars
<1> QED
  BY <1>4, <1>5, <1>6, <1>7, <1>8 DEF ChatNext

-----------------------------------------------------------------------------
(* Who is listed and connected can be sent to.                              *)

\* A client in service holds the socket accept() returned until recv() fails.
HoldsSocket ==
  \A c \in Conn :
    pc[c] \in {"loop", "recv", "dispatch", "sending", "replying"} =>
      m_socket[c] = client_id[c]

\* So does a listed one as long as its peer is there.
OpenListed ==
  ka_failed = {} =>
    \A h \in Handle, c \in Conn :
      peer[c] = "open" /\ m_client_list[h] = c =>
        m_socket[c] = h /\ pc[c] # "invalidate"

\* The handle of a client that is listed and connected is its connection's.
LEMMA ListedReachable ==
  ASSUME IInv, OpenListed, ka_failed = {},
         NEW h \in Handle, NEW d \in Conn, m_client_list[h] = d, peer[d] = "open"
  PROVE  client_id[d] = h /\ m_socket[d] = h /\ os_socket[h] = d
<1>1. client_id[d] = h
  BY DEF IInv, ListInv
<1>2. m_socket[d] = h /\ pc[d] # "invalidate" /\ h # None
  BY <1>1, NoneAssumption DEF OpenListed
<1> QED
  BY <1>1, <1>2 DEF IInv, SocketOwned

\* Erasing an entry may destroy the client it names, which is in no service.
LEMMA EraseSockets ==
  ASSUME IInv, HoldsSocket, OpenListed, NEW c \in Conn, Erase(c)
  PROVE  HoldsSocket' /\ OpenListed'
<1> DEFINE e == m_client_list[client_id[c]]
<1>1. HandlerTypeOK
  BY DEF IInv, TypeOK
<1>2. client_id[c] \in Handle /\ e \in Conn \cup {None}
  BY <1>1, NoneAssumption DEF Erase, HandlerTypeOK
<1>3. \A h \in Handle, d \in Conn :
        m_client_list'[h] = d => m_client_list[h] = d /\ d # e
  BY <1>1, <1>2, NoneAssumption DEF Erase, HandlerTypeOK, IInv, ListInv
<1>4. /\ UNCHANGED <<peer, ka_failed, client_id>>
      /\ \A d \in Conn : pc'[d] = pc[d] \/ pc'[d] = "exit"
      /\ \A d \in Conn : m_socket'[d] = m_socket[d] \/ pc[d] \notin Live
  BY <1>1 DEF Erase, HandlerTypeOK, GoTo, netVars, peerVars, histVars
<1>5. \A h \in Handle, d \in Conn : d # e => m_socket'[d] = m_socket[d]
  BY <1>1 DEF Erase, HandlerTypeOK
<1>6. HoldsSocket'
  BY <1>4 DEF HoldsSocket, Live
<1>7. OpenListed'
  BY <1>3, <1>4, <1>5 DEF OpenListed
<1> QED
  BY <1>6, <1>7

\* Both hold after every step of the TCP server.
LEMMA SocketStep ==
  ASSUME IInv, HoldsSocket, OpenListed, [Next]_vars
  PROVE  HoldsSocket' /\ OpenListed'
<1> USE NoneAssumption, KeepAliveAssumption
<1> USE DEF Live, Serving, Departed, GoTo, mainVars, serverVars, ownerVars, acceptVars,
        clientVars, handlerVars, localVars, netVars, peerVars, histVars, vars,
        HoldsSocket, OpenListed
<1>1. TypeOK /\ AcceptInv /\ OwnerInv /\ ListInv /\ SocketInv /\ SocketOwned
  BY DEF IInv
<1> USE <1>1 DEF TypeOK, MainTypeOK, HandlerTypeOK, NetTypeOK, ListInv
<1>2. CASE Owner /\ ~Clear
  BY <1>2 DEF Owner, StartUp, StartFails, Stop, CloseListener, JoinAccept, JoinClients
<1>3. CASE Clear
  BY <1>3 DEF Clear, OwnerInv
<1>4. CASE AcceptThread
  <2>1. CASE AcceptLoop \/ AcceptInvalid \/ Admit
    BY <2>1 DEF AcceptLoop, AcceptInvalid, Admit
  <2>2. ASSUME NEW c \in Conn, NEW h \in Handle, Accept(c, h)
        PROVE  HoldsSocket' /\ OpenListed'
    BY <2>2 DEF Accept, SocketInv
  <2>3. CASE AdmitNot
    BY <2>3 DEF AdmitNot, AcceptInv
  <2>4. ASSUME NEW alive \in KeepAlive, Spawn(alive)
        PROVE  HoldsSocket' /\ OpenListed'
    BY <2>4 DEF Spawn, AcceptInv
  <2> QED
    BY <1>4, <2>1, <2>2, <2>3, <2>4 DEF AcceptThread
<1>5. ASSUME NEW c \in Conn, Serve(c)
      PROVE  HoldsSocket' /\ OpenListed'
  <2>1. CASE Register(c)
    BY <2>1 DEF Register
  <2>2. CASE Loop(c)
    BY <2>2 DEF Loop
  <2>3. CASE RecvPacket(c)
    BY <2>3 DEF RecvPacket
  <2>4. CASE RecvDisconnect(c)
    <3>1. ka_failed = {} => peer[c] = "closed"
      BY <2>4 DEF RecvDisconnect, Behind, At, SocketOwned
    <3> QED
      BY <2>4, <3>1 DEF RecvDisconnect
  <2>5. CASE Invalidate(c)
    BY <2>5 DEF Invalidate
  <2>6. CASE RecvNotSocket(c)
    BY <2>6 DEF RecvNotSocket
  <2>7. CASE RecvBodyReset(c)
    BY <2>7 DEF RecvBodyReset
  <2>10. CASE RecvNoSize(c)
    BY <2>10 DEF RecvNoSize
  <2>8. CASE Erase(c)
    BY <2>8, EraseSockets
  <2>9. CASE Exit(c)
    <3>1. CASE Listed(c)
      BY <2>9, <3>1 DEF Exit
    <3>2. CASE \A h \in Handle : m_client_list[h] # c
      BY <2>9, <3>2 DEF Exit, Listed
    <3> QED
      BY <3>1, <3>2 DEF Listed
  <2> QED
    BY <1>5, <2>1, <2>2, <2>3, <2>4, <2>5, <2>6, <2>7, <2>8, <2>9, <2>10 DEF Serve
<1>6. ASSUME NEW c \in Conn, Dispatch(c)
      PROVE  HoldsSocket' /\ OpenListed'
  BY <1>6 DEF Dispatch, Answer, SendTo, SysSend, Reply, NoReply
<1>7. ASSUME NEW c \in Conn, Peer(c)
      PROVE  HoldsSocket' /\ OpenListed'
  <2>1. CASE PeerConnect(c)
    <3>1. \A h \in Handle : m_client_list[h] # c
      BY <2>1 DEF PeerConnect
    <3> QED
      BY <2>1, <3>1 DEF PeerConnect
  <2>2. CASE PeerClose(c) \/ PeerReset(c)
    BY <2>2 DEF PeerClose, PeerReset
  <2>3. CASE PeerRead(c)
    BY <2>3 DEF PeerRead
  <2>4. ASSUME NEW p \in Packet, PeerSend(c, p)
        PROVE  HoldsSocket' /\ OpenListed'
    BY <2>4 DEF PeerSend
  <2> QED
    BY <1>7, <2>1, <2>2, <2>3, <2>4 DEF Peer
<1>8. CASE UNCHANGED vars
  BY <1>8
<1> QED
  BY <1>2, <1>3, <1>4, <1>5, <1>6, <1>7, <1>8 DEF Next

-----------------------------------------------------------------------------
(* Whose handle a relayed message goes to, and who has got it.              *)

\* t has been in service, is the client with this id and had this handle.
Is(t, id, h) == IdOf[t] = id /\ client_id[t] = h /\ pc[t] \in Past

\* An entry of the provider has the handle of the client that logged in.
Owned(e) == \E t \in Conn : Is(t, e.id, e.cookie)

EntryInv ==
  ka_failed = {} =>
    /\ \A id \in DOMAIN m_clients : Owned(m_clients[id])
    /\ \A c \in Conn : \A e \in todo[c] \cup snap[c] : Owned(e)

\* The client a message being relayed is for has, or had, the addressee's
\* handle; an answer is not a message.
SendingInv ==
  \A c \in Conn :
    LET op == sendop[c] IN
    /\ pc[c] = "replying" => op.pkt.cmd # "message"
    /\ ka_failed = {} /\ pc[c] = "sending" =>
         \E t \in Conn : Is(t, op.pkt.id, client_id[op.to])

\* Whoever is not in todo any more has got its copy, or is getting it.
DoneInv ==
  ka_failed = {} =>
    \A c \in Conn : h_pc[c] = "relay" =>
      \A e \in snap[c] \ todo[c], d \in Conn :
        IdOf[d] = e.id /\ m_client_list[e.cookie] = d /\ peer[d] = "open" =>
          \/ d \in got[c]
          \/ pc[c] = "sending" /\ sendop[c].to = d /\ sendop[c].sock = e.cookie

Relayed == ka_failed = {} => RelayReachesOwner

RelayInv == EntryInv /\ SendingInv /\ DoneInv /\ Relayed

ChatInv == UserInv /\ HoldsSocket /\ OpenListed /\ RelayInv

\* A packet on its way is a delivery.
LEMMA OutboxPacket ==
  ASSUME TypeOK, NEW d \in Conn
  PROVE  /\ outbox[d] \in Seq(Delivery)
         /\ \A i \in DOMAIN outbox[d] : outbox[d][i].pkt \in Packet
<1>1. outbox[d] \in Seq(Delivery)
  BY DEF TypeOK, NetTypeOK
<1>2. ASSUME NEW i \in DOMAIN outbox[d]
      PROVE  outbox[d][i].pkt \in Packet
  <2>1. outbox[d][i] \in Delivery
    BY <1>1, <1>2
  <2> QED
    BY <2>1 DEF Delivery
<1> QED
  BY <1>1, <1>2

\* A step that takes nothing back: who was in service stays so described.
Steady ==
  /\ ka_failed' = {} => ka_failed = {}
  /\ \A c \in Conn : /\ client_id[c] # None => client_id'[c] = client_id[c]
                     /\ pc[c] \in Departed => pc'[c] \in Departed
                     /\ pc[c] \in Past => pc'[c] \in Past

\* Who owned an entry owns it after such a step.
LEMMA IsStays ==
  ASSUME TypeOK, Steady, NEW t \in Conn, NEW id, NEW h, Is(t, id, h)
  PROVE  client_id'[t] = h /\ pc'[t] \in Past /\ h # None
<1>1. client_id[t] # None
  BY DEF TypeOK, HandlerTypeOK, Is, Past, Serving
<1> QED
  BY <1>1 DEF Is, Steady

\* A packet that was on its way stays harmless after such a step.
LEMMA RelayedFrame ==
  ASSUME TypeOK, Relayed, Steady, ka_failed' = {},
         NEW d \in Conn, NEW p \in Packet, p.cmd = "message", p.id # IdOf[d],
         NEW i \in DOMAIN outbox[d], outbox[d][i].pkt = p
  PROVE  \E t \in Conn : /\ IdOf[t] = p.id
                         /\ client_id'[t] = client_id'[d]
                         /\ pc'[t] \in Departed
<1>1. PICK t \in Conn : /\ IdOf[t] = p.id
                        /\ client_id[t] = client_id[d]
                        /\ pc[t] \in Departed
  BY DEF Relayed, RelayReachesOwner, Steady
<1>2. client_id[t] # None
  BY <1>1 DEF TypeOK, HandlerTypeOK, Departed
<1> QED
  BY <1>1, <1>2 DEF Steady

\* The steps of everything but the packet handlers.
LEMMA QuietRelay ==
  ASSUME UserInv, RelayInv, Quiet, TypeOK'
  PROVE  RelayInv'
<1> USE DEF UserInv, RelayInv
<1>1. TypeOK /\ Steady
  BY DEF IInv, Quiet, Steady
<1>2. UNCHANGED <<m_clients, h_pc, todo, snap, got>>
  BY DEF Quiet, authVars, msgVars
<1>3. EntryInv'
  <2> SUFFICES ASSUME ka_failed' = {}, NEW e, Owned(e)
               PROVE  \E t \in Conn : /\ IdOf[t] = e.id
                                      /\ client_id'[t] = e.cookie
                                      /\ pc'[t] \in Past
    <3>1. \A e : Owned(e)' <=>
            \E t \in Conn : /\ IdOf[t] = e.id
                            /\ client_id'[t] = e.cookie
                            /\ pc'[t] \in Past
      BY DEF Owned, Is
    <3>2. ka_failed' = {} => \A e : Owned(e) => Owned(e)'
      BY <3>1
    <3> QED
      BY <1>1, <1>2, <3>2 DEF EntryInv, Steady
  <2> QED
    BY <1>1, IsStays DEF Owned, Is
<1>4. SendingInv'
  <2>1. ASSUME NEW c \in Conn, pc'[c] = "replying"
        PROVE  sendop'[c].pkt.cmd # "message"
    BY <2>1 DEF SendingInv, Quiet
  <2>2. ASSUME NEW c \in Conn, ka_failed' = {}, pc'[c] = "sending"
        PROVE  \E t \in Conn : /\ IdOf[t] = sendop'[c].pkt.id
                               /\ client_id'[t] = client_id'[sendop'[c].to]
                               /\ pc'[t] \in Past
    <3> DEFINE op == sendop[c]
    <3>1. pc[c] = "sending" /\ sendop'[c] = op /\ ka_failed = {}
      BY <2>2 DEF Quiet
    <3>2. op.to \in Conn
      BY <1>1, <3>1 DEF TypeOK, HandlerTypeOK, SendOp
    <3>3. PICK t \in Conn : Is(t, op.pkt.id, client_id[op.to])
      BY <3>1 DEF SendingInv
    <3>4. client_id'[t] = client_id[op.to] /\ pc'[t] \in Past /\ client_id[op.to] # None
      BY <1>1, <3>3, IsStays
    <3>5. client_id'[op.to] = client_id[op.to]
      BY <1>1, <3>2, <3>4 DEF Steady
    <3> QED
      BY <3>1, <3>3, <3>4, <3>5 DEF Is
  <2> QED
    BY <2>1, <2>2 DEF SendingInv, Is
<1>5. DoneInv'
  <2> SUFFICES ASSUME ka_failed' = {}, NEW c \in Conn, h_pc[c] = "relay",
                      NEW e \in snap[c] \ todo[c], NEW d \in Conn, IdOf[d] = e.id,
                      m_client_list'[e.cookie] = d, peer'[d] = "open"
               PROVE  \/ d \in got[c]
                      \/ pc'[c] = "sending" /\ sendop'[c].to = d
                           /\ sendop'[c].sock = e.cookie
    BY <1>2 DEF DoneInv
  <2>1. e \in AuthClient /\ e.cookie \in Handle
    BY DEF BookOK, AuthClient
  <2>2. pc[d] \in Past
    <3>1. PICK t \in Conn : Is(t, e.id, e.cookie)
      BY <1>1 DEF EntryInv, Owned, Steady
    <3> QED
      BY <3>1, IdAssumption DEF Is
  <2>3. m_client_list[e.cookie] = d /\ peer[d] = "open"
    BY <2>1, <2>2 DEF Quiet, Past, Serving
  <2>4. d \in got[c] \/ (pc[c] = "sending" /\ sendop[c].to = d
                           /\ sendop[c].sock = e.cookie)
    BY <1>1, <2>3 DEF DoneInv, Steady
  <2>5. pc[c] = "sending" => pc'[c] = "sending" /\ sendop'[c] = sendop[c]
    BY DEF Quiet
  <2> QED
    BY <2>4, <2>5
<1>6. Relayed'
  <2> SUFFICES ASSUME ka_failed' = {}, NEW d \in Conn, NEW i \in DOMAIN outbox'[d],
                      outbox'[d][i].pkt.cmd = "message",
                      outbox'[d][i].pkt.id # IdOf[d]
               PROVE  \E t \in Conn : /\ IdOf[t] = outbox'[d][i].pkt.id
                                      /\ client_id'[t] = client_id'[d]
                                      /\ pc'[t] \in Departed
    BY DEF Relayed, RelayReachesOwner
  <2>1. \E j \in DOMAIN outbox[d] : outbox[d][j] = outbox'[d][i]
    <3>1. outbox[d] \in Seq(Delivery)
      BY <1>1, OutboxPacket
    <3>2. CASE outbox[d] # <<>> /\ outbox'[d] = Tail(outbox[d])
      <4>1. i + 1 \in DOMAIN outbox[d] /\ outbox'[d][i] = outbox[d][i + 1]
        BY <3>1, <3>2
      <4> QED
        BY <4>1
    <3>3. CASE outbox'[d] = outbox[d] \/ outbox'[d] = <<>>
      BY <3>3
    <3> QED
      BY <3>2, <3>3 DEF Quiet
  <2>2. PICK j \in DOMAIN outbox[d] : outbox[d][j] = outbox'[d][i]
    BY <2>1
  <2>3. outbox[d][j].pkt \in Packet
    BY <1>1, OutboxPacket
  <2> QED
    BY <1>1, <2>2, <2>3, RelayedFrame
<1> QED
  BY <1>3, <1>4, <1>5, <1>6

\* A packet handler runs, or its answer is sent, in a client's service.
LEMMA HandlerServes ==
  ASSUME UserInv, NEW c \in Conn, Handler(c)
  PROVE  pc[c] \in {"dispatch", "sending", "replying"}
<1>1. CASE h_pc[c] # "enter"
  BY <1>1 DEF UserInv, AtWork
<1>2. CASE Send(c)
  BY <1>2 DEF Send, SysSend
<1>3. CASE h_pc[c] = "enter" /\ ~Send(c)
  BY <1>3 DEF Handler, client_hello_packet_handler, client_ping_packet_handler,
     client_login_packet_handler, client_logout_packet_handler, NoResponse,
     MessageStatus, MessageRefused, MessageSnapshot, MessageRelay, MessageRelayMiss,
     MessageDone, Handles
<1> QED
  BY <1>1, <1>2, <1>3

\* What no packet handler changes.
LEMMA HandlerFrame ==
  ASSUME UserInv, NEW c \in Conn, Handler(c)
  PROVE  /\ UNCHANGED <<m_client_list, client_id, m_socket, os_socket, peer, ka_failed>>
         /\ pc[c] \in Past /\ pc'[c] \in Serving
         /\ \A x \in Conn \ {c} :
              /\ pc'[x] = pc[x] /\ sendop'[x] = sendop[x] /\ h_pc'[x] = h_pc[x]
              /\ todo'[x] = todo[x] /\ snap'[x] = snap[x] /\ got'[x] = got[x]
<1>1. HandlerTypeOK
  BY DEF UserInv, IInv, TypeOK
<1>2. pc[c] \in {"dispatch", "sending", "replying"}
  BY HandlerServes
<1>3. /\ UNCHANGED <<m_client_list, client_id, m_socket, os_socket, peer, ka_failed>>
      /\ \A x \in Conn \ {c} : pc'[x] = pc[x] /\ sendop'[x] = sendop[x]
  BY <1>1, HandlerRefines
  DEF Dispatch, Answer, SendTo, SysSend, Reply, NoReply, GoTo, HandlerTypeOK, vars,
      mainVars, clientVars, handlerVars, localVars, netVars, peerVars, histVars
<1>4. \A x \in Conn \ {c} : /\ h_pc'[x] = h_pc[x] /\ todo'[x] = todo[x]
                            /\ snap'[x] = snap[x] /\ got'[x] = got[x]
  <2> USE DEF UserInv, BookOK, chatVars, msgVars
  <2>1. CASE \/ client_hello_packet_handler(c) \/ client_ping_packet_handler(c)
             \/ client_logout_packet_handler(c) \/ NoResponse(c) \/ MessageRefused(c)
             \/ \E s \in Session : client_login_packet_handler(c, s)
    BY <2>1 DEF client_hello_packet_handler, client_ping_packet_handler,
       client_logout_packet_handler, NoResponse, MessageRefused,
       client_login_packet_handler
  <2>2. CASE MessageStatus(c) \/ MessageSnapshot(c) \/ MessageDone(c)
    BY <2>2 DEF MessageStatus, MessageSnapshot, MessageDone
  <2>3. CASE \E e \in todo[c] : MessageRelay(c, e) \/ MessageRelayMiss(c, e)
    BY <2>3 DEF MessageRelay, MessageRelayMiss
  <2>4. CASE Send(c)
    BY <2>4 DEF Send
  <2> QED
    BY <2>1, <2>2, <2>3, <2>4 DEF Handler
<1>5. pc[c] \in Past
  BY <1>2 DEF Past, Serving
<1>6. pc'[c] \in Serving
  BY <1>1, <1>2, HandlerRefines
  DEF Dispatch, Answer, SendTo, SysSend, Reply, NoReply, GoTo, HandlerTypeOK, Serving,
      vars, clientVars, handlerVars
<1> QED
  BY <1>3, <1>4, <1>5, <1>6

\* Entries are those that were there, but for one with the handle of the client
\* whose login is handled.
LEMMA HandlerEntries ==
  ASSUME UserInv, EntryInv, ka_failed = {}, NEW c \in Conn, Handler(c)
  PROVE  /\ \A id \in DOMAIN m_clients' : Owned(m_clients'[id])
         /\ \A e \in todo'[c] \cup snap'[c] : Owned(e)
<1>1. /\ \A id \in DOMAIN m_clients : Owned(m_clients[id])
      /\ \A e \in todo[c] \cup snap[c] : Owned(e)
  BY DEF EntryInv
<1> USE <1>1 DEF UserInv, BookOK, chatVars, authVars, msgVars
<1>2. CASE \/ client_hello_packet_handler(c) \/ client_ping_packet_handler(c)
           \/ NoResponse(c) \/ MessageStatus(c) \/ MessageRefused(c)
  BY <1>2 DEF client_hello_packet_handler, client_ping_packet_handler, NoResponse,
     MessageStatus, MessageRefused
<1>3. ASSUME NEW s \in Session, client_login_packet_handler(c, s)
      PROVE  /\ \A id \in DOMAIN m_clients' : Owned(m_clients'[id])
             /\ \A e \in todo'[c] \cup snap'[c] : Owned(e)
  <2> DEFINE r == request[c]
             e == [id |-> r.id, cookie |-> client_id[c], session |-> s]
  <2>1. Is(c, e.id, e.cookie)
    BY <1>3 DEF client_login_packet_handler, Handles, RequestOK, Is, Past, Serving
  <2>2. \A id \in DOMAIN m_clients' :
          m_clients'[id] = e \/ (id \in DOMAIN m_clients /\ m_clients'[id] = m_clients[id])
    BY <1>3 DEF client_login_packet_handler, AddClient
  <2>3. Owned(e)
    BY <2>1 DEF Owned
  <2> QED
    BY <1>3, <2>2, <2>3 DEF client_login_packet_handler
<1>4. CASE client_logout_packet_handler(c)
  BY <1>4 DEF client_logout_packet_handler, RemClient
<1>5. CASE MessageSnapshot(c)
  BY <1>5 DEF MessageSnapshot, get_clients
<1>6. CASE \E e \in todo[c] : MessageRelay(c, e) \/ MessageRelayMiss(c, e)
  BY <1>6 DEF MessageRelay, MessageRelayMiss
<1>7. CASE MessageDone(c) \/ Send(c)
  BY <1>7 DEF MessageDone, Send
<1> QED
  BY <1>2, <1>3, <1>4, <1>5, <1>6, <1>7 DEF Handler

\* The answer of a packet handler: no message, and dispatch() has returned.
AnswersPlainly(c) ==
  /\ pc'[c] \in {"replying", "loop"}
  /\ pc'[c] = "replying" => sendop'[c].pkt.cmd # "message"
  /\ h_pc'[c] = "enter"
  /\ UNCHANGED outbox

\* Every handler does that, but the one of a message until it is through.
LEMMA HandlerAnswers ==
  ASSUME UserInv, NEW c \in Conn, Handler(c)
  PROVE  \/ AnswersPlainly(c)
         \/ UNCHANGED vars /\ (MessageStatus(c) \/ MessageSnapshot(c))
         \/ \E e \in todo[c] : MessageRelay(c, e) \/ MessageRelayMiss(c, e)
         \/ Send(c)
<1> USE DEF UserInv, chatVars, msgVars
<1>0. HandlerTypeOK
  BY DEF IInv, TypeOK
<1>1. ASSUME NEW p, Reply(c, p), p.cmd # "message"
      PROVE  /\ pc'[c] = "replying" /\ sendop'[c].pkt.cmd # "message"
             /\ UNCHANGED outbox
  BY <1>0, <1>1 DEF HandlerTypeOK, Reply, GoTo, netVars, peerVars
<1>2. ASSUME NoReply(c)
      PROVE  pc'[c] = "loop" /\ UNCHANGED outbox
  BY <1>0, <1>2 DEF HandlerTypeOK, NoReply, GoTo, netVars, peerVars
<1> USE DEF AnswersPlainly, Handles
<1>3. CASE client_hello_packet_handler(c)
  BY <1>1, <1>3 DEF client_hello_packet_handler
<1>4. CASE client_ping_packet_handler(c)
  BY <1>1, <1>4 DEF client_ping_packet_handler
<1>5. CASE \E s \in Session : client_login_packet_handler(c, s)
  BY <1>1, <1>5 DEF client_login_packet_handler
<1>6. CASE client_logout_packet_handler(c)
  BY <1>1, <1>6 DEF client_logout_packet_handler
<1>7. CASE NoResponse(c)
  BY <1>2, <1>7 DEF NoResponse
<1>8. CASE MessageRefused(c)
  BY <1>1, <1>2, <1>8 DEF MessageRefused, AnswerMessage
<1>9. CASE MessageDone(c)
  BY <1>1, <1>2, <1>9 DEF MessageDone, AnswerMessage, BookOK
<1>10. CASE MessageStatus(c) \/ MessageSnapshot(c)
  BY <1>10 DEF MessageStatus, MessageSnapshot
<1> QED
  BY <1>3, <1>4, <1>5, <1>6, <1>7, <1>8, <1>9, <1>10 DEF Handler

\* The entries in use are owned.
LEMMA HandlerEntryInv ==
  ASSUME UserInv, EntryInv, NEW c \in Conn, Handler(c)
  PROVE  EntryInv' /\ Steady
<1>1. HandlerTypeOK
  BY DEF UserInv, IInv, TypeOK
<1>2. Steady
  BY HandlerFrame, HandlerServes DEF Steady, Departed, Past, Serving
<1>3. ASSUME NEW e, Owned(e)
      PROVE  Owned(e)'
  <2>1. PICK t \in Conn : Is(t, e.id, e.cookie)
    BY <1>3 DEF Owned
  <2>2. Is(t, e.id, e.cookie)'
    BY <1>2, <2>1, HandlerFrame DEF Is, Steady
  <2> QED
    BY <2>2 DEF Owned
<1>4. ASSUME ka_failed' = {}
      PROVE  /\ \A id \in DOMAIN m_clients' : Owned(m_clients'[id])
             /\ \A x \in Conn : \A e \in todo'[x] \cup snap'[x] : Owned(e)
  <2>1. ka_failed = {}
    BY <1>2, <1>4 DEF Steady
  <2> QED
    BY <2>1, HandlerEntries, HandlerFrame DEF EntryInv
<1>5. EntryInv'
  <2>1. \A e : Owned(e) => \E t \in Conn : /\ IdOf[t] = e.id
                                           /\ client_id'[t] = e.cookie
                                           /\ pc'[t] \in Past
    BY <1>3 DEF Owned, Is
  <2>2. ka_failed' = {} =>
          /\ \A id \in DOMAIN m_clients' :
               \E t \in Conn : /\ IdOf[t] = m_clients'[id].id
                               /\ client_id'[t] = m_clients'[id].cookie
                               /\ pc'[t] \in Past
          /\ \A x \in Conn : \A e \in todo'[x] \cup snap'[x] :
               \E t \in Conn : /\ IdOf[t] = e.id
                               /\ client_id'[t] = e.cookie
                               /\ pc'[t] \in Past
    BY <1>4, <2>1
  <2> QED
    BY <2>2 DEF EntryInv, Owned, Is
<1> QED
  BY <1>2, <1>5

\* send_to finds the client that has the handle of the entry.
LEMMA RelayAddresses ==
  ASSUME UserInv, EntryInv, NEW c \in Conn, NEW e \in todo[c], MessageRelay(c, e)
  PROVE  /\ e.cookie \in Handle
         /\ m_client_list[e.cookie] \in Conn
         /\ client_id[m_client_list[e.cookie]] = e.cookie
         /\ pc[c] = "dispatch" /\ pc'[c] = "sending"
         /\ sendop'[c] = [to |-> m_client_list[e.cookie],
                          sock |-> m_socket[m_client_list[e.cookie]],
                          pkt |-> RelayTo(c, e)]
         /\ ka_failed = {} => Owned(e)
<1>1. HandlerTypeOK /\ ListInv
  BY DEF UserInv, IInv, TypeOK
<1>2. e.cookie \in Handle
  BY DEF UserInv, BookOK, AuthClient
<1>3. m_client_list[e.cookie] \in Conn
  BY <1>1, <1>2 DEF MessageRelay, SendTo, HandlerTypeOK
<1>4. pc[c] = "dispatch" /\ pc'[c] = "sending"
  BY <1>1 DEF MessageRelay, SendTo, HandlerTypeOK, GoTo
<1>5. sendop'[c] = [to |-> m_client_list[e.cookie],
                    sock |-> m_socket[m_client_list[e.cookie]],
                    pkt |-> RelayTo(c, e)]
  BY <1>1 DEF MessageRelay, SendTo, HandlerTypeOK
<1>6. client_id[m_client_list[e.cookie]] = e.cookie
  BY <1>1, <1>2, <1>3 DEF ListInv
<1>7. ka_failed = {} => Owned(e)
  BY DEF EntryInv
<1> QED
  BY <1>2, <1>3, <1>4, <1>5, <1>6, <1>7

\* What is being sent is for the client that has the addressee's handle.
LEMMA HandlerSending ==
  ASSUME UserInv, EntryInv, SendingInv, NEW c \in Conn, Handler(c)
  PROVE  SendingInv'
<1>1. Steady
  BY HandlerEntryInv
<1>2. \A t \in Conn : \A id, h : Is(t, id, h) =>
        IdOf[t] = id /\ client_id'[t] = h /\ pc'[t] \in Past
  BY <1>1, HandlerFrame DEF Is, Steady
<1>3. ASSUME NEW x \in Conn, pc'[x] = pc[x], sendop'[x] = sendop[x]
      PROVE  /\ pc'[x] = "replying" => sendop'[x].pkt.cmd # "message"
             /\ ka_failed' = {} /\ pc'[x] = "sending" =>
                  \E t \in Conn : /\ IdOf[t] = sendop'[x].pkt.id
                                  /\ client_id'[t] = client_id'[sendop'[x].to]
                                  /\ pc'[t] \in Past
  BY <1>1, <1>2, <1>3, HandlerFrame DEF SendingInv, Steady
<1>4. /\ pc'[c] = "replying" => sendop'[c].pkt.cmd # "message"
      /\ ka_failed' = {} /\ pc'[c] = "sending" =>
           \E t \in Conn : /\ IdOf[t] = sendop'[c].pkt.id
                           /\ client_id'[t] = client_id'[sendop'[c].to]
                           /\ pc'[t] \in Past
  <2>1. CASE AnswersPlainly(c)
    BY <2>1 DEF AnswersPlainly
  <2>2. CASE UNCHANGED vars
    BY <1>3, <2>2 DEF vars, clientVars, handlerVars, localVars
  <2>3. ASSUME NEW e \in todo[c], MessageRelay(c, e), ka_failed' = {}
        PROVE  \E t \in Conn : /\ IdOf[t] = sendop'[c].pkt.id
                               /\ client_id'[t] = client_id'[sendop'[c].to]
                               /\ pc'[t] \in Past
    <3>1. PICK t \in Conn : Is(t, e.id, e.cookie)
      BY <1>1, <2>3, RelayAddresses DEF Owned, Steady
    <3> QED
      <4> DEFINE a == m_client_list[e.cookie]
      <4>1. sendop'[c].to = a /\ sendop'[c].pkt.id = e.id
        <5>1. sendop'[c] = [to |-> a, sock |-> m_socket[a], pkt |-> RelayTo(c, e)]
          BY <2>3, RelayAddresses
        <5> QED
          BY <5>1 DEF RelayTo
      <4>2. client_id'[a] = e.cookie
        BY <2>3, RelayAddresses, HandlerFrame
      <4>3. IdOf[t] = e.id /\ client_id'[t] = e.cookie /\ pc'[t] \in Past
        BY <1>2, <3>1
      <4> QED
        BY <4>1, <4>2, <4>3
  <2>4. ASSUME NEW e \in todo[c], MessageRelay(c, e)
        PROVE  pc'[c] = "sending"
    BY <2>4, RelayAddresses
  <2>5. CASE Send(c)
    <3>1. pc'[c] \in {"dispatch", "loop"}
      BY <2>5 DEF Send, SysSend, GoTo, UserInv, IInv, TypeOK, HandlerTypeOK
    <3> QED
      BY <3>1
  <2> QED
    BY <2>1, <2>2, <2>3, <2>4, <2>5, HandlerAnswers DEF MessageRelayMiss
<1> QED
  BY <1>3, <1>4, HandlerFrame DEF SendingInv, Is

\* ::send on the handle of a listed, connected client reaches its connection.
LEMMA SendReaches ==
  ASSUME UserInv, OpenListed, ka_failed = {}, NEW c \in Conn, Send(c),
         pc[c] = "sending", NEW h \in Handle, sendop[c].sock = h,
         NEW d \in Conn, m_client_list[h] = d, peer[d] = "open"
  PROVE  d \in got'[c]
<1>1. os_socket[h] = d
  BY ListedReachable DEF UserInv
<1>2. At(sendop[c].sock) = d
  BY <1>1, NoneAssumption DEF At
<1> QED
  BY <1>2, NoneAssumption DEF Send, UserInv, BookOK

\* A copy is sent to each client of the list in turn, and arrives.
LEMMA HandlerDone ==
  ASSUME UserInv, OpenListed, EntryInv, DoneInv, NEW c \in Conn, Handler(c)
  PROVE  DoneInv'
<1> SUFFICES ASSUME ka_failed' = {}, NEW x \in Conn, h_pc'[x] = "relay",
                    NEW e \in snap'[x] \ todo'[x], NEW d \in Conn, IdOf[d] = e.id,
                    m_client_list'[e.cookie] = d, peer'[d] = "open"
             PROVE  \/ d \in got'[x]
                    \/ pc'[x] = "sending" /\ sendop'[x].to = d
                         /\ sendop'[x].sock = e.cookie
  BY DEF DoneInv
<1>1. ka_failed = {} /\ m_client_list[e.cookie] = d /\ peer[d] = "open"
  BY HandlerFrame
<1>2. ASSUME h_pc[x] = "relay", e \in snap[x], e \notin todo[x]
      PROVE  \/ d \in got[x]
             \/ pc[x] = "sending" /\ sendop[x].to = d /\ sendop[x].sock = e.cookie
  BY <1>1, <1>2 DEF DoneInv
<1>3. CASE x # c
  BY <1>2, <1>3, HandlerFrame
<1>4. CASE x = c /\ AnswersPlainly(c)
  BY <1>4 DEF AnswersPlainly
<1>5. CASE x = c /\ MessageStatus(c)
  BY <1>5 DEF MessageStatus, UserInv, BookOK
<1>6. CASE x = c /\ MessageSnapshot(c)
  BY <1>6 DEF MessageSnapshot, UserInv, BookOK
<1>7. ASSUME x = c, NEW f \in todo[c], MessageRelay(c, f)
      PROVE  \/ d \in got'[x]
             \/ pc'[x] = "sending" /\ sendop'[x].to = d
                  /\ sendop'[x].sock = e.cookie
  <2>1. /\ h_pc[c] = "relay" /\ UNCHANGED <<snap, got>> /\ pc[c] = "dispatch"
        /\ todo'[c] = todo[c] \ {f}
    BY <1>7, RelayAddresses DEF MessageRelay, UserInv, BookOK
  <2>2. CASE e = f
    <3>1. m_socket[d] = e.cookie
      BY <1>1, <1>7, <2>2, RelayAddresses, ListedReachable DEF UserInv
    <3>2. sendop'[c] = [to |-> d, sock |-> m_socket[d], pkt |-> RelayTo(c, f)]
      BY <1>1, <1>7, <2>2, RelayAddresses
    <3> QED
      <4>1. pc'[c] = "sending"
        BY <1>7, RelayAddresses
      <4> QED
        BY <1>7, <3>1, <3>2, <4>1
  <2>3. CASE e # f
    BY <1>2, <1>7, <2>1, <2>3
  <2> QED
    BY <2>2, <2>3
<1>8. ASSUME x = c, NEW f \in todo[c], MessageRelayMiss(c, f)
      PROVE  d \in got'[x]
  <2>1. /\ h_pc[c] = "relay" /\ UNCHANGED <<snap, got>> /\ pc[c] = "dispatch"
        /\ todo'[c] = todo[c] \ {f} /\ m_client_list[f.cookie] = None
    BY <1>8 DEF MessageRelayMiss, UserInv, BookOK
  <2>2. e # f
    BY <1>1, <2>1, NoneAssumption
  <2> QED
    BY <1>2, <1>8, <2>1, <2>2
<1>9. CASE x = c /\ Send(c)
  <2>1. h_pc[c] = "relay" /\ UNCHANGED <<snap, todo>> /\ got[c] \subseteq got'[c]
    BY <1>9 DEF Send, UserInv, BookOK
  <2>2. CASE d \in got[c]
    BY <1>9, <2>1, <2>2
  <2>3. CASE pc[c] = "sending" /\ sendop[c].sock = e.cookie
    <3>1. e.cookie \in Handle
      BY <1>9, <2>1 DEF UserInv, BookOK, AuthClient
    <3> QED
      BY <1>1, <1>9, <2>3, <3>1, SendReaches
  <2> QED
    BY <1>2, <1>9, <2>1, <2>2, <2>3
<1> QED
  BY <1>3, <1>4, <1>5, <1>6, <1>7, <1>8, <1>9, HandlerAnswers

\* What arrives on a connection is for the client that has, or had, its handle.
LEMMA SendArrives ==
  ASSUME UserInv, HoldsSocket, SendingInv, ka_failed = {}, NEW c \in Conn, Send(c),
         NEW d \in Conn, At(sendop[c].sock) = d, sendop[c].pkt.cmd = "message",
         sendop[c].pkt.id # IdOf[d]
  PROVE  \E t \in Conn : /\ IdOf[t] = sendop[c].pkt.id
                         /\ client_id[t] = client_id[d]
                         /\ pc[t] \in Departed
<1> DEFINE op == sendop[c]
<1>1. TypeOK /\ TableInv /\ SendInv /\ SocketOwned
  BY DEF UserInv, IInv
<1>2. pc[c] = "sending"
  BY DEF Send, SysSend, SendingInv
<1>3. op.to \in Conn /\ op.sock \in Handle /\ os_socket[op.sock] = d
  <2>1. op \in SendOp
    BY <1>1, <1>2 DEF TypeOK, HandlerTypeOK
  <2> QED
    BY <2>1, NoneAssumption DEF SendOp, At
<1>4. client_id[d] = op.sock
  BY <1>1, <1>3 DEF TableInv
<1>5. client_id[op.to] = op.sock
  BY <1>1, <1>2, <1>3, NoneAssumption DEF SendInv
<1>6. PICK t \in Conn : Is(t, op.pkt.id, client_id[op.to])
  BY <1>2 DEF SendingInv
<1>7. t # d /\ client_id[t] = op.sock
  BY <1>5, <1>6 DEF Is
<1>8. pc[t] \in Departed
  <2> SUFFICES ASSUME pc[t] \notin Departed
               PROVE  FALSE
    OBVIOUS
  <2>1. m_socket[t] = op.sock /\ pc[t] # "invalidate"
    BY <1>6, <1>7 DEF HoldsSocket, Is, Past, Serving, Departed
  <2>2. os_socket[op.sock] = t
    BY <1>1, <1>3, <2>1, NoneAssumption DEF SocketOwned
  <2> QED
    BY <1>3, <1>7, <2>2
<1> QED
  BY <1>4, <1>6, <1>7, <1>8 DEF Is

\* Nobody gets the message of another client that is still connected.
LEMMA HandlerRelayed ==
  ASSUME UserInv, HoldsSocket, SendingInv, Relayed, Steady, NEW c \in Conn, Handler(c)
  PROVE  Relayed'
<1>1. TypeOK
  BY DEF UserInv, IInv
<1> SUFFICES ASSUME ka_failed' = {}, NEW d \in Conn, NEW i \in DOMAIN outbox'[d],
                    outbox'[d][i].pkt.cmd = "message",
                    outbox'[d][i].pkt.id # IdOf[d]
             PROVE  \E t \in Conn : /\ IdOf[t] = outbox'[d][i].pkt.id
                                    /\ client_id'[t] = client_id'[d]
                                    /\ pc'[t] \in Departed
  BY DEF Relayed, RelayReachesOwner
<1>2. CASE i \in DOMAIN outbox[d] /\ outbox'[d][i] = outbox[d][i]
  <2>1. outbox[d][i].pkt \in Packet
    BY <1>1, <1>2, OutboxPacket
  <2> QED
    BY <1>1, <1>2, <2>1, RelayedFrame
<1>3. CASE /\ Send(c) /\ At(sendop[c].sock) = d
           /\ outbox'[d][i].pkt = sendop[c].pkt
  <2>1. PICK t \in Conn : /\ IdOf[t] = sendop[c].pkt.id
                          /\ client_id[t] = client_id[d]
                          /\ pc[t] \in Departed
    BY <1>3, SendArrives DEF Steady
  <2> QED
    BY <1>3, <2>1, HandlerFrame DEF Steady
<1>4. CASE Send(c)
  <2> DEFINE op == sendop[c]
  <2>1. outbox[d] \in Seq(Delivery)
    BY <1>1, OutboxPacket
  <2>2. \/ outbox'[d] = outbox[d]
        \/ At(op.sock) = d /\ outbox'[d] = Append(outbox[d], [to |-> op.to, pkt |-> op.pkt])
    BY <1>1, <1>4 DEF Send, SysSend, Sent, TypeOK, NetTypeOK
  <2> QED
    BY <1>2, <1>3, <1>4, <2>1, <2>2
<1>5. CASE UNCHANGED outbox
  BY <1>2, <1>5
<1> QED
  BY <1>4, <1>5, HandlerAnswers
  DEF AnswersPlainly, MessageRelay, MessageRelayMiss, SendTo, vars, clientVars, netVars,
      peerVars

-----------------------------------------------------------------------------
(* The invariant and the theorems.                                          *)

\* Every state of the server application satisfies the invariant.
LEMMA ChatInvariant == ChatSpec => []ChatInv
<1>1. ChatInit => ChatInv
  <2> SUFFICES ASSUME ChatInit PROVE ChatInv
    OBVIOUS
  <2>1. IInv
    BY InitInv DEF ChatInit
  <2>2. AtWork /\ RequestOK /\ BookOK
    BY NoneAssumption, LoginAssumption
    DEF ChatInit, Init, AuthInit, AtWork, RequestOK, BookOK
  <2>3. HoldsSocket /\ OpenListed
    BY NoneAssumption DEF ChatInit, Init, HoldsSocket, OpenListed
  <2>4. EntryInv /\ SendingInv /\ DoneInv /\ Relayed
    BY DEF ChatInit, Init, AuthInit, EntryInv, SendingInv, DoneInv, Relayed,
       RelayReachesOwner
  <2> QED
    BY <2>1, <2>2, <2>3, <2>4 DEF ChatInv, UserInv, RelayInv
<1>2. ChatInv /\ [ChatNext]_chat_vars => ChatInv'
  <2> SUFFICES ASSUME ChatInv, [ChatNext]_chat_vars PROVE ChatInv'
    OBVIOUS
  <2> USE DEF ChatInv
  <2>1. UserInv' /\ TypeOK'
    BY UserStep DEF UserInv, IInv
  <2>2. HoldsSocket' /\ OpenListed'
    BY StepRefines, SocketStep DEF UserInv
  <2>3. CASE Quiet
    BY <2>1, <2>2, <2>3, QuietRelay
  <2>4. ASSUME NEW c \in Conn, Handler(c)
        PROVE  RelayInv'
    BY <2>4, HandlerEntryInv, HandlerSending, HandlerDone, HandlerRelayed DEF RelayInv
  <2>5. CASE UNCHANGED chat_vars
    <3>1. Quiet
      BY <2>5 DEF Quiet, chat_vars, chatVars, vars, clientVars, handlerVars, localVars,
         netVars, peerVars, histVars
    <3> QED
      BY <2>3, <3>1
  <2> QED
    BY <2>1, <2>2, <2>3, <2>4, <2>5, OthersQuiet, ServeQuiet DEF ChatNext
<1> QED
  BY <1>1, <1>2, PTL DEF ChatSpec

\* Every variable of the server application keeps its type.
THEOREM ChatTypeCorrect == ChatSpec => []ChatTypeOK
<1>1. ChatInv => ChatTypeOK
  BY DEF ChatInv, UserInv, IInv, BookOK, ChatTypeOK
<1> QED
  BY <1>1, ChatInvariant, PTL

\* app.cpp uses tcp::server as TcpServer lets any user: it starts it, and its
\* packet handlers send_to, answer or stay silent, with packets of the protocol.
THEOREM ChatImplementsTcp == ChatSpec => ImplementsTcpServer
<1>1. ChatInit => Init
  BY DEF ChatInit
<1>2. ChatInv /\ [ChatNext]_chat_vars => [Next]_vars
  BY StepRefines DEF ChatInv
<1> QED
  BY <1>1, <1>2, ChatInvariant, PTL DEF ChatSpec, ImplementsTcpServer, Spec

\* provider::add_client: logging in again changes neither the session nor the
\* cookie of a registered client.
THEOREM EntriesStable == ChatSpec => EntryStable
<1>1. ASSUME ChatInv, [ChatNext]_chat_vars,
             NEW id \in DOMAIN m_clients \cap DOMAIN m_clients'
      PROVE  m_clients'[id] = m_clients[id]
  <2>1. CASE UNCHANGED m_clients
    BY <2>1
  <2>2. ASSUME NEW c \in Conn, NEW s \in Session, client_login_packet_handler(c, s)
        PROVE  m_clients'[id] = m_clients[id]
    BY <1>1, <2>2 DEF client_login_packet_handler, AddClient, AddStatus, Registered
  <2>3. ASSUME NEW c \in Conn, client_logout_packet_handler(c)
        PROVE  m_clients'[id] = m_clients[id]
    BY <1>1, <2>3 DEF client_logout_packet_handler, RemClient
  <2>4. \/ UNCHANGED m_clients
        \/ \E c \in Conn : \/ \E s \in Session : client_login_packet_handler(c, s)
                           \/ client_logout_packet_handler(c)
    BY <1>1 DEF ChatNext, AppMain, Client, ClientSend, Handler, chat_vars, chatVars, authVars,
       client_hello_packet_handler, client_ping_packet_handler, NoResponse,
       MessageStatus, MessageRefused, MessageSnapshot, MessageRelay, MessageRelayMiss,
       MessageDone, Send
  <2> QED
    BY <2>1, <2>2, <2>3, <2>4
<1>2. ChatInv /\ [ChatNext]_chat_vars =>
        [\A id \in DOMAIN m_clients \cap DOMAIN m_clients' :
           m_clients'[id] = m_clients[id]]_chat_vars
  BY <1>1
<1> QED
  BY <1>2, ChatInvariant, PTL DEF ChatSpec, EntryStable

\* client_message_packet_handler: unless set_keep_alive failed, every client of
\* the provider's list that is listed and connected has got its copy by the time
\* the handler is through the list.
THEOREM MessageReachesAll == ChatSpec => [](ka_failed = {} => ReachesAll)
<1>1. ASSUME ChatInv, ka_failed = {}
      PROVE  ReachesAll
  <2> SUFFICES ASSUME NEW c \in Conn, h_pc[c] = "relay", todo[c] = {},
                      pc[c] = "dispatch", NEW e \in snap[c], NEW d \in Conn,
                      IdOf[d] = e.id, m_client_list[client_id[d]] = d, peer[d] = "open"
               PROVE  d \in got[c]
    BY DEF ReachesAll
  <2>1. PICK t \in Conn : Is(t, e.id, e.cookie)
    BY <1>1 DEF ChatInv, RelayInv, EntryInv, Owned
  <2>2. client_id[d] = e.cookie
    BY <2>1, IdAssumption DEF Is
  <2> QED
    BY <1>1, <2>2 DEF ChatInv, RelayInv, DoneInv
<1> QED
  BY <1>1, ChatInvariant, PTL

\* send_to with a cookie the provider kept: unless set_keep_alive failed, another
\* client's message arrives only on a connection that has that client's handle,
\* once that client has gone.
THEOREM RelayFindsOwner == ChatSpec => [](ka_failed = {} => RelayReachesOwner)
<1>1. ChatInv => (ka_failed = {} => RelayReachesOwner)
  BY DEF ChatInv, RelayInv, Relayed
<1> QED
  BY <1>1, ChatInvariant, PTL
=============================================================================
