--------------------------- MODULE TcpServerProofs ---------------------------
(***************************************************************************)
(* The safety of TcpServer for every number of connections, handles and     *)
(* packets.  The inductive invariant is the conjunction of the named parts  *)
(* below; each part has a lemma that every step preserves it.               *)
(***************************************************************************)
EXTENDS TcpServer, TLAPS

\* stop() has returned, or start() has not been called or has failed.
Stopped == owner_pc \in {"idle", "starting"} /\ m_status # "up"

\* Only the connection the accept thread holds is "accepted".
AcceptInv == \A c \in Conn : (pc[c] = "accepted") <=> (accepted = c)

\* How far the owner is decides which other threads can still run.
OwnerInv ==
  /\ m_status = "up" => owner_pc = "idle"
  /\ owner_pc \in {"join_clients", "clear"} \/ Stopped => accept_pc = "off"
  /\ owner_pc = "clear" \/ Stopped => \A c \in Conn : pc[c] \notin Live
  /\ \A c \in Conn : pc[c] \in Live => c \in m_client_handler_threads

\* The entries of m_client_list are keyed by their clients' ids.
ListInv ==
  \A h \in Handle, c \in Conn :
    m_client_list[h] = c => client_id[c] = h /\ pc[c] \in Serving \cup {"exit", "done"}

\* A socket held is the one accept() returned; one that outlives its thread
\* is still listed.
SocketInv ==
  \A c \in Conn :
    m_socket[c] # None =>
      /\ m_socket[c] = client_id[c]
      /\ pc[c] \in Serving \cup {"exit", "done"}
      /\ pc[c] = "done" => m_client_list[client_id[c]] = c

\* An open handle is the accepted one of its connection, which can still
\* close it, unless it leaked.
TableInv ==
  \A h \in Handle, c \in Conn :
    os_socket[h] = c =>
      /\ client_id[c] = h
      /\ pc[c] # "invalidate"
      /\ pc[c] \in {"accepted", "leaked", "start"} \/ m_socket[c] = h

\* Without a keep-alive failure the handle of a connection not yet served is
\* its own ...
HeldInv ==
  ka_failed = {} =>
    \A c \in Conn :
      pc[c] \in {"accepted", "leaked", "start"} => os_socket[client_id[c]] = c

\* ... and so is the handle of a send in progress, or its addressee has gone.
SendInv ==
  ka_failed = {} =>
    \A c \in Conn :
      pc[c] \in {"sending", "replying"} /\ sendop[c].sock # None =>
        LET op == sendop[c] IN
        /\ client_id[op.to] = op.sock
        /\ os_socket[op.sock] = op.to \/ pc[op.to] \in Departed

\* The inductive invariant: the type, the supports above, the four properties.
IInv ==
  /\ TypeOK
  /\ AcceptInv
  /\ OwnerInv
  /\ ListInv
  /\ SocketInv
  /\ TableInv
  /\ HeldInv
  /\ SendInv
  /\ SocketOwned
  /\ ServingIsListed
  /\ StopClean
  /\ StrayOnlyFromDeparted

-----------------------------------------------------------------------------
USE NoneAssumption, BoundAssumption, KeepAliveAssumption
USE DEF IInv, TypeOK, Stopped, GoTo, vars, mainVars, serverVars, ownerVars,
        acceptVars, clientVars, handlerVars, localVars, netVars, peerVars,
        histVars, Status, StartError, Live, Serving, Departed, HandlerPc,
        OwnerPc, AcceptPc

\* Where each thread is, what its locals hold, and how the owner's progress in
\* start() and stop() bounds the other threads.
LEMMA ControlStep ==
  ASSUME IInv, [Next]_vars
  PROVE  TypeOK' /\ AcceptInv' /\ OwnerInv'
<1>1. ASSUME StartUp
      PROVE  TypeOK' /\ AcceptInv' /\ OwnerInv'
  BY <1>1 DEF StartUp, CanStart, MainTypeOK, HandlerTypeOK, NetTypeOK,
              AcceptInv, OwnerInv
<1>2. ASSUME NEW e \in StartError, StartFails(e)
      PROVE  TypeOK' /\ AcceptInv' /\ OwnerInv'
  BY <1>2 DEF StartFails, CanStart, MainTypeOK, HandlerTypeOK, NetTypeOK,
              AcceptInv, OwnerInv
<1>3. ASSUME NEW again \in BOOLEAN, Stop(again)
      PROVE  TypeOK' /\ AcceptInv' /\ OwnerInv'
  BY <1>3 DEF Stop, MainTypeOK, HandlerTypeOK, NetTypeOK, AcceptInv,
              OwnerInv
<1>4. ASSUME CloseListener
      PROVE  TypeOK' /\ AcceptInv' /\ OwnerInv'
  BY <1>4 DEF CloseListener, MainTypeOK, HandlerTypeOK, NetTypeOK,
              AcceptInv, OwnerInv
<1>5. ASSUME JoinAccept
      PROVE  TypeOK' /\ AcceptInv' /\ OwnerInv'
  BY <1>5 DEF JoinAccept, MainTypeOK, HandlerTypeOK, NetTypeOK, AcceptInv,
              OwnerInv
<1>6. ASSUME JoinClients
      PROVE  TypeOK' /\ AcceptInv' /\ OwnerInv'
  BY <1>6 DEF JoinClients, MainTypeOK, HandlerTypeOK, NetTypeOK, AcceptInv,
              OwnerInv
<1>7. ASSUME Clear
      PROVE  TypeOK' /\ AcceptInv' /\ OwnerInv'
  BY <1>7 DEF Clear, Closed, Listed, MainTypeOK, HandlerTypeOK, NetTypeOK,
              AcceptInv, OwnerInv
<1>8. ASSUME AcceptLoop
      PROVE  TypeOK' /\ AcceptInv' /\ OwnerInv'
  BY <1>8 DEF AcceptLoop, MainTypeOK, HandlerTypeOK, NetTypeOK, AcceptInv,
              OwnerInv
<1>9. ASSUME NEW c \in Conn, NEW h \in Handle, Accept(c, h)
      PROVE  TypeOK' /\ AcceptInv' /\ OwnerInv'
  BY <1>9 DEF Accept, MainTypeOK, HandlerTypeOK, NetTypeOK, AcceptInv,
              OwnerInv
<1>10. ASSUME AcceptInvalid
      PROVE  TypeOK' /\ AcceptInv' /\ OwnerInv'
  BY <1>10 DEF AcceptInvalid, MainTypeOK, HandlerTypeOK, NetTypeOK,
               AcceptInv, OwnerInv
<1>11. ASSUME AdmitNot
      PROVE  TypeOK' /\ AcceptInv' /\ OwnerInv'
  BY <1>11 DEF AdmitNot, MainTypeOK, HandlerTypeOK, NetTypeOK, AcceptInv,
               OwnerInv
<1>12. ASSUME Admit
      PROVE  TypeOK' /\ AcceptInv' /\ OwnerInv'
  BY <1>12 DEF Admit, MainTypeOK, HandlerTypeOK, NetTypeOK, AcceptInv,
               OwnerInv
<1>13. ASSUME NEW alive \in KeepAlive, Spawn(alive)
      PROVE  TypeOK' /\ AcceptInv' /\ OwnerInv'
  BY <1>13 DEF Spawn, Closed, MainTypeOK, HandlerTypeOK, NetTypeOK,
               AcceptInv, OwnerInv
<1>14. ASSUME NEW c \in Conn, Register(c)
      PROVE  TypeOK' /\ AcceptInv' /\ OwnerInv'
  <2>1. MainTypeOK'
    BY <1>14 DEF Register, MainTypeOK, OwnerInv
  <2>2. HandlerTypeOK'
    <3>1. client_id[c] \in Handle
      BY <1>14 DEF Register, HandlerTypeOK
    <3>2. /\ m_client_list' \in [Handle -> Conn \cup {None}]
          /\ m_socket' \in [Conn -> Handle \cup {None}]
      BY <1>14, <3>1 DEF Register, HandlerTypeOK
    <3> QED BY <1>14, <3>2 DEF Register, HandlerTypeOK
  <2>3. NetTypeOK'
    BY <1>14 DEF Register, MainTypeOK, HandlerTypeOK, NetTypeOK
  <2>4. AcceptInv'
    BY <1>14 DEF Register, MainTypeOK, HandlerTypeOK, AcceptInv
  <2>5. OwnerInv'
    BY <1>14 DEF Register, MainTypeOK, HandlerTypeOK, OwnerInv, AcceptInv
  <2> QED BY <2>1, <2>2, <2>3, <2>4, <2>5
<1>15. ASSUME NEW c \in Conn, Loop(c)
      PROVE  TypeOK' /\ AcceptInv' /\ OwnerInv'
  BY <1>15 DEF Loop, MainTypeOK, HandlerTypeOK, NetTypeOK, AcceptInv,
               OwnerInv
<1>16. ASSUME NEW c \in Conn, RecvPacket(c)
      PROVE  TypeOK' /\ AcceptInv' /\ OwnerInv'
  <2>1. MainTypeOK'
    BY <1>16 DEF RecvPacket, Behind, At, MainTypeOK, OwnerInv
  <2>2. HandlerTypeOK'
    BY <1>16 DEF RecvPacket, Behind, At, MainTypeOK, HandlerTypeOK,
                 NetTypeOK, AcceptInv
  <2>3. NetTypeOK'
    BY <1>16 DEF RecvPacket, Behind, At, MainTypeOK, HandlerTypeOK,
                 NetTypeOK
  <2>4. AcceptInv'
    BY <1>16 DEF RecvPacket, Behind, At, MainTypeOK, HandlerTypeOK,
                 AcceptInv
  <2>5. OwnerInv'
    BY <1>16 DEF RecvPacket, Behind, At, MainTypeOK, HandlerTypeOK,
                 OwnerInv, AcceptInv
  <2> QED BY <2>1, <2>2, <2>3, <2>4, <2>5
<1>17. ASSUME NEW c \in Conn, RecvDisconnect(c)
      PROVE  TypeOK' /\ AcceptInv' /\ OwnerInv'
  <2>1. MainTypeOK'
    BY <1>17 DEF RecvDisconnect, Closed, Behind, At, MainTypeOK, OwnerInv
  <2>2. HandlerTypeOK'
    BY <1>17 DEF RecvDisconnect, Closed, Behind, At, MainTypeOK,
                 HandlerTypeOK, NetTypeOK, AcceptInv
  <2>3. NetTypeOK'
    BY <1>17 DEF RecvDisconnect, Closed, Behind, At, MainTypeOK,
                 HandlerTypeOK, NetTypeOK
  <2>4. AcceptInv'
    BY <1>17 DEF RecvDisconnect, Closed, Behind, At, MainTypeOK,
                 HandlerTypeOK, AcceptInv
  <2>5. OwnerInv'
    BY <1>17 DEF RecvDisconnect, Closed, Behind, At, MainTypeOK,
                 HandlerTypeOK, OwnerInv, AcceptInv
  <2> QED BY <2>1, <2>2, <2>3, <2>4, <2>5
<1>18. ASSUME NEW c \in Conn, Invalidate(c)
      PROVE  TypeOK' /\ AcceptInv' /\ OwnerInv'
  <2>1. MainTypeOK'
    BY <1>18 DEF Invalidate, MainTypeOK
  <2>2. HandlerTypeOK'
    BY <1>18 DEF Invalidate, HandlerTypeOK
  <2>3. NetTypeOK'
    BY <1>18 DEF Invalidate, NetTypeOK
  <2>4. AcceptInv'
    BY <1>18 DEF Invalidate, MainTypeOK, HandlerTypeOK, AcceptInv
  <2>5. OwnerInv'
    BY <1>18 DEF Invalidate, MainTypeOK, HandlerTypeOK, OwnerInv
  <2> QED BY <2>1, <2>2, <2>3, <2>4, <2>5
<1>19. ASSUME NEW c \in Conn, RecvNotSocket(c)
      PROVE  TypeOK' /\ AcceptInv' /\ OwnerInv'
  BY <1>19 DEF RecvNotSocket, Behind, At, MainTypeOK, HandlerTypeOK,
               NetTypeOK, AcceptInv, OwnerInv
<1>20. ASSUME NEW c \in Conn, RecvBodyReset(c)
      PROVE  TypeOK' /\ AcceptInv' /\ OwnerInv'
  BY <1>20 DEF RecvBodyReset, Behind, At, MainTypeOK, HandlerTypeOK,
               NetTypeOK, AcceptInv, OwnerInv
<1>33. ASSUME NEW c \in Conn, RecvNoSize(c)
      PROVE  TypeOK' /\ AcceptInv' /\ OwnerInv'
  BY <1>33 DEF RecvNoSize, Behind, At, MainTypeOK, HandlerTypeOK,
               NetTypeOK, AcceptInv, OwnerInv
<1>21. ASSUME NEW c \in Conn, Erase(c)
      PROVE  TypeOK' /\ AcceptInv' /\ OwnerInv'
  <2>1. MainTypeOK'
    BY <1>21 DEF Erase, MainTypeOK
  <2>2. HandlerTypeOK'
    BY <1>21 DEF Erase, Closed, HandlerTypeOK
  <2>3. NetTypeOK'
    BY <1>21 DEF Erase, Closed, NetTypeOK
  <2>4. AcceptInv'
    BY <1>21 DEF Erase, MainTypeOK, HandlerTypeOK, AcceptInv
  <2>5. OwnerInv'
    BY <1>21 DEF Erase, MainTypeOK, HandlerTypeOK, OwnerInv
  <2> QED BY <2>1, <2>2, <2>3, <2>4, <2>5
<1>22. ASSUME NEW c \in Conn, Exit(c)
      PROVE  TypeOK' /\ AcceptInv' /\ OwnerInv'
  BY <1>22 DEF Exit, Closed, Listed, MainTypeOK, HandlerTypeOK, NetTypeOK,
               AcceptInv, OwnerInv
<1>23. ASSUME NEW c \in Conn, NEW h \in Handle, NEW p \in Packet, SendTo(c, h, p)
      PROVE  TypeOK' /\ AcceptInv' /\ OwnerInv'
  BY <1>23 DEF SendTo, MainTypeOK, HandlerTypeOK, NetTypeOK, AcceptInv,
               OwnerInv, SendOp
<1>24. ASSUME NEW c \in Conn, SysSend(c)
      PROVE  TypeOK' /\ AcceptInv' /\ OwnerInv'
  <2>1. MainTypeOK'
    BY <1>24 DEF SysSend, Sent, At, MainTypeOK, OwnerInv
  <2>2. HandlerTypeOK'
    BY <1>24 DEF SysSend, Sent, At, MainTypeOK, HandlerTypeOK, NetTypeOK,
                 AcceptInv, SendOp
  <2>3. NetTypeOK'
    <3> DEFINE op == sendop[c]
    <3>1. op \in SendOp
      BY <1>24 DEF SysSend, HandlerTypeOK
    <3>2. [to |-> op.to, pkt |-> op.pkt] \in Delivery
      BY <3>1 DEF SendOp, Delivery
    <3>3. At(op.sock) \in Conn \cup {None}
      BY <3>1 DEF At, SendOp, NetTypeOK
    <3>4. outbox' \in [Conn -> Seq(Delivery)]
      BY <1>24, <3>2, <3>3 DEF SysSend, Sent, NetTypeOK
    <3> QED BY <1>24, <3>4 DEF SysSend, NetTypeOK
  <2>4. AcceptInv'
    BY <1>24 DEF SysSend, Sent, At, MainTypeOK, HandlerTypeOK, AcceptInv
  <2>5. OwnerInv'
    BY <1>24 DEF SysSend, Sent, At, MainTypeOK, HandlerTypeOK, OwnerInv,
                 AcceptInv
  <2> QED BY <2>1, <2>2, <2>3, <2>4, <2>5
<1>25. ASSUME NEW c \in Conn, NEW p \in Packet, Reply(c, p)
      PROVE  TypeOK' /\ AcceptInv' /\ OwnerInv'
  <2>1. MainTypeOK'
    BY <1>25 DEF Reply, MainTypeOK, OwnerInv
  <2>2. HandlerTypeOK'
    <3>1. [to |-> c, sock |-> m_socket[c], pkt |-> p] \in SendOp
      BY DEF HandlerTypeOK, SendOp
    <3>2. sendop' \in [Conn -> SendOp \cup {None}] /\ sendop'[c] \in SendOp
      BY <1>25, <3>1 DEF Reply, HandlerTypeOK
    <3> QED BY <1>25, <3>2 DEF Reply, HandlerTypeOK
  <2>3. NetTypeOK'
    BY <1>25 DEF Reply, MainTypeOK, HandlerTypeOK, NetTypeOK
  <2>4. AcceptInv'
    BY <1>25 DEF Reply, MainTypeOK, HandlerTypeOK, AcceptInv
  <2>5. OwnerInv'
    BY <1>25 DEF Reply, MainTypeOK, HandlerTypeOK, OwnerInv, AcceptInv
  <2> QED BY <2>1, <2>2, <2>3, <2>4, <2>5
<1>26. ASSUME NEW c \in Conn, NoReply(c)
      PROVE  TypeOK' /\ AcceptInv' /\ OwnerInv'
  BY <1>26 DEF NoReply, MainTypeOK, HandlerTypeOK, NetTypeOK, AcceptInv,
               OwnerInv
<1>27. ASSUME NEW c \in Conn, PeerConnect(c)
      PROVE  TypeOK' /\ AcceptInv' /\ OwnerInv'
  BY <1>27 DEF PeerConnect, MainTypeOK, HandlerTypeOK, NetTypeOK, AcceptInv,
               OwnerInv
<1>28. ASSUME NEW c \in Conn, NEW p \in Packet, PeerSend(c, p)
      PROVE  TypeOK' /\ AcceptInv' /\ OwnerInv'
  BY <1>28 DEF PeerSend, MainTypeOK, HandlerTypeOK, NetTypeOK, AcceptInv,
               OwnerInv
<1>29. ASSUME NEW c \in Conn, PeerRead(c)
      PROVE  TypeOK' /\ AcceptInv' /\ OwnerInv'
  BY <1>29 DEF PeerRead, MainTypeOK, HandlerTypeOK, NetTypeOK, AcceptInv,
               OwnerInv
<1>30. ASSUME NEW c \in Conn, PeerClose(c)
      PROVE  TypeOK' /\ AcceptInv' /\ OwnerInv'
  BY <1>30 DEF PeerClose, MainTypeOK, HandlerTypeOK, NetTypeOK, AcceptInv,
               OwnerInv
<1>31. ASSUME NEW c \in Conn, PeerReset(c)
      PROVE  TypeOK' /\ AcceptInv' /\ OwnerInv'
  BY <1>31 DEF PeerReset, MainTypeOK, HandlerTypeOK, NetTypeOK, AcceptInv,
               OwnerInv
<1>32. CASE UNCHANGED vars
  BY <1>32 DEF MainTypeOK, HandlerTypeOK, NetTypeOK, AcceptInv, OwnerInv
<1> QED
  BY <1>1, <1>2, <1>3, <1>4, <1>5, <1>6, <1>7, <1>8, <1>9, <1>10, <1>11,
     <1>12, <1>13, <1>14, <1>15, <1>16, <1>17, <1>18, <1>19, <1>20, <1>21,
     <1>22, <1>23, <1>24, <1>25, <1>26, <1>27, <1>28, <1>29, <1>30, <1>31,
     <1>32, <1>33
  DEF Next, Owner, AcceptThread, Serve, Dispatch, Answer, Peer

\* The lists, the sockets the clients hold and the handle table, together.
BookInv == ListInv /\ SocketInv /\ TableInv /\ ServingIsListed /\ StopClean

\* A handle in the table, in a client and in the list stay in step: this is
\* where a serving client stays listed and stop() leaves nothing behind.
LEMMA BookStep ==
  ASSUME IInv, [Next]_vars
  PROVE  BookInv'
<1>1. ASSUME StartUp
      PROVE  BookInv'
  BY <1>1 DEF StartUp, CanStart, BookInv, MainTypeOK, HandlerTypeOK,
              NetTypeOK, AcceptInv, OwnerInv, ListInv, SocketInv, TableInv,
              ServingIsListed, StopClean
<1>2. ASSUME NEW e \in StartError, StartFails(e)
      PROVE  BookInv'
  BY <1>2 DEF StartFails, CanStart, BookInv, MainTypeOK, HandlerTypeOK,
              NetTypeOK, AcceptInv, OwnerInv, ListInv, SocketInv, TableInv,
              ServingIsListed, StopClean
<1>3. ASSUME NEW again \in BOOLEAN, Stop(again)
      PROVE  BookInv'
  BY <1>3 DEF Stop, BookInv, MainTypeOK, HandlerTypeOK, NetTypeOK,
              AcceptInv, OwnerInv, ListInv, SocketInv, TableInv,
              ServingIsListed, StopClean
<1>4. ASSUME CloseListener
      PROVE  BookInv'
  BY <1>4 DEF CloseListener, BookInv, MainTypeOK, HandlerTypeOK, NetTypeOK,
              AcceptInv, OwnerInv, ListInv, SocketInv, TableInv,
              ServingIsListed, StopClean
<1>5. ASSUME JoinAccept
      PROVE  BookInv'
  BY <1>5 DEF JoinAccept, BookInv, MainTypeOK, HandlerTypeOK, NetTypeOK,
              AcceptInv, OwnerInv, ListInv, SocketInv, TableInv,
              ServingIsListed, StopClean
<1>6. ASSUME JoinClients
      PROVE  BookInv'
  BY <1>6 DEF JoinClients, BookInv, MainTypeOK, HandlerTypeOK, NetTypeOK,
              AcceptInv, OwnerInv, ListInv, SocketInv, TableInv,
              ServingIsListed, StopClean
<1>7. ASSUME Clear
      PROVE  BookInv'
  BY <1>7 DEF Clear, Closed, Listed, BookInv, MainTypeOK, HandlerTypeOK,
              NetTypeOK, AcceptInv, OwnerInv, ListInv, SocketInv, TableInv,
              ServingIsListed, StopClean
<1>8. ASSUME AcceptLoop
      PROVE  BookInv'
  BY <1>8 DEF AcceptLoop, BookInv, MainTypeOK, HandlerTypeOK, NetTypeOK,
              AcceptInv, OwnerInv, ListInv, SocketInv, TableInv,
              ServingIsListed, StopClean
<1>9. ASSUME NEW c \in Conn, NEW h \in Handle, Accept(c, h)
      PROVE  BookInv'
  <2>1. ListInv'
    BY <1>9 DEF Accept, MainTypeOK, HandlerTypeOK, ListInv, AcceptInv
  <2>2. SocketInv'
    BY <1>9 DEF Accept, MainTypeOK, HandlerTypeOK, SocketInv, ListInv,
                AcceptInv
  <2>3. TableInv'
    BY <1>9 DEF Accept, MainTypeOK, HandlerTypeOK, NetTypeOK, TableInv,
                AcceptInv, SocketInv, ListInv
  <2>4. ServingIsListed'
    <3> SUFFICES ASSUME NEW d \in Conn, pc'[d] \in Serving
                 PROVE  \/ m_client_list'[client_id'[d]] = d
                        \/ \E x \in collided' : client_id'[x] = client_id'[d]
      BY DEF ServingIsListed
    <3>1. /\ pc[d] \in Serving /\ d # c
          /\ client_id'[d] = client_id[d] /\ client_id[d] # None
      BY <1>9 DEF Accept, HandlerTypeOK
    <3>2. \A x \in collided :
            client_id[x] = client_id[d] => client_id'[x] = client_id[d]
      BY <1>9, <3>1 DEF Accept, HandlerTypeOK, NetTypeOK
    <3> QED BY <1>9, <3>1, <3>2 DEF ServingIsListed, Accept
  <2>5. StopClean'
    BY <1>9 DEF Accept, MainTypeOK, HandlerTypeOK, NetTypeOK, StopClean,
                OwnerInv, SocketInv, TableInv, ListInv, AcceptInv
  <2> QED BY <2>1, <2>2, <2>3, <2>4, <2>5 DEF BookInv
<1>10. ASSUME AcceptInvalid
      PROVE  BookInv'
  BY <1>10 DEF AcceptInvalid, BookInv, MainTypeOK, HandlerTypeOK, NetTypeOK,
               AcceptInv, OwnerInv, ListInv, SocketInv, TableInv,
               ServingIsListed, StopClean
<1>11. ASSUME AdmitNot
      PROVE  BookInv'
  BY <1>11 DEF AdmitNot, BookInv, MainTypeOK, HandlerTypeOK, NetTypeOK,
               AcceptInv, OwnerInv, ListInv, SocketInv, TableInv,
               ServingIsListed, StopClean
<1>12. ASSUME Admit
      PROVE  BookInv'
  BY <1>12 DEF Admit, BookInv, MainTypeOK, HandlerTypeOK, NetTypeOK,
               AcceptInv, OwnerInv, ListInv, SocketInv, TableInv,
               ServingIsListed, StopClean
<1>13. ASSUME NEW alive \in KeepAlive, Spawn(alive)
      PROVE  BookInv'
  BY <1>13 DEF Spawn, Closed, BookInv, MainTypeOK, HandlerTypeOK, NetTypeOK,
               AcceptInv, OwnerInv, ListInv, SocketInv, TableInv,
               ServingIsListed, StopClean
<1>14. ASSUME NEW c \in Conn, Register(c)
      PROVE  BookInv'
  BY <1>14 DEF Register, BookInv, MainTypeOK, HandlerTypeOK, NetTypeOK,
               AcceptInv, OwnerInv, ListInv, SocketInv, TableInv,
               ServingIsListed, StopClean
<1>15. ASSUME NEW c \in Conn, Loop(c)
      PROVE  BookInv'
  BY <1>15 DEF Loop, BookInv, MainTypeOK, HandlerTypeOK, NetTypeOK,
               AcceptInv, OwnerInv, ListInv, SocketInv, TableInv,
               ServingIsListed, StopClean
<1>16. ASSUME NEW c \in Conn, RecvPacket(c)
      PROVE  BookInv'
  BY <1>16 DEF RecvPacket, Behind, At, BookInv, MainTypeOK, HandlerTypeOK,
               NetTypeOK, AcceptInv, OwnerInv, ListInv, SocketInv, TableInv,
               ServingIsListed, StopClean
<1>17. ASSUME NEW c \in Conn, RecvDisconnect(c)
      PROVE  BookInv'
  <2>1. ListInv'
    BY <1>17 DEF RecvDisconnect, Closed, Behind, At, MainTypeOK,
                 HandlerTypeOK, ListInv, AcceptInv
  <2>2. SocketInv'
    BY <1>17 DEF RecvDisconnect, Closed, Behind, At, MainTypeOK,
                 HandlerTypeOK, SocketInv, ListInv, AcceptInv
  <2>3. TableInv'
    BY <1>17 DEF RecvDisconnect, Closed, Behind, At, MainTypeOK,
                 HandlerTypeOK, NetTypeOK, TableInv, AcceptInv, SocketInv,
                 ListInv
  <2>4. ServingIsListed'
    BY <1>17 DEF RecvDisconnect, Closed, Behind, At, MainTypeOK,
                 HandlerTypeOK, NetTypeOK, ServingIsListed, OwnerInv
  <2>5. StopClean'
    BY <1>17 DEF RecvDisconnect, Closed, Behind, At, MainTypeOK,
                 HandlerTypeOK, NetTypeOK, StopClean, OwnerInv, SocketInv,
                 TableInv, ListInv, AcceptInv
  <2> QED BY <2>1, <2>2, <2>3, <2>4, <2>5 DEF BookInv
<1>18. ASSUME NEW c \in Conn, Invalidate(c)
      PROVE  BookInv'
  BY <1>18 DEF Invalidate, BookInv, MainTypeOK, HandlerTypeOK, NetTypeOK,
               AcceptInv, OwnerInv, ListInv, SocketInv, TableInv,
               ServingIsListed, StopClean
<1>19. ASSUME NEW c \in Conn, RecvNotSocket(c)
      PROVE  BookInv'
  BY <1>19 DEF RecvNotSocket, Behind, At, BookInv, MainTypeOK,
               HandlerTypeOK, NetTypeOK, AcceptInv, OwnerInv, ListInv,
               SocketInv, TableInv, ServingIsListed, StopClean
<1>20. ASSUME NEW c \in Conn, RecvBodyReset(c)
      PROVE  BookInv'
  BY <1>20 DEF RecvBodyReset, Behind, At, BookInv, MainTypeOK,
               HandlerTypeOK, NetTypeOK, AcceptInv, OwnerInv, ListInv,
               SocketInv, TableInv, ServingIsListed, StopClean
<1>33. ASSUME NEW c \in Conn, RecvNoSize(c)
      PROVE  BookInv'
  BY <1>33 DEF RecvNoSize, Behind, At, BookInv, MainTypeOK,
               HandlerTypeOK, NetTypeOK, AcceptInv, OwnerInv, ListInv,
               SocketInv, TableInv, ServingIsListed, StopClean
<1>21. ASSUME NEW c \in Conn, Erase(c)
      PROVE  BookInv'
  <2>1. ListInv'
    BY <1>21 DEF Erase, HandlerTypeOK, ListInv
  <2>2. SocketInv'
    BY <1>21 DEF Erase, HandlerTypeOK, ListInv, SocketInv
  <2>3. TableInv'
    BY <1>21 DEF Erase, Closed, HandlerTypeOK, NetTypeOK, ListInv, TableInv
  <2>4. ServingIsListed'
    BY <1>21 DEF Erase, HandlerTypeOK, ServingIsListed
  <2>5. StopClean'
    BY <1>21 DEF Erase, MainTypeOK, HandlerTypeOK, OwnerInv, StopClean
  <2> QED BY <2>1, <2>2, <2>3, <2>4, <2>5 DEF BookInv
<1>22. ASSUME NEW c \in Conn, Exit(c)
      PROVE  BookInv'
  BY <1>22 DEF Exit, Closed, Listed, BookInv, MainTypeOK, HandlerTypeOK,
               NetTypeOK, AcceptInv, OwnerInv, ListInv, SocketInv, TableInv,
               ServingIsListed, StopClean
<1>23. ASSUME NEW c \in Conn, NEW h \in Handle, NEW p \in Packet, SendTo(c, h, p)
      PROVE  BookInv'
  BY <1>23 DEF SendTo, BookInv, MainTypeOK, HandlerTypeOK, NetTypeOK,
               AcceptInv, OwnerInv, ListInv, SocketInv, TableInv,
               ServingIsListed, StopClean
<1>24. ASSUME NEW c \in Conn, SysSend(c)
      PROVE  BookInv'
  <2>1. /\ UNCHANGED <<mainVars, m_client_list, client_id, m_socket, os_socket,
                        collided>>
        /\ pc[c] \in {"sending", "replying"} /\ pc'[c] \in {"dispatch", "loop"}
        /\ \A e \in Conn \ {c} : pc'[e] = pc[e]
    BY <1>24 DEF SysSend, HandlerTypeOK
  <2>2. ListInv'
    BY <2>1 DEF ListInv
  <2>3. SocketInv'
    BY <2>1 DEF SocketInv
  <2>4. TableInv'
    BY <2>1 DEF TableInv
  <2>5. ServingIsListed'
    BY <2>1 DEF ServingIsListed
  <2>6. StopClean'
    BY <2>1 DEF StopClean, NetTypeOK
  <2> QED BY <2>2, <2>3, <2>4, <2>5, <2>6 DEF BookInv
<1>25. ASSUME NEW c \in Conn, NEW p \in Packet, Reply(c, p)
      PROVE  BookInv'
  BY <1>25 DEF Reply, BookInv, MainTypeOK, HandlerTypeOK, NetTypeOK,
               AcceptInv, OwnerInv, ListInv, SocketInv, TableInv,
               ServingIsListed, StopClean
<1>26. ASSUME NEW c \in Conn, NoReply(c)
      PROVE  BookInv'
  BY <1>26 DEF NoReply, BookInv, MainTypeOK, HandlerTypeOK, NetTypeOK,
               AcceptInv, OwnerInv, ListInv, SocketInv, TableInv,
               ServingIsListed, StopClean
<1>27. ASSUME NEW c \in Conn, PeerConnect(c)
      PROVE  BookInv'
  BY <1>27 DEF PeerConnect, BookInv, MainTypeOK, HandlerTypeOK, NetTypeOK,
               AcceptInv, OwnerInv, ListInv, SocketInv, TableInv,
               ServingIsListed, StopClean
<1>28. ASSUME NEW c \in Conn, NEW p \in Packet, PeerSend(c, p)
      PROVE  BookInv'
  BY <1>28 DEF PeerSend, BookInv, MainTypeOK, HandlerTypeOK, NetTypeOK,
               AcceptInv, OwnerInv, ListInv, SocketInv, TableInv,
               ServingIsListed, StopClean
<1>29. ASSUME NEW c \in Conn, PeerRead(c)
      PROVE  BookInv'
  BY <1>29 DEF PeerRead, BookInv, MainTypeOK, HandlerTypeOK, NetTypeOK,
               AcceptInv, OwnerInv, ListInv, SocketInv, TableInv,
               ServingIsListed, StopClean
<1>30. ASSUME NEW c \in Conn, PeerClose(c)
      PROVE  BookInv'
  BY <1>30 DEF PeerClose, BookInv, MainTypeOK, HandlerTypeOK, NetTypeOK,
               AcceptInv, OwnerInv, ListInv, SocketInv, TableInv,
               ServingIsListed, StopClean
<1>31. ASSUME NEW c \in Conn, PeerReset(c)
      PROVE  BookInv'
  BY <1>31 DEF PeerReset, BookInv, MainTypeOK, HandlerTypeOK, NetTypeOK,
               AcceptInv, OwnerInv, ListInv, SocketInv, TableInv,
               ServingIsListed, StopClean
<1>32. CASE UNCHANGED vars
  BY <1>32 DEF BookInv, MainTypeOK, HandlerTypeOK, NetTypeOK, AcceptInv,
               OwnerInv, ListInv, SocketInv, TableInv, ServingIsListed,
               StopClean
<1> QED
  BY <1>1, <1>2, <1>3, <1>4, <1>5, <1>6, <1>7, <1>8, <1>9, <1>10, <1>11,
     <1>12, <1>13, <1>14, <1>15, <1>16, <1>17, <1>18, <1>19, <1>20, <1>21,
     <1>22, <1>23, <1>24, <1>25, <1>26, <1>27, <1>28, <1>29, <1>30, <1>31,
     <1>32, <1>33
  DEF Next, Owner, AcceptThread, Serve, Dispatch, Answer, Peer

\* Whose connection a handle leads to, as long as no set_keep_alive failed.
HandleInv == HeldInv /\ SocketOwned /\ SendInv /\ StrayOnlyFromDeparted

\* The addressee of a packet on its way to a peer is a connection.
LEMMA OutboxTo ==
  ASSUME TypeOK, NEW d \in Conn, NEW i \in DOMAIN outbox[d]
  PROVE  outbox[d][i].to \in Conn
<1>1. outbox[d] \in Seq(Delivery)
  BY DEF NetTypeOK
<1>2. outbox[d][i] \in Delivery
  BY <1>1
<1> QED BY <1>2 DEF Delivery

\* A step that sends nothing sends nothing astray.
LEMMA StrayFrame ==
  ASSUME TypeOK, StrayOnlyFromDeparted,
         ka_failed' = {} => ka_failed = {},
         \A d \in Conn : outbox'[d] = outbox[d] \/ outbox'[d] = << >>,
         \A t \in Conn : client_id[t] # None => client_id'[t] = client_id[t],
         \A t \in Conn : pc[t] \in Departed => pc'[t] \in Departed
  PROVE  StrayOnlyFromDeparted'
<1> SUFFICES ASSUME ka_failed' = {}, NEW d \in Conn, NEW i \in DOMAIN outbox'[d],
                    outbox'[d][i].to # d
             PROVE  /\ client_id'[outbox'[d][i].to] = client_id'[d]
                    /\ pc'[outbox'[d][i].to] \in Departed
  BY DEF StrayOnlyFromDeparted
<1>1. outbox'[d] = outbox[d]
  OBVIOUS
<1> DEFINE t == outbox[d][i].to
<1>2. t \in Conn
  BY <1>1, OutboxTo
<1>3. client_id[t] = client_id[d] /\ pc[t] \in Departed
  BY <1>1, <1>2 DEF StrayOnlyFromDeparted
<1>4. client_id[t] # None
  BY <1>2, <1>3 DEF HandlerTypeOK
<1> QED BY <1>1, <1>2, <1>3, <1>4

\* The step closes the sockets of the connections in D at most, which are
\* past their service, changes no other socket and sends
\* nothing.
Closes(D) ==
  /\ ka_failed' = {} => ka_failed = {}
  /\ UNCHANGED client_id
  /\ \A d \in Conn : outbox'[d] = outbox[d] \/ outbox'[d] = << >>
  /\ ka_failed' = {} =>
       \A h \in Handle : os_socket'[h] = os_socket[h] \/ \E x \in D : m_socket[x] = h
  /\ \A x \in D : /\ pc[x] # "invalidate" /\ pc'[x] \in Departed
                  /\ m_socket'[x] = None \/ pc'[x] = "invalidate"
  /\ \A x \in Conn \ D : m_socket'[x] = m_socket[x] \/ m_socket'[x] = None
  /\ \A x \in Conn :
       /\ pc[x] = "invalidate" => pc'[x] = "invalidate" \/ m_socket'[x] = None
       /\ pc[x] \in Departed => pc'[x] \in Departed
       /\ pc'[x] \in {"accepted", "leaked", "start"} =>
            pc[x] \in {"accepted", "leaked", "start"}
       /\ pc'[x] \in {"sending", "replying"} =>
            pc[x] \in {"sending", "replying"} /\ sendop'[x] = sendop[x]

\* Such a step leaves every handle with its connection.
LEMMA CloseFrame ==
  ASSUME IInv, NEW D \in SUBSET Conn, Closes(D)
  PROVE  HandleInv'
<1> USE DEF Closes
<1> SUFFICES ASSUME ka_failed' = {}
             PROVE  HandleInv'
  BY DEF HandleInv, HeldInv, SocketOwned, SendInv, StrayOnlyFromDeparted
<1>1. ASSUME NEW h \in Handle, NEW d \in Conn \ D, os_socket[h] = d
      PROVE  os_socket'[h] = d
  BY <1>1 DEF SocketOwned
<1>2. HeldInv'
  <2> SUFFICES ASSUME NEW d \in Conn, pc'[d] \in {"accepted", "leaked", "start"}
               PROVE  os_socket'[client_id[d]] = d
    BY DEF HeldInv
  <2>1. os_socket[client_id[d]] = d /\ client_id[d] \in Handle /\ d \notin D
    BY DEF HeldInv, HandlerTypeOK
  <2> QED BY <2>1, <1>1
<1>3. SocketOwned'
  <2> SUFFICES ASSUME NEW d \in Conn, m_socket'[d] # None, pc'[d] # "invalidate"
               PROVE  os_socket'[m_socket'[d]] = d
    BY DEF SocketOwned
  <2>1. d \notin D /\ m_socket'[d] = m_socket[d] /\ m_socket[d] \in Handle
    BY DEF HandlerTypeOK
  <2>2. os_socket[m_socket[d]] = d
    BY <2>1 DEF SocketOwned
  <2> QED BY <2>1, <2>2, <1>1
<1>4. SendInv'
  <2> SUFFICES ASSUME NEW c \in Conn, pc'[c] \in {"sending", "replying"},
                      sendop'[c].sock # None
               PROVE  LET op == sendop'[c] IN
                      /\ client_id[op.to] = op.sock
                      /\ os_socket'[op.sock] = op.to \/ pc'[op.to] \in Departed
    BY DEF SendInv
  <2> DEFINE op == sendop[c]
  <2>1. pc[c] \in {"sending", "replying"} /\ sendop'[c] = op
    OBVIOUS
  <2>2. op.to \in Conn /\ op.sock \in Handle
    BY <2>1 DEF HandlerTypeOK, SendOp
  <2>3. /\ client_id[op.to] = op.sock
        /\ os_socket[op.sock] = op.to \/ pc[op.to] \in Departed
    BY <2>1 DEF SendInv
  <2>4. CASE op.to \in D
    BY <2>1, <2>3, <2>4
  <2>5. CASE op.to \notin D
    BY <2>1, <2>2, <2>3, <2>5, <1>1
  <2> QED BY <2>4, <2>5
<1>5. StrayOnlyFromDeparted'
  BY StrayFrame
<1> QED BY <1>2, <1>3, <1>4, <1>5 DEF HandleInv

\* No step puts another connection behind the handle of a client in service.
LEMMA HandleStep ==
  ASSUME IInv, [Next]_vars
  PROVE  HandleInv'
<1>1. ASSUME StartUp
      PROVE  HandleInv'
  <2>1. Closes({})
    BY <1>1 DEF Closes, StartUp, CanStart, MainTypeOK, HandlerTypeOK,
                AcceptInv
  <2> QED BY <2>1, CloseFrame
<1>2. ASSUME NEW e \in StartError, StartFails(e)
      PROVE  HandleInv'
  <2>1. Closes({})
    BY <1>2 DEF Closes, StartFails, CanStart, MainTypeOK, HandlerTypeOK,
                AcceptInv
  <2> QED BY <2>1, CloseFrame
<1>3. ASSUME NEW again \in BOOLEAN, Stop(again)
      PROVE  HandleInv'
  <2>1. Closes({})
    BY <1>3 DEF Closes, Stop, MainTypeOK, HandlerTypeOK, AcceptInv
  <2> QED BY <2>1, CloseFrame
<1>4. ASSUME CloseListener
      PROVE  HandleInv'
  <2>1. Closes({})
    BY <1>4 DEF Closes, CloseListener, MainTypeOK, HandlerTypeOK, AcceptInv
  <2> QED BY <2>1, CloseFrame
<1>5. ASSUME JoinAccept
      PROVE  HandleInv'
  <2>1. Closes({})
    BY <1>5 DEF Closes, JoinAccept, MainTypeOK, HandlerTypeOK, AcceptInv
  <2> QED BY <2>1, CloseFrame
<1>6. ASSUME JoinClients
      PROVE  HandleInv'
  <2>1. Closes({})
    BY <1>6 DEF Closes, JoinClients, MainTypeOK, HandlerTypeOK, AcceptInv
  <2> QED BY <2>1, CloseFrame
<1>7. ASSUME Clear
      PROVE  HandleInv'
  <2> DEFINE D == {d \in Conn : Listed(d)}
  <2>1. \A x \in Conn : pc[x] \notin Live
    BY <1>7 DEF Clear, OwnerInv
  <2>2. \A x \in D : pc[x] = "done"
    BY <2>1 DEF Listed, ListInv
  <2>3. Closes(D)
    BY <1>7, <2>1, <2>2 DEF Closes, Clear, Closed, MainTypeOK,
                            HandlerTypeOK, AcceptInv
  <2> QED BY <2>1, <2>2, <2>3, CloseFrame
<1>8. ASSUME AcceptLoop
      PROVE  HandleInv'
  <2>1. Closes({})
    BY <1>8 DEF Closes, AcceptLoop, MainTypeOK, HandlerTypeOK, AcceptInv
  <2> QED BY <2>1, CloseFrame
<1>9. ASSUME NEW c \in Conn, NEW h \in Handle, Accept(c, h)
      PROVE  HandleInv'
  <2>1. HeldInv'
    BY <1>9 DEF Accept, MainTypeOK, HandlerTypeOK, NetTypeOK, HeldInv,
                AcceptInv
  <2>2. SocketOwned'
    BY <1>9 DEF Accept, MainTypeOK, HandlerTypeOK, NetTypeOK, SocketOwned,
                HeldInv
  <2>3. SendInv'
    BY <1>9 DEF Accept, MainTypeOK, HandlerTypeOK, NetTypeOK, SendInv,
                SocketOwned, SocketInv, TableInv, ListInv, SendOp
  <2>4. StrayOnlyFromDeparted'
    BY <1>9, StrayFrame DEF Accept, HandlerTypeOK
  <2> QED BY <2>1, <2>2, <2>3, <2>4 DEF HandleInv
<1>10. ASSUME AcceptInvalid
      PROVE  HandleInv'
  <2>1. Closes({})
    BY <1>10 DEF Closes, AcceptInvalid, MainTypeOK, HandlerTypeOK, AcceptInv
  <2> QED BY <2>1, CloseFrame
<1>11. ASSUME AdmitNot
      PROVE  HandleInv'
  <2>1. Closes({})
    BY <1>11 DEF Closes, AdmitNot, MainTypeOK, HandlerTypeOK, AcceptInv
  <2> QED BY <2>1, CloseFrame
<1>12. ASSUME Admit
      PROVE  HandleInv'
  <2>1. Closes({})
    BY <1>12 DEF Closes, Admit, MainTypeOK, HandlerTypeOK, AcceptInv
  <2> QED BY <2>1, CloseFrame
<1>13. ASSUME NEW alive \in KeepAlive, Spawn(alive)
      PROVE  HandleInv'
  <2>1. Closes({})
    BY <1>13 DEF Closes, Spawn, Closed, MainTypeOK, HandlerTypeOK, AcceptInv
  <2> QED BY <2>1, CloseFrame
<1>14. ASSUME NEW c \in Conn, Register(c)
      PROVE  HandleInv'
  <2>1. HeldInv'
    BY <1>14 DEF Register, MainTypeOK, HandlerTypeOK, NetTypeOK, HeldInv,
                 AcceptInv
  <2>2. SocketOwned'
    BY <1>14 DEF Register, MainTypeOK, HandlerTypeOK, NetTypeOK,
                 SocketOwned, HeldInv
  <2>3. SendInv'
    BY <1>14 DEF Register, MainTypeOK, HandlerTypeOK, NetTypeOK, SendInv,
                 SocketOwned, SocketInv, TableInv, ListInv, SendOp
  <2>4. StrayOnlyFromDeparted'
    BY <1>14 DEF Register, MainTypeOK, HandlerTypeOK, NetTypeOK,
                 StrayOnlyFromDeparted
  <2> QED BY <2>1, <2>2, <2>3, <2>4 DEF HandleInv
<1>15. ASSUME NEW c \in Conn, Loop(c)
      PROVE  HandleInv'
  <2>1. Closes({})
    BY <1>15 DEF Closes, Loop, MainTypeOK, HandlerTypeOK, AcceptInv
  <2> QED BY <2>1, CloseFrame
<1>16. ASSUME NEW c \in Conn, RecvPacket(c)
      PROVE  HandleInv'
  <2>1. Closes({})
    BY <1>16 DEF Closes, RecvPacket, MainTypeOK, HandlerTypeOK, AcceptInv
  <2> QED BY <2>1, CloseFrame
<1>17. ASSUME NEW c \in Conn, RecvDisconnect(c)
      PROVE  HandleInv'
  <2>1. Closes({c})
    BY <1>17 DEF Closes, RecvDisconnect, Closed, MainTypeOK, HandlerTypeOK,
                 AcceptInv
  <2> QED BY <2>1, CloseFrame
<1>18. ASSUME NEW c \in Conn, Invalidate(c)
      PROVE  HandleInv'
  <2>1. Closes({})
    BY <1>18 DEF Closes, Invalidate, MainTypeOK, HandlerTypeOK, AcceptInv
  <2> QED BY <2>1, CloseFrame
<1>19. ASSUME NEW c \in Conn, RecvNotSocket(c)
      PROVE  HandleInv'
  <2>1. Closes({})
    BY <1>19 DEF Closes, RecvNotSocket, MainTypeOK, HandlerTypeOK, AcceptInv
  <2> QED BY <2>1, CloseFrame
<1>20. ASSUME NEW c \in Conn, RecvBodyReset(c)
      PROVE  HandleInv'
  <2>1. Closes({})
    BY <1>20 DEF Closes, RecvBodyReset, MainTypeOK, HandlerTypeOK, AcceptInv
  <2> QED BY <2>1, CloseFrame
<1>33. ASSUME NEW c \in Conn, RecvNoSize(c)
      PROVE  HandleInv'
  <2>1. Closes({})
    BY <1>33 DEF Closes, RecvNoSize, MainTypeOK, HandlerTypeOK, AcceptInv
  <2> QED BY <2>1, CloseFrame
<1>21. ASSUME NEW c \in Conn, Erase(c)
      PROVE  HandleInv'
  <2> DEFINE e == m_client_list[client_id[c]]
             D == IF e # None /\ pc[e] \notin Live THEN {e} ELSE {}
  <2>1. client_id[c] \in Handle /\ e \in Conn \cup {None}
    BY <1>21 DEF Erase, HandlerTypeOK
  <2>2. e # None => /\ client_id[e] = client_id[c]
                    /\ pc[e] \in Serving \cup {"exit", "done"}
    BY <2>1 DEF ListInv
  <2>3. Closes(D)
    <3>1. CASE e # None /\ pc[e] \notin Live
      BY <1>21, <2>1, <2>2, <3>1 DEF Closes, Erase, Closed, HandlerTypeOK
    <3>2. CASE ~(e # None /\ pc[e] \notin Live)
      BY <1>21, <3>2 DEF Closes, Erase, HandlerTypeOK
    <3> QED BY <3>1, <3>2
  <2> QED BY <2>1, <2>2, <2>3, CloseFrame
<1>22. ASSUME NEW c \in Conn, Exit(c)
      PROVE  HandleInv'
  <2> DEFINE D == IF Listed(c) THEN {} ELSE {c}
  <2>1. Closes(D)
    BY <1>22 DEF Closes, Exit, Closed, MainTypeOK, HandlerTypeOK, AcceptInv
  <2> QED BY <2>1, CloseFrame
<1>23. ASSUME NEW c \in Conn, NEW h \in Handle, NEW p \in Packet, SendTo(c, h, p)
      PROVE  HandleInv'
  <2>1. HeldInv'
    BY <1>23 DEF SendTo, MainTypeOK, HandlerTypeOK, NetTypeOK, HeldInv,
                 AcceptInv
  <2>2. SocketOwned'
    BY <1>23 DEF SendTo, MainTypeOK, HandlerTypeOK, NetTypeOK, SocketOwned,
                 HeldInv
  <2>3. SendInv'
    BY <1>23 DEF SendTo, MainTypeOK, HandlerTypeOK, NetTypeOK, SendInv,
                 SocketOwned, SocketInv, TableInv, ListInv, SendOp
  <2>4. StrayOnlyFromDeparted'
    BY <1>23 DEF SendTo, MainTypeOK, HandlerTypeOK, NetTypeOK,
                 StrayOnlyFromDeparted
  <2> QED BY <2>1, <2>2, <2>3, <2>4 DEF HandleInv
<1>24. ASSUME NEW c \in Conn, SysSend(c)
      PROVE  HandleInv'
  <2> DEFINE op == sendop[c]
             d == At(op.sock)
  <2>1. op \in SendOp /\ d \in Conn \cup {None}
    BY <1>24 DEF SysSend, HandlerTypeOK, NetTypeOK, At, SendOp
  <2>2. HeldInv' /\ SocketOwned' /\ SendInv'
    BY <1>24 DEF SysSend, HandlerTypeOK, HeldInv, SocketOwned, SendInv, SendOp
  <2>3. StrayOnlyFromDeparted'
    <3>0. UNCHANGED <<ka_failed, client_id>>
      BY <1>24 DEF SysSend
    <3> SUFFICES ASSUME ka_failed = {}, NEW x \in Conn, NEW i \in DOMAIN outbox'[x],
                        outbox'[x][i].to # x
                 PROVE  /\ client_id[outbox'[x][i].to] = client_id[x]
                        /\ pc'[outbox'[x][i].to] \in Departed
      BY <3>0 DEF StrayOnlyFromDeparted
    <3>1. CASE i \in DOMAIN outbox[x] /\ outbox'[x][i] = outbox[x][i]
      <4>1. outbox[x][i].to \in Conn
        BY <3>1, OutboxTo
      <4> QED BY <1>24, <3>1, <4>1 DEF SysSend, StrayOnlyFromDeparted, HandlerTypeOK
    <3>2. CASE x = d /\ d # None /\ outbox'[x][i].to = op.to
      <4>1. op.sock \in Handle /\ op.to \in Conn /\ os_socket[op.sock] = x
        BY <2>1, <3>2 DEF At, SendOp
      <4>2. client_id[x] = op.sock
        BY <4>1 DEF TableInv
      <4>3. client_id[op.to] = op.sock /\ pc[op.to] \in Departed
        BY <1>24, <3>2, <4>1 DEF SysSend, SendInv
      <4> QED BY <1>24, <3>2, <4>1, <4>2, <4>3 DEF SysSend, HandlerTypeOK
    <3>3. \/ i \in DOMAIN outbox[x] /\ outbox'[x][i] = outbox[x][i]
          \/ x = d /\ d # None /\ outbox'[x][i].to = op.to
      <4>1. outbox[x] \in Seq(Delivery)
        BY DEF NetTypeOK
      <4>2. \/ outbox'[x] = outbox[x]
            \/ x = d /\ d # None
                 /\ outbox'[x] = Append(outbox[x], [to |-> op.to, pkt |-> op.pkt])
        BY <1>24, <2>1 DEF SysSend, Sent, NetTypeOK
      <4> QED BY <4>1, <4>2
    <3> QED BY <3>1, <3>2, <3>3
  <2> QED BY <2>2, <2>3 DEF HandleInv
<1>25. ASSUME NEW c \in Conn, NEW p \in Packet, Reply(c, p)
      PROVE  HandleInv'
  <2>1. HeldInv'
    BY <1>25 DEF Reply, MainTypeOK, HandlerTypeOK, NetTypeOK, HeldInv,
                 AcceptInv
  <2>2. SocketOwned'
    BY <1>25 DEF Reply, MainTypeOK, HandlerTypeOK, NetTypeOK, SocketOwned,
                 HeldInv
  <2>3. SendInv'
    BY <1>25 DEF Reply, MainTypeOK, HandlerTypeOK, NetTypeOK, SendInv,
                 SocketOwned, SocketInv, TableInv, ListInv, SendOp
  <2>4. StrayOnlyFromDeparted'
    BY <1>25 DEF Reply, MainTypeOK, HandlerTypeOK, NetTypeOK,
                 StrayOnlyFromDeparted
  <2> QED BY <2>1, <2>2, <2>3, <2>4 DEF HandleInv
<1>26. ASSUME NEW c \in Conn, NoReply(c)
      PROVE  HandleInv'
  <2>1. Closes({})
    BY <1>26 DEF Closes, NoReply, MainTypeOK, HandlerTypeOK, AcceptInv
  <2> QED BY <2>1, CloseFrame
<1>27. ASSUME NEW c \in Conn, PeerConnect(c)
      PROVE  HandleInv'
  <2>1. Closes({})
    BY <1>27 DEF Closes, PeerConnect, MainTypeOK, HandlerTypeOK, AcceptInv
  <2> QED BY <2>1, CloseFrame
<1>28. ASSUME NEW c \in Conn, NEW p \in Packet, PeerSend(c, p)
      PROVE  HandleInv'
  <2>1. Closes({})
    BY <1>28 DEF Closes, PeerSend, MainTypeOK, HandlerTypeOK, AcceptInv
  <2> QED BY <2>1, CloseFrame
<1>29. ASSUME NEW c \in Conn, PeerRead(c)
      PROVE  HandleInv'
  <2>1. HeldInv'
    BY <1>29 DEF PeerRead, MainTypeOK, HandlerTypeOK, NetTypeOK, HeldInv,
                 AcceptInv
  <2>2. SocketOwned'
    BY <1>29 DEF PeerRead, MainTypeOK, HandlerTypeOK, NetTypeOK,
                 SocketOwned, HeldInv
  <2>3. SendInv'
    BY <1>29 DEF PeerRead, MainTypeOK, HandlerTypeOK, NetTypeOK, SendInv,
                 SocketOwned, SocketInv, TableInv, ListInv, SendOp
  <2>4. StrayOnlyFromDeparted'
    BY <1>29 DEF PeerRead, MainTypeOK, HandlerTypeOK, NetTypeOK,
                 StrayOnlyFromDeparted
  <2> QED BY <2>1, <2>2, <2>3, <2>4 DEF HandleInv
<1>30. ASSUME NEW c \in Conn, PeerClose(c)
      PROVE  HandleInv'
  <2>1. Closes({})
    BY <1>30 DEF Closes, PeerClose, MainTypeOK, HandlerTypeOK, AcceptInv
  <2> QED BY <2>1, CloseFrame
<1>31. ASSUME NEW c \in Conn, PeerReset(c)
      PROVE  HandleInv'
  <2>1. Closes({})
    BY <1>31 DEF Closes, PeerReset, MainTypeOK, HandlerTypeOK, AcceptInv
  <2> QED BY <2>1, CloseFrame
<1>32. CASE UNCHANGED vars
  BY <1>32 DEF HandleInv, HeldInv, SocketOwned, SendInv,
               StrayOnlyFromDeparted
<1> QED
  BY <1>1, <1>2, <1>3, <1>4, <1>5, <1>6, <1>7, <1>8, <1>9, <1>10, <1>11,
     <1>12, <1>13, <1>14, <1>15, <1>16, <1>17, <1>18, <1>19, <1>20, <1>21,
     <1>22, <1>23, <1>24, <1>25, <1>26, <1>27, <1>28, <1>29, <1>30, <1>31,
     <1>32, <1>33
  DEF Next, Owner, AcceptThread, Serve, Dispatch, Answer, Peer

-----------------------------------------------------------------------------
\* IInv holds at first ...
LEMMA InitInv ==
  ASSUME Init
  PROVE  IInv
<1>1. TypeOK
  <2>1. MainTypeOK
    BY DEF Init, MainTypeOK
  <2>2. HandlerTypeOK
    BY DEF Init, HandlerTypeOK
  <2>3. NetTypeOK
    BY DEF Init, NetTypeOK
  <2> QED BY <2>1, <2>2, <2>3
<1>2. AcceptInv /\ OwnerInv /\ ListInv /\ SocketInv /\ TableInv
  BY DEF Init, AcceptInv, OwnerInv, ListInv, SocketInv, TableInv
<1>3. HeldInv /\ SendInv /\ SocketOwned /\ StrayOnlyFromDeparted
  BY DEF Init, HeldInv, SendInv, SocketOwned, StrayOnlyFromDeparted
<1>4. ServingIsListed /\ StopClean
  BY DEF Init, ServingIsListed, StopClean
<1> QED BY <1>1, <1>2, <1>3, <1>4

\* ... and is inductive.
LEMMA Inductive == Spec => []IInv
<1>1. IInv /\ [Next]_vars => IInv'
  BY ControlStep, BookStep, HandleStep DEF BookInv, HandleInv
<1> QED BY InitInv, <1>1, PTL DEF Spec

\* Every variable of the TCP server keeps its type and every thread's locals
\* are set where its position in the code says so.
THEOREM TypeCorrect == Spec => []TypeOK
<1>1. IInv => TypeOK
  OBVIOUS
<1> QED BY <1>1, Inductive, PTL

\* server_client::m_socket: the handle a client holds is its own connection's
\* although handles are re-issued, unless set_keep_alive failed.
THEOREM SocketsOwned == Spec => []SocketOwned
<1>1. IInv => SocketOwned
  OBVIOUS
<1> QED BY <1>1, Inductive, PTL

\* client_handler: a connection in service can be found by send_to, unless the
\* emplace of a connection with its handle met an older entry.
THEOREM ServingListed == Spec => []ServingIsListed
<1>1. IInv => ServingIsListed
  OBVIOUS
<1> QED BY <1>1, Inductive, PTL

\* server::stop: when it has returned there is no thread, no entry and no open
\* socket but one that leaked in handler_thread_routine.
THEOREM StopIsClean == Spec => []StopClean
<1>1. IInv => StopClean
  OBVIOUS
<1> QED BY <1>1, Inductive, PTL

\* client_base::send: a packet arrives at another connection than the one it was
\* sent to only if that one has the handle of an addressee that is gone.
THEOREM StrayFromDeparted == Spec => []StrayOnlyFromDeparted
<1>1. IInv => StrayOnlyFromDeparted
  OBVIOUS
<1> QED BY <1>1, Inductive, PTL
=============================================================================
