--------------------------- MODULE TcpClientProofs ---------------------------
(***************************************************************************)
(* Proofs about TcpClient, for every set of packets and every window.      *)
(***************************************************************************)
EXTENDS TcpClient, TLAPS

\* From ::shutdown to the join the owner is inside disconnect(), and while it
\* joins the loop of the handler thread finds the status disconnected.
JoinsDisconnected == owner = "join" => m_status = "disconnected"

\* Inside send() there is a packet to send.
SendsRequest == owner = "send" => sending \in Request

\* The invariant: ThreadOwned alone says too little of the status in the
\* middle of disconnect() to hold again at its end.
ClientInv ==
  /\ ClientTypeOK
  /\ ThreadOwned
  /\ JoinsDisconnected
  /\ SendsRequest
  /\ ConnectedSocket

\* A step of the handler thread never turns into no thread at all, and leaves
\* the owner, the status and the socket alone.
LEMMA ReceiveKeeps ==
  ASSUME ClientTypeOK, Receive \/ Dispatched
  PROVE  /\ UNCHANGED <<m_status, m_socket, ownerVars, unresolved, peer, outbox>>
         /\ pc # "none" /\ pc' # "none"
         /\ pc' \in ThreadPc
         /\ incoming' \in Packet \cup {None}
         /\ inbox' \in Seq(Packet)
<1> USE DEF ClientTypeOK, ThreadPc, netVars, handlerVars
<1>1. CASE Loop
  BY <1>1 DEF Loop
<1>2. CASE RecvHeader
  <2>1. Head(inbox) \in Packet /\ Tail(inbox) \in Seq(Packet)
    BY <1>2 DEF RecvHeader
  <2> QED
    BY <1>2, <2>1 DEF RecvHeader
<1>3. CASE RecvNothing
  BY <1>3 DEF RecvNothing
<1>4. ASSUME NEW g \in Garbage, RecvGarbage(g) PROVE
         /\ UNCHANGED <<m_status, m_socket, ownerVars, unresolved, peer, outbox>>
         /\ pc # "none" /\ pc' # "none"
         /\ pc' \in ThreadPc
         /\ incoming' \in Packet \cup {None}
         /\ inbox' \in Seq(Packet)
  BY <1>4 DEF RecvGarbage
<1>5. CASE RecvBody
  BY <1>5 DEF RecvBody
<1>6. CASE RecvBodyLost
  BY <1>6 DEF RecvBodyLost
<1>7. CASE Dispatched
  BY <1>7 DEF Dispatched
<1> QED
  BY <1>1, <1>2, <1>3, <1>4, <1>5, <1>6, <1>7 DEF Receive

\* What the server does changes the connection's buffers and nothing of the
\* client's threads.
LEMMA ServerKeeps ==
  ASSUME ClientTypeOK, Server
  PROVE  /\ UNCHANGED <<m_status, m_socket, ownerVars, handlerVars, unresolved>>
         /\ peer' \in {"none", "open", "closed", "reset"}
         /\ inbox' \in Seq(Packet)
         /\ outbox' \in Seq(Request)
<1> USE DEF ClientTypeOK, handlerVars
<1>1. ASSUME NEW p \in Packet, ServerSend(p) PROVE
         /\ UNCHANGED <<m_status, m_socket, ownerVars, handlerVars, unresolved>>
         /\ peer' \in {"none", "open", "closed", "reset"}
         /\ inbox' \in Seq(Packet)
         /\ outbox' \in Seq(Request)
  BY <1>1 DEF ServerSend
<1>2. CASE ServerRead
  BY <1>2 DEF ServerRead
<1>3. CASE ServerClose
  BY <1>3 DEF ServerClose
<1>4. CASE ServerReset
  BY <1>4 DEF ServerReset
<1> QED
  BY <1>1, <1>2, <1>3, <1>4 DEF Server

\* The invariant is inductive.
LEMMA ClientInvInductive ==
  ASSUME ClientInv, [ClientNext]_vars
  PROVE  ClientInv'
<1> USE DEF ClientInv, JoinsDisconnected, SendsRequest, ThreadOwned, ConnectedSocket
<1>1. ASSUME NEW e \in ConnectError, ConnectFails(e) PROVE ClientInv'
  BY <1>1 DEF ConnectFails, OwnerIdle, Alive, ConnectError, ClientTypeOK, OwnerPc,
    ThreadPc, ownerVars, handlerVars, netVars
<1>2. ASSUME NEW found \in Resolve, Connected(found) PROVE ClientInv'
  <2>1. found \in BOOLEAN /\ unresolved' \in BOOLEAN
    BY <1>2, ClientBoundAssumption, Zenon DEF Connected
  <2>2. m_socket' = "open" \/ unresolved'
    <3>1. CASE found
      BY <1>2, <3>1 DEF Connected
    <3>2. CASE ~found
      BY <1>2, <3>2, Zenon DEF Connected
    <3> QED BY <3>1, <3>2
  <2>3. m_socket' \in {"fresh", "open"} /\ peer' \in {"none", "open"}
    BY <1>2 DEF Connected
  <2>4. ClientTypeOK'
    BY <1>2, <2>1, <2>3 DEF Connected, ClientTypeOK, OwnerPc, ThreadPc, ownerVars
  <2> QED
    BY <1>2, <2>2, <2>4 DEF Connected, OwnerIdle, ownerVars
<1>3. ASSUME NEW r \in Request, SendBegin(r) PROVE ClientInv'
  BY <1>3 DEF SendBegin, OwnerIdle, Alive, ClientTypeOK, OwnerPc, ThreadPc,
    handlerVars, netVars
<1>4. CASE SendOk
  <2>1. outbox' \in Seq(Request)
    <3>1. CASE peer = "open"
      <4>1. sending \in Request
        BY <1>4 DEF SendOk
      <4> QED BY <1>4, <3>1, <4>1 DEF SendOk, ClientTypeOK
    <3> QED BY <1>4, <3>1 DEF SendOk, ClientTypeOK
  <2> QED
    BY <1>4, <2>1 DEF SendOk, ClientTypeOK, OwnerPc, ThreadPc, handlerVars
<1>5. CASE SendFails
  BY <1>5 DEF SendFails, ClientTypeOK, OwnerPc, ThreadPc, handlerVars, netVars
<1>6. ASSUME NEW d \in BOOLEAN, Shutdown(d) PROVE ClientInv'
  BY <1>6 DEF Shutdown, OwnerIdle, Alive, ClientTypeOK, OwnerPc, ThreadPc,
    handlerVars, netVars
<1>7. CASE CloseSocket
  BY <1>7 DEF CloseSocket, ClientTypeOK, OwnerPc, ThreadPc, handlerVars, netVars
<1>8. CASE Disconnected
  BY <1>8 DEF Disconnected, ClientTypeOK, OwnerPc, ThreadPc, handlerVars, netVars
<1>9. CASE Join
  BY <1>9 DEF Join, ClientTypeOK, OwnerPc, ThreadPc, netVars
<1>10. CASE Destroy
  BY <1>10 DEF Destroy, OwnerIdle, Alive, ClientTypeOK, OwnerPc, ThreadPc,
    handlerVars, netVars
<1>11. CASE Receive \/ Dispatched
  BY <1>11, ReceiveKeeps DEF ClientTypeOK, ownerVars
<1>12. CASE Server
  BY <1>12, ServerKeeps DEF ClientTypeOK, ownerVars, handlerVars
<1>13. CASE UNCHANGED vars
  BY <1>13 DEF vars, ownerVars, handlerVars, netVars, ClientTypeOK
<1> QED
  BY <1>1, <1>2, <1>3, <1>4, <1>5, <1>6, <1>7, <1>8, <1>9, <1>10, <1>11, <1>12,
    <1>13 DEF ClientNext, Owner, Disconnecting

\* A client that was just constructed satisfies it.
LEMMA ClientInitInv ==
  ASSUME ClientInit
  PROVE  ClientInv
<1>1. destroying \in BOOLEAN /\ unresolved \in BOOLEAN
  BY Zenon DEF ClientInit
<1>2. ClientTypeOK
  BY <1>1 DEF ClientInit, ClientTypeOK, OwnerPc, ThreadPc
<1>3. ThreadOwned /\ JoinsDisconnected /\ SendsRequest /\ ConnectedSocket
  BY DEF ClientInit, ThreadOwned, JoinsDisconnected, SendsRequest, ConnectedSocket
<1> QED
  BY <1>2, <1>3 DEF ClientInv

\* Every state of the client satisfies the invariant.
LEMMA ClientInvariant == ClientSpec => []ClientInv
<1>1. ClientInit => ClientInv
  BY ClientInitInv
<1>2. ClientInv /\ [ClientNext]_vars => ClientInv'
  BY ClientInvInductive
<1> QED
  BY <1>1, <1>2, PTL DEF ClientSpec

-----------------------------------------------------------------------------
(* The theorems.                                                            *)

\* The type invariant holds for any packets, requests and window.
THEOREM ClientTypeCorrect == ClientSpec => []ClientTypeOK
<1>1. ClientInv => ClientTypeOK
  BY DEF ClientInv
<1> QED
  BY <1>1, ClientInvariant, PTL

\* A handler thread exists exactly while the client is connected, so connect()
\* never assigns to a thread that was not joined and ~client() leaves none.
THEOREM ThreadIsOwned == ClientSpec => []ThreadOwned
<1>1. ClientInv => ThreadOwned
  BY DEF ClientInv
<1> QED
  BY <1>1, ClientInvariant, PTL

\* A client that says it is connected reads an open socket, unless the
\* server's name did not resolve.
THEOREM ConnectedHasSocket == ClientSpec => []ConnectedSocket
<1>1. ClientInv => ConnectedSocket
  BY DEF ClientInv
<1> QED
  BY <1>1, ClientInvariant, PTL

\* connect() is the one call that creates a socket, and it does so on a client
\* that is not connected, hence when no handler thread is left to read the
\* handle it overwrites.
THEOREM SocketIsNotReplaced == ClientSpec => SocketNotReplaced
<1> DEFINE Kept == m_socket' \in {"fresh", "open"} /\ m_socket' # m_socket
                     => pc = "none"
<1>1. ASSUME ClientInv, [ClientNext]_vars PROVE [Kept]_vars
  <2> SUFFICES ASSUME ClientNext PROVE Kept
    BY <1>1
  <2>1. ASSUME NEW found \in Resolve, Connected(found) PROVE Kept
    BY <1>1, <2>1 DEF Connected, OwnerIdle, ClientInv, ThreadOwned
  <2>2. CASE Receive \/ Dispatched
    BY <1>1, <2>2, ReceiveKeeps DEF ClientInv
  <2>3. CASE Server
    BY <1>1, <2>3, ServerKeeps DEF ClientInv
  <2> QED
    BY <1>1, <2>1, <2>2, <2>3 DEF ClientNext, Owner, Disconnecting, ConnectFails,
      SendBegin, SendOk, SendFails, Shutdown, CloseSocket, Disconnected, Join,
      Destroy, ConnectError
<1> QED
  BY <1>1, ClientInvariant, PTL DEF ClientSpec, SocketNotReplaced
=============================================================================
