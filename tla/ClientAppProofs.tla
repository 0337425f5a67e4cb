--------------------------- MODULE ClientAppProofs ---------------------------
(***************************************************************************)
(* The application with its window implements TcpClient: each step of one   *)
(* is a step of the other or leaves the TCP client alone.  What is proved   *)
(* of TcpClient then holds of the application.                              *)
(*                                                                         *)
(* The window's buttons: through every interleaving of the callbacks'       *)
(* output with that of the packet handlers, the user can connect or         *)
(* disconnect, and no button that needs a connection is there without one.  *)
(***************************************************************************)
EXTENDS ClientApp, TcpClientProofs, Integers, SequenceTheorems

\* A packet is being read or handled.
HasPacket == pc \in {"body", "dispatch"} => incoming \in Packet

\* A packet handler is at work only inside dispatch(), and the session is
\* assigned only by the handler of a login's answer.
AtWork ==
  /\ pc # "dispatch" => h_pc = "enter" /\ h_ops = <<>>
  /\ h_pc = "session" => incoming.cmd = "login"

\* The application's own data that ends up in a packet.
DataOK ==
  /\ m_cookie \in Session \cup {Empty, Torn}
  /\ answer \in Packet \cup {None}
  /\ asked \in Int

AppInv == ClientInv /\ HasPacket /\ AtWork /\ DataOK

-----------------------------------------------------------------------------
(* What is sent is a packet of the protocol.                                *)

\* A hello and a login are requests.
LEMMA PlainRequests ==
  /\ [cmd |-> "hello"] \in Request
  /\ \A valid \in BOOLEAN : [cmd |-> "login", valid |-> valid] \in Request
  BY AppAssumption DEF AppRequest

\* A logout and a message carry the cookie as it is, torn or not.
LEMMA SessionRequests ==
  ASSUME DataOK, NEW cmd \in {"logout", "message"}
  PROVE  WithSession(cmd) \in Request
<1>1. (asked > 0) \in BOOLEAN
  BY DEF DataOK
<1> QED
  BY <1>1, AppAssumption DEF AppRequest, WithSession, DataOK

\* So is what the server answers.
LEMMA Answers ==
  /\ [cmd |-> "hello"] \in Packet
  /\ [cmd |-> "message"] \in Packet
  /\ \A b \in BOOLEAN : [cmd |-> "logout", status |-> IfOk(b)] \in Packet
  /\ \A b \in BOOLEAN : [cmd |-> "message_reply", status |-> IfOk(b)] \in Packet
  /\ \A b \in BOOLEAN, s \in Session \cup {Empty} :
       [cmd |-> "login", status |-> IfOk(b), session |-> s] \in Packet
<1>1. \A b \in BOOLEAN : IfOk(b) \in Outcome
  BY DEF IfOk, Outcome
<1> QED
  BY <1>1, AppAssumption DEF AppPacket

\* The answer to a login has a session.
LEMMA LoginAnswers ==
  ASSUME NEW p \in Packet, p.cmd = "login"
  PROVE  p.session \in Session \cup {Empty}
  BY AppAssumption DEF AppPacket

-----------------------------------------------------------------------------
(* Every step of the application is a step of the TCP client.               *)

\* The window's thread.
LEMMA UserSteps ==
  ASSUME AppInv, UiStep \/ User
  PROVE  [Owner]_vars /\ UNCHANGED workVars
<1> USE DEF AppInv
<1>1. CASE Hello
  BY <1>1, PlainRequests DEF Hello, Owner
<1>2. CASE Sent
  BY <1>2 DEF Sent, Owner
<1>3. CASE SentNot
  BY <1>3 DEF SentNot, Owner
<1>4. CASE DisconnectStep
  BY <1>4 DEF DisconnectStep, Owner, Disconnecting
<1>5. CASE UiOutput
  BY <1>5 DEF UiOutput
<1>6. CASE UiReturn
  BY <1>6 DEF UiReturn
<1>7. CASE DestroyClient
  BY <1>7 DEF DestroyClient, Owner, appVars, workVars
<1>8. ASSUME NEW e \in ConnectError, ClickConnectFails(e)
      PROVE  [Owner]_vars /\ UNCHANGED workVars
  BY <1>8 DEF ClickConnectFails, Owner
<1>9. ASSUME NEW found \in Resolve, ClickConnect(found)
      PROVE  [Owner]_vars /\ UNCHANGED workVars
  BY <1>9 DEF ClickConnect, Owner
<1>10. CASE ClickConnectAgain
  BY <1>10 DEF ClickConnectAgain
<1>11. ASSUME NEW valid \in BOOLEAN, ClickLogin(valid)
       PROVE  [Owner]_vars /\ UNCHANGED workVars
  BY <1>11, PlainRequests DEF ClickLogin, Owner
<1>12. CASE ClickLogout
  <2>1. WithSession("logout") \in Request
    BY SessionRequests
  <2> QED
    BY <1>12, <2>1 DEF ClickLogout, Owner
<1>13. CASE ClickSend
  <2>1. WithSession("message") \in Request
    BY SessionRequests
  <2> QED
    BY <1>13, <2>1 DEF ClickSend, Owner
<1>14. CASE ClickDisconnect
  BY <1>14 DEF ClickDisconnect, Owner
<1>15. CASE CloseWindow
  BY <1>15 DEF CloseWindow
<1> QED
  BY <1>1, <1>2, <1>3, <1>4, <1>5, <1>6, <1>7, <1>8, <1>9, <1>10, <1>11, <1>12,
    <1>13, <1>14, <1>15 DEF UiStep, User

\* The handler thread.
LEMMA HandlerSteps ==
  ASSUME AppInv, HandlerStep
  PROVE  [Receive \/ Dispatched]_vars
  BY DEF HandlerStep, Handle, SetSession, Output, Return

\* The server.
LEMMA ServerSteps ==
  ASSUME AppInv, ChatServer
  PROVE  [Server]_vars /\ UNCHANGED <<workVars, m_cookie, handlerVars>>
<1> USE DEF AppInv, DataOK
<1>1. CASE ServerHello \/ ServerLogin \/ ServerLogout \/ ServerMessage
  BY <1>1 DEF ServerHello, ServerLogin, ServerLogout, ServerMessage, Reply, Server,
    ServerRead, handlerVars
<1>2. CASE ServerReply
  <2>1. answer \in Packet
    BY <1>2 DEF ServerReply
  <2> QED
    BY <1>2, <2>1 DEF ServerReply, Server, ServerSend, handlerVars
<1>3. CASE ServerRelay
  BY <1>3, Answers DEF ServerRelay, Server, ServerSend, appVars, workVars
<1>4. CASE ServerLeaves
  BY <1>4 DEF ServerLeaves, Server, ServerClose, ServerReset
<1>5. CASE ServerGoesOn
  BY <1>5 DEF ServerGoesOn, vars
<1> QED
  BY <1>1, <1>2, <1>3, <1>4, <1>5 DEF ChatServer, ServerAnswer

-----------------------------------------------------------------------------
(* The invariant of the application's threads.                              *)

\* A call of connect, send, disconnect or ~client and what the server does
\* leave a packet handler alone.
LEMMA OwnerLeavesHandler ==
  ASSUME ClientInv, HasPacket, Owner
  PROVE  /\ incoming' = incoming
         /\ pc' = pc \/ (pc # "dispatch" /\ pc' \notin {"body", "dispatch"})
  BY DEF Owner, ConnectFails, Connected, SendBegin, SendOk, SendFails, Shutdown,
    CloseSocket, Disconnected, Join, Destroy, Disconnecting, handlerVars, ClientInv,
    ThreadOwned, OwnerIdle

\* A step of the handler thread outside dispatch().
LEMMA ReceiveHandsOver ==
  ASSUME ClientInv, HasPacket, Receive
  PROVE  pc # "dispatch" /\ HasPacket'
<1>1. CASE RecvHeader
  BY <1>1 DEF RecvHeader, HasPacket, ClientInv, ClientTypeOK
<1>2. CASE RecvBody
  BY <1>2 DEF RecvBody, HasPacket
<1>3. CASE Loop \/ RecvNothing \/ RecvBodyLost
  BY <1>3 DEF Loop, RecvNothing, RecvBodyLost, HasPacket
<1>4. ASSUME NEW g \in Garbage, RecvGarbage(g) PROVE pc # "dispatch" /\ HasPacket'
  BY <1>4 DEF RecvGarbage, HasPacket
<1> QED
  BY <1>1, <1>2, <1>3, <1>4 DEF Receive

\* Each step of the application is one that TcpClient allows.
LEMMA StepRefines ==
  ASSUME AppInv, [AppNext]_app_vars
  PROVE  [ClientNext]_vars
<1>1. CASE UiStep \/ User
  BY <1>1, UserSteps DEF ClientNext
<1>2. CASE HandlerStep
  BY <1>2, HandlerSteps DEF ClientNext
<1>3. CASE ChatServer
  BY <1>3, ServerSteps DEF ClientNext
<1>4. CASE UNCHANGED app_vars
  BY <1>4 DEF app_vars
<1> QED
  BY <1>1, <1>2, <1>3, <1>4 DEF AppNext

\* The invariant is inductive.
LEMMA AppInvInductive ==
  ASSUME AppInv, [AppNext]_app_vars
  PROVE  AppInv'
<1> USE DEF AppInv
<1>1. ClientInv'
  BY StepRefines, ClientInvInductive
<1>2. CASE UiStep \/ User
  <2>1. HasPacket' /\ AtWork'
    <3>1. CASE UNCHANGED vars
      BY <1>2, <3>1, UserSteps DEF vars, handlerVars, workVars, HasPacket, AtWork
    <3>2. CASE Owner
      BY <1>2, <3>2, UserSteps, OwnerLeavesHandler DEF workVars, HasPacket, AtWork
    <3> QED
      BY <1>2, <3>1, <3>2, UserSteps
  <2>2. DataOK'
    <3>1. CASE Sent
      BY <3>1 DEF Sent, DataOK, serverVars
    <3>2. ASSUME NEW found \in Resolve, ClickConnect(found) PROVE DataOK'
      BY <3>2 DEF ClickConnect, NewConnection, DataOK
    <3>3. CASE UiStep /\ ~Sent
      BY <3>3 DEF UiStep, Hello, SentNot, DisconnectStep, UiOutput, UiReturn,
        DestroyClient, appVars, serverVars, histVars, DataOK
    <3>4. ASSUME User, \A found \in Resolve : ~ClickConnect(found) PROVE DataOK'
      BY <3>4 DEF User, ClickConnectFails, ClickConnectAgain, ClickLogin, ClickLogout,
        ClickSend, ClickDisconnect, CloseWindow, serverVars, histVars, DataOK
    <3> QED
      BY <1>2, <3>1, <3>2, <3>3, <3>4
  <2> QED
    BY <1>1, <2>1, <2>2
<1>3. CASE HandlerStep
  <2>1. CASE Receive /\ UNCHANGED appVars
    BY <1>1, <2>1, ReceiveHandsOver DEF appVars, workVars, serverVars, histVars,
      AtWork, DataOK
  <2>2. CASE Handle
    BY <1>1, <2>2 DEF Handle, vars, handlerVars, serverVars, histVars, HasPacket,
      AtWork, DataOK
  <2>3. CASE SetSession
    <3>1. incoming.session \in Session \cup {Empty}
      BY <2>3, LoginAnswers DEF SetSession, HasPacket, AtWork
    <3> QED
      BY <1>1, <2>3, <3>1 DEF SetSession, vars, handlerVars, serverVars, histVars,
        HasPacket, AtWork, DataOK
  <2>4. CASE Output
    BY <1>1, <2>4 DEF Output, vars, handlerVars, serverVars, HasPacket, AtWork, DataOK
  <2>5. CASE Return
    BY <1>1, <2>5 DEF Return, Dispatched, serverVars, HasPacket, AtWork, DataOK
  <2> QED
    BY <1>3, <2>1, <2>2, <2>3, <2>4, <2>5 DEF HandlerStep
<1>4. CASE ChatServer
  <2>1. answer' \in Packet \cup {None} /\ UNCHANGED asked
    <3>1. CASE ServerHello
      BY <3>1, Answers DEF ServerHello, Reply, histVars
    <3>2. CASE ServerLogin
      BY <3>2, Answers DEF ServerLogin, Reply, histVars
    <3>3. CASE ServerLogout
      BY <3>3, Answers DEF ServerLogout, Reply, histVars
    <3>4. CASE ServerMessage
      BY <3>4, Answers DEF ServerMessage, Reply, histVars
    <3>5. CASE ServerReply
      BY <3>5 DEF ServerReply, histVars
    <3>6. CASE ServerRelay
      BY <3>6 DEF ServerRelay, appVars, serverVars, histVars, DataOK
    <3>7. CASE ServerLeaves
      BY <3>7 DEF ServerLeaves, histVars
    <3>8. CASE ServerGoesOn
      BY <3>8 DEF ServerGoesOn, histVars, DataOK
    <3> QED
      BY <1>4, <3>1, <3>2, <3>3, <3>4, <3>5, <3>6, <3>7, <3>8
        DEF ChatServer, ServerAnswer
  <2> QED
    BY <1>1, <1>4, <2>1, ServerSteps DEF workVars, handlerVars, HasPacket, AtWork,
      DataOK
<1>5. CASE UNCHANGED app_vars
  BY <1>1, <1>5 DEF app_vars, vars, appVars, handlerVars, workVars, serverVars,
    histVars, HasPacket, AtWork, DataOK
<1> QED
  BY <1>2, <1>3, <1>4, <1>5 DEF AppNext

\* Every state of the application satisfies the invariant.
LEMMA AppInvariant == AppSpec => []AppInv
<1>1. ASSUME AppInit PROVE AppInv
  <2>1. ClientInv
    BY <1>1, ClientInitInv DEF AppInit
  <2> QED
    BY <1>1, <2>1 DEF AppInit, ClientInit, AppInv, HasPacket, AtWork, DataOK
<1>2. AppInv /\ [AppNext]_app_vars => AppInv'
  BY AppInvInductive
<1> QED
  BY <1>1, <1>2, PTL DEF AppSpec

-----------------------------------------------------------------------------
(* The theorems.                                                            *)

\* The application with its window is one of the users TcpClient allows: its
\* callbacks call the client one at a time, send packets of the protocol, and
\* its packet handlers return to the loop they were called from.
THEOREM AppImplementsClient == AppSpec => ImplementsTcpClient
<1>1. AppInit => ClientInit
  BY DEF AppInit
<1>2. AppInv /\ [AppNext]_app_vars => [ClientNext]_vars
  BY StepRefines
<1> QED
  BY <1>1, <1>2, AppInvariant, PTL DEF AppSpec, ImplementsTcpClient, ClientSpec

-----------------------------------------------------------------------------
(* The calls that an output handler has still to make.                      *)

\* Those from the k-th on.
From(s, k) == SubSeq(s, k, Len(s))

\* After the last call nothing remains.
LEMMA FromLast ==
  ASSUME NEW S, NEW s \in Seq(S)
  PROVE  From(s, Len(s) + 1) = <<>>
  BY LenProperties, SubSeqEmpty DEF From

\* Before that there is a first call, after which the next one comes, or the
\* third next when it is a condition that does not hold.
LEMMA FromNext ==
  ASSUME NEW S, NEW s \in Seq(S), NEW k \in 1 .. Len(s)
  PROVE  /\ From(s, k) # <<>>
         /\ Head(From(s, k)) = s[k]
         /\ Tail(From(s, k)) = From(s, k + 1)
         /\ k + 3 <= Len(s) + 1 =>
              SubSeq(From(s, k), 4, Len(From(s, k))) = From(s, k + 3)
<1>1. /\ Len(s) \in Nat /\ k \in Nat /\ Len(s) \in k .. Len(s)
      /\ \A i \in 1 .. Len(s) : s[i] \in S
  BY LenProperties, ElementOfSeq
<1>2. From(s, k) \in Seq(S) /\ Len(From(s, k)) = Len(s) - k + 1
  BY <1>1, SubSeqProperties DEF From
<1>3. From(s, k) # <<>>
  BY <1>1, <1>2, EmptySeq
<1>4. Head(From(s, k)) = s[k] /\ Tail(From(s, k)) = From(s, k + 1)
  BY <1>1, HeadTailOfSubSeq DEF From
<1>5. CASE k + 3 <= Len(s)
  <2> DEFINE j == Len(s)
             n == j - k + 1
  <2>1. /\ j \in 1 .. j /\ 4 \in 1 .. n /\ n \in 1 .. n
        /\ k + 4 - 1 = k + 3 /\ k + n - 1 = j
    BY <1>1, <1>5
  <2>2. SubSeq(SubSeq(s, k, j), 4, n) = SubSeq(s, k + 4 - 1, k + n - 1)
    BY <2>1, SubSeqOfSubSeq
  <2> QED
    BY <1>2, <1>3, <1>4, <2>1, <2>2 DEF From
<1>6. CASE k + 3 = Len(s) + 1
  <2>1. Len(From(s, k)) = 3
    BY <1>1, <1>2, <1>6
  <2>2. SubSeq(From(s, k), 4, 3) = <<>>
    BY SubSeqEmpty
  <2> QED
    BY <1>3, <1>4, <1>6, <2>1, <2>2, FromLast
<1> QED
  BY <1>1, <1>3, <1>4, <1>5, <1>6

\* The call op is a condition that does not hold.
Skips(op) == (op.do = "if" /\ op.on \notin enabled) \/ (op.do = "unless" /\ op.on \in enabled)

\* Once a call is made the rest is one of these.
LEMMA RestFrom ==
  ASSUME NEW S, NEW s \in Seq(S), NEW k \in 1 .. Len(s)
  PROVE  /\ ~Skips(s[k]) => Rest(From(s, k)) = From(s, k + 1)
         /\ Skips(s[k]) /\ k + 3 <= Len(s) + 1 => Rest(From(s, k)) = From(s, k + 3)
  BY FromNext DEF Rest, Skips

\* What remains of calls of some kind is of that kind.
LEMMA RestOf ==
  ASSUME NEW S, NEW ops \in Seq(S), ops # <<>>
  PROVE  Head(ops) \in S /\ Rest(ops) \in Seq(S)
<1>1. Head(ops) \in S /\ Tail(ops) \in Seq(S)
  BY HeadTailProperties
<1>2. \A i \in 4 .. Len(ops) : ops[i] \in S
  BY LenProperties, ElementOfSeq
<1>3. Len(ops) \in Int
  BY LenProperties
<1>4. SubSeq(ops, 4, Len(ops)) \in Seq(S)
  BY <1>2, <1>3, SubSeqProperties
<1> QED
  BY <1>1, <1>4 DEF Rest

\* The calls of on_disconnect, one by one.
LEMMA DisconnectCalls ==
  LET s == on_disconnect IN
  /\ s \in Seq(Ops) /\ Len(s) = 14
  /\ s[1] = Show("connect") /\ s[2] = Enable("connect") /\ s[3] = Enable("address")
  /\ s[4] = Hide("disconnect") /\ s[5] = IfEnabled("send") /\ s[6] = Disable("send")
  /\ s[7] = Disable("input_field") /\ s[8] = IfEnabled("login")
  /\ s[9] = Disable("login") /\ s[10] = Disable("login_field")
  /\ s[11] = Hide("logout") /\ s[12] = Show("login") /\ s[13] = Disable("login_field")
  /\ s[14] = Text
  BY DEF on_disconnect, Ops, Widget, Show, Hide, Enable, Disable, IfEnabled, Text

\* And those for the answer to a hello.
LEMMA GreetingCalls ==
  LET s == on_connect("success") IN
  /\ s \in Seq(Ops) /\ Len(s) = 10
  /\ s[1] = Show("disconnect") /\ s[2] = Disable("address") /\ s[3] = IfDisabled("login")
  /\ s[4] = Enable("login") /\ s[5] = Enable("login_field")
  /\ s[6] = IfDisabled("logout") /\ s[7] = Enable("logout")
  /\ s[8] = Enable("login_field") /\ s[9] = Hide("connect") /\ s[10] = Text
<1> DEFINE s == <<Show("disconnect"), Disable("address"),
           IfDisabled("login"), Enable("login"), Enable("login_field"),
           IfDisabled("logout"), Enable("logout"), Enable("login_field"),
           Hide("connect"), Text>>
<1>1. on_connect("success") = s
  BY DEF on_connect
<1>2. s \in Seq(Ops)
  BY DEF Ops, Widget, Show, Hide, Enable, Disable, IfDisabled, Text
<1>3. /\ Len(s) = 10
      /\ s[1] = Show("disconnect") /\ s[2] = Disable("address")
      /\ s[3] = IfDisabled("login") /\ s[4] = Enable("login")
      /\ s[5] = Enable("login_field") /\ s[6] = IfDisabled("logout")
      /\ s[7] = Enable("logout") /\ s[8] = Enable("login_field")
      /\ s[9] = Hide("connect") /\ s[10] = Text
  OBVIOUS
<1> HIDE DEF s
<1> QED
  BY <1>1, <1>2, <1>3

\* Calls that take neither button of the connection away, and those that may
\* disable the connect button besides.
Harmless == Ops \ {Hide("disconnect"), Disable("disconnect"),
                   Hide("connect"), Disable("connect")}
Pending == Harmless \cup {Disable("connect")}

\* What the callbacks and the other handlers tell the window is harmless.
LEMMA Kinds ==
  /\ on_connect("pending") \in Seq(Pending)
  /\ \A st \in {"success", "failed"} : on_login(st) \in Seq(Harmless)
  /\ \A st \in {"success", "pending", "failed"} : on_logout(st) \in Seq(Harmless)
  /\ \A st \in {"success", "pending", "failed"} : on_send(st) \in Seq(Harmless)
  /\ on_recv \in Seq(Harmless)
  /\ <<Text>> \in Seq(Harmless)
  /\ <<>> \in Seq(Harmless)
<1>0. /\ Text \in Harmless /\ Text \in Pending
      /\ Disable("address") \in Pending /\ Disable("connect") \in Pending
      /\ \A w \in {"login", "logout"} :
           Show(w) \in Harmless /\ Hide(w) \in Harmless /\ Disable(w) \in Harmless
      /\ \A w \in {"logout", "send", "login_field", "input_field"} :
           Enable(w) \in Harmless /\ Disable(w) \in Harmless
  BY DEF Harmless, Pending, Ops, Widget, Show, Hide, Enable, Disable, Text
<1>1. on_connect("pending") \in Seq(Pending)
  <2>1. on_connect("pending") = <<Disable("address"), Disable("connect"), Text>>
    BY Zenon DEF on_connect
  <2>2. <<Disable("address"), Disable("connect"), Text>> \in Seq(Pending)
    BY <1>0
  <2> QED
    BY <2>1, <2>2, Zenon
<1>2. <<Text>> \in Seq(Harmless) /\ <<Text, Text>> \in Seq(Harmless)
      /\ <<>> \in Seq(Harmless)
  BY <1>0
<1>3. on_login("success") \in Seq(Harmless) /\ on_login("failed") \in Seq(Harmless)
  BY <1>0 DEF on_login
<1>4. on_logout("success") \in Seq(Harmless)
  <2>1. on_logout("success") =
          <<Show("login"), Enable("login_field"), Hide("logout"),
            Disable("send"), Disable("input_field"), Text>>
    BY Zenon DEF on_logout
  <2>2. <<Show("login"), Enable("login_field"), Hide("logout"),
          Disable("send"), Disable("input_field"), Text>> \in Seq(Harmless)
    BY <1>0
  <2> QED
    BY <2>1, <2>2, Zenon
<1>5. on_logout("pending") \in Seq(Harmless)
  <2>1. on_logout("pending") = <<Disable("logout"), Text>>
    BY Zenon DEF on_logout
  <2>2. <<Disable("logout"), Text>> \in Seq(Harmless)
    BY <1>0
  <2> QED
    BY <2>1, <2>2, Zenon
<1>6. on_logout("failed") \in Seq(Harmless)
  <2>1. on_logout("failed") = <<Text>>
    BY Zenon DEF on_logout
  <2> QED
    BY <1>2, <2>1, Zenon
<1>7. \A st \in {"success", "pending", "failed"} : on_send(st) \in Seq(Harmless)
  BY <1>2, Zenon DEF on_send
<1> QED
  BY <1>1, <1>2, <1>3, <1>4, <1>5, <1>6, <1>7 DEF on_recv

-----------------------------------------------------------------------------
(* The invariant of the window, as long as it is open.                      *)

\* Whose turn it is: the callback the window's thread is in goes with what that
\* thread does in the TCP client.
Turns ==
  /\ ui \in {"loop", "connected", "hello", "login", "logout", "message",
             "disconnect", "output"}
  /\ ui \in {"loop", "connected", "output"} => owner = "idle"
  /\ ui \in {"hello", "login", "logout", "message"} => owner = "send"
  /\ ui = "disconnect" => owner \in {"close", "status", "join"} /\ ~destroying
  /\ ui \in {"connected", "hello", "login", "logout", "message"} =>
       m_status = "connected"
  /\ ui # "output" => ui_ops = <<>>

\* What on_disconnect has done before its k-th call.
Undone(k) ==
  /\ k > 1 => "connect" \in shown
  /\ k > 2 => "connect" \in enabled
  /\ k > 4 => "disconnect" \notin shown
  /\ k > 6 => "send" \notin enabled
  /\ k > 9 => "login" \notin enabled
  /\ k > 11 => "logout" \notin shown
  /\ k > 12 => "login" \in shown

\* Without a connection the window is as on_disconnect leaves it, or on its way.
Offline ==
  m_status # "connected" /\ ui # "disconnect" =>
    \E k \in 1 .. 15 : ui_ops = From(on_disconnect, k) /\ Undone(k)

\* The handler of a hello's answer is at work.
Greeting == h_pc = "output" /\ incoming.cmd = "hello"

\* With a connection the disconnect button is there once a hello was answered
\* and the connect button until one is sent.
Online ==
  m_status = "connected" /\ ui # "disconnect" =>
    /\ ui_ops \in Seq(IF greeted = "none" THEN Harmless ELSE Pending)
    /\ greeted = "answered" => "disconnect" \in shown
    /\ greeted = "none" => "connect" \in shown \cap enabled \/ Greeting
    /\ Greeting =>
         \E k \in 1 .. 11 : /\ h_ops = From(on_connect("success"), k)
                            /\ k > 1 => "disconnect" \in shown
    /\ ~Greeting => h_ops \in Seq(Harmless)

OpenInv ==
  /\ Turns /\ Offline /\ Online
  /\ "disconnect" \in enabled
  /\ greeted \in {"none", "sent", "answered"}

WindowInv == closed \/ OpenInv

\* Initially nothing is connected and no call is made.
LEMMA WindowInit == AppInit => OpenInv
<1> SUFFICES ASSUME AppInit PROVE OpenInv
  OBVIOUS
<1> USE DEF AppInit, ClientInit
<1>1. Turns /\ Online /\ "disconnect" \in enabled
  BY DEF Turns, Online, Widget
<1>2. ui_ops = From(on_disconnect, 15)
  <2>1. on_disconnect \in Seq(Ops) /\ Len(on_disconnect) = 14
    BY DisconnectCalls
  <2>2. From(on_disconnect, 14 + 1) = <<>>
    BY <2>1, FromLast
  <2> QED
    BY <2>2
<1>3. Undone(15)
  BY DEF Undone, Widget
<1>4. Offline
  BY <1>2, <1>3 DEF Offline
<1> QED
  BY <1>1, <1>4 DEF OpenInv

\* A step that touches neither the window nor the callbacks keeps it.
LEMMA Undisturbed ==
  ASSUME OpenInv,
         UNCHANGED <<ui, ui_ops, h_pc, h_ops, shown, enabled, m_status, owner,
                     destroying, greeted>>,
         h_pc # "enter" => incoming' = incoming
  PROVE  OpenInv'
<1>1. Turns'
  BY DEF OpenInv, Turns
<1>2. Offline'
  BY DEF OpenInv, Offline, Undone
<1>3. Greeting' = Greeting
  BY DEF Greeting
<1>4. Online'
  BY <1>3 DEF OpenInv, Online
<1> QED
  BY <1>1, <1>2, <1>4 DEF OpenInv

-----------------------------------------------------------------------------
(* Calls of widgets.                                                        *)

\* What a call changes.
LEMMA CallDoes ==
  ASSUME NEW op, Call(op)
  PROVE  /\ op.do = "show" => shown' = shown \cup {op.on}
         /\ op.do = "hide" => shown' = shown \ {op.on}
         /\ op.do \notin {"show", "hide"} => shown' = shown
         /\ op.do = "enable" => enabled' = enabled \cup {op.on}
         /\ op.do = "disable" => enabled' = enabled \ {op.on}
         /\ op.do \notin {"enable", "disable"} => enabled' = enabled
<1>1. "show" # "hide" /\ "enable" # "disable"
  OBVIOUS
<1>2. /\ op.do = "show" => shown' = shown \cup {op.on}
      /\ op.do = "hide" => shown' = shown \ {op.on}
      /\ op.do # "show" /\ op.do # "hide" => shown' = shown
  BY <1>1, Zenon DEF Call
<1>3. /\ op.do = "enable" => enabled' = enabled \cup {op.on}
      /\ op.do = "disable" => enabled' = enabled \ {op.on}
      /\ op.do # "enable" /\ op.do # "disable" => enabled' = enabled
  BY <1>1, Zenon DEF Call
<1> QED
  BY <1>2, <1>3

\* A pending call leaves the disconnect button where it is, a harmless one the
\* connect button too.
LEMMA CallKeeps ==
  ASSUME NEW op \in Pending, Call(op)
  PROVE  /\ "disconnect" \in shown => "disconnect" \in shown'
         /\ "disconnect" \in enabled => "disconnect" \in enabled'
         /\ op \in Harmless /\ "connect" \in shown \cap enabled =>
              "connect" \in shown' \cap enabled'
<1>1. /\ op.do = "hide" => op.on \notin {"disconnect", "connect"}
      /\ op.do = "disable" => op.on # "disconnect"
      /\ op.do = "disable" /\ op \in Harmless => op.on # "connect"
  BY DEF Pending, Harmless, Ops, Hide, Disable
<1> QED
  BY <1>1, CallDoes

\* The window's thread makes a call of on_disconnect.
LEMMA UndoesMore ==
  ASSUME NEW k \in 1 .. 14, Undone(k), Call(on_disconnect[k])
  PROVE  /\ ~Skips(on_disconnect[k]) => Undone(k + 1)'
         /\ Skips(on_disconnect[k]) => k \in {5, 8} /\ Undone(k + 3)'
         /\ "disconnect" \in enabled => "disconnect" \in enabled'
<1> DEFINE op == on_disconnect[k]
<1>1. /\ k = 1 => op = Show("connect")
      /\ k = 2 => op = Enable("connect")
      /\ k = 3 => op = Enable("address")
      /\ k = 4 => op = Hide("disconnect")
      /\ k = 5 => op = IfEnabled("send")
      /\ k = 6 => op = Disable("send")
      /\ k = 7 => op = Disable("input_field")
      /\ k = 8 => op = IfEnabled("login")
      /\ k = 9 => op = Disable("login")
      /\ k = 10 => op = Disable("login_field")
      /\ k = 11 => op = Hide("logout")
      /\ k = 12 => op = Show("login")
      /\ k = 13 => op = Disable("login_field")
      /\ k = 14 => op = Text
  BY DisconnectCalls
<1>2. /\ op.do = "show" => shown' = shown \cup {op.on}
      /\ op.do = "hide" => shown' = shown \ {op.on}
      /\ op.do \notin {"show", "hide"} => shown' = shown
      /\ op.do = "enable" => enabled' = enabled \cup {op.on}
      /\ op.do = "disable" => enabled' = enabled \ {op.on}
      /\ op.do \notin {"enable", "disable"} => enabled' = enabled
  BY CallDoes
<1> HIDE DEF op
<1> USE DEF Show, Enable, Hide, Disable, IfEnabled, Text
<1>3. Skips(op) =>
        (k = 5 /\ "send" \notin enabled) \/ (k = 8 /\ "login" \notin enabled)
  BY <1>1 DEF Skips
<1>4. ~Skips(op) => Undone(k + 1)'
  <2>1. CASE k \in 1 .. 4
    BY <1>1, <1>2, <2>1 DEF Undone
  <2>2. CASE k \in 5 .. 7
    BY <1>1, <1>2, <2>2 DEF Undone
  <2>3. CASE k \in 8 .. 10
    BY <1>1, <1>2, <2>3 DEF Undone
  <2>4. CASE k \in 11 .. 14
    BY <1>1, <1>2, <2>4 DEF Undone
  <2> QED
    BY <2>1, <2>2, <2>3, <2>4
<1>5. Skips(op) => k \in {5, 8} /\ Undone(k + 3)'
  BY <1>1, <1>2, <1>3 DEF Undone
<1>6. "disconnect" \in enabled => "disconnect" \in enabled'
  BY <1>1, <1>2
<1> QED
  BY <1>4, <1>5, <1>6 DEF op

\* The handler thread makes a call of the handler of a hello's answer: the
\* first one shows the disconnect button, and none hides it.
LEMMA GreetsMore ==
  ASSUME NEW k \in 1 .. 10, Call(on_connect("success")[k]),
         k > 1 => "disconnect" \in shown
  PROVE  /\ "disconnect" \in shown'
         /\ "disconnect" \in enabled => "disconnect" \in enabled'
         /\ Skips(on_connect("success")[k]) => k \in {3, 6}
<1> DEFINE op == on_connect("success")[k]
<1>1. /\ k = 1 => op = Show("disconnect")
      /\ k = 2 => op = Disable("address")
      /\ k = 3 => op = IfDisabled("login")
      /\ k = 4 => op = Enable("login")
      /\ k = 5 => op = Enable("login_field")
      /\ k = 6 => op = IfDisabled("logout")
      /\ k = 7 => op = Enable("logout")
      /\ k = 8 => op = Enable("login_field")
      /\ k = 9 => op = Hide("connect")
      /\ k = 10 => op = Text
  BY GreetingCalls
<1>2. /\ op.do = "show" => shown' = shown \cup {op.on}
      /\ op.do = "hide" => shown' = shown \ {op.on}
      /\ op.do \notin {"show", "hide"} => shown' = shown
      /\ op.do = "enable" => enabled' = enabled \cup {op.on}
      /\ op.do = "disable" => enabled' = enabled \ {op.on}
      /\ op.do \notin {"enable", "disable"} => enabled' = enabled
  BY CallDoes
<1> HIDE DEF op
<1> USE DEF Show, Enable, Hide, Disable, IfDisabled, Text
<1>3. "disconnect" \in shown'
  BY <1>1, <1>2
<1>4. "disconnect" \in enabled => "disconnect" \in enabled'
  BY <1>1, <1>2
<1>5. Skips(op) => k \in {3, 6}
  BY <1>1 DEF Skips
<1> QED
  BY <1>3, <1>4, <1>5 DEF op

-----------------------------------------------------------------------------
(* The window's thread.                                                     *)

\* It makes the next call of its output handler.
LEMMA UiOutputStep ==
  ASSUME OpenInv, UiOutput
  PROVE  OpenInv'
<1>0. /\ Turns /\ Offline /\ Online /\ "disconnect" \in enabled
      /\ greeted \in {"none", "sent", "answered"}
  BY DEF OpenInv
<1>1. /\ ui = "output" /\ ui_ops # <<>>
      /\ Call(Head(ui_ops))
      /\ ui_ops' = Rest(ui_ops)
      /\ UNCHANGED <<m_status, owner, destroying, incoming, ui, h_pc, h_ops, greeted>>
  BY DEF UiOutput, vars, ownerVars, handlerVars, workVars, histVars
<1>2. Turns'
  BY <1>0, <1>1 DEF Turns
<1>3. CASE m_status = "connected"
  <2> DEFINE S == IF greeted = "none" THEN Harmless ELSE Pending
  <2>1. ui_ops \in Seq(S)
    BY <1>0, <1>1, <1>3 DEF Online
  <2>2. Head(ui_ops) \in S /\ ui_ops' \in Seq(S)
    BY <1>1, <2>1, RestOf
  <2>3. Head(ui_ops) \in Pending
    BY <2>2 DEF Pending
  <2>4. /\ "disconnect" \in shown => "disconnect" \in shown'
        /\ "disconnect" \in enabled'
        /\ greeted = "none" /\ "connect" \in shown \cap enabled =>
             "connect" \in shown' \cap enabled'
    BY <1>0, <1>1, <2>2, <2>3, CallKeeps
  <2>5. Greeting' = Greeting
    BY <1>1 DEF Greeting
  <2> HIDE DEF S
  <2>6. S' = S
    BY <1>1 DEF S
  <2>7. Online'
    BY <1>0, <1>1, <1>3, <2>2, <2>4, <2>5, <2>6 DEF Online, S
  <2>8. Offline'
    BY <1>1, <1>3 DEF Offline
  <2> QED
    BY <1>0, <1>1, <1>2, <2>4, <2>7, <2>8 DEF OpenInv
<1>4. CASE m_status # "connected"
  <2>1. PICK k \in 1 .. 15 : ui_ops = From(on_disconnect, k) /\ Undone(k)
    BY <1>0, <1>1, <1>4 DEF Offline
  <2>2. on_disconnect \in Seq(Ops) /\ Len(on_disconnect) = 14
    BY DisconnectCalls
  <2>3. k \in 1 .. 14
    <3>1. From(on_disconnect, 14 + 1) = <<>>
      BY <2>2, FromLast
    <3> QED
      BY <1>1, <2>1, <3>1
  <2>4. Head(ui_ops) = on_disconnect[k]
    BY <2>1, <2>2, <2>3, FromNext
  <2>5. /\ ~Skips(on_disconnect[k]) => Undone(k + 1)'
        /\ Skips(on_disconnect[k]) => k \in {5, 8} /\ Undone(k + 3)'
        /\ "disconnect" \in enabled'
    BY <1>0, <1>1, <2>1, <2>3, <2>4, UndoesMore
  <2>6. \E j \in 1 .. 15 : ui_ops' = From(on_disconnect, j) /\ Undone(j)'
    <3>1. /\ ~Skips(on_disconnect[k]) => Rest(ui_ops) = From(on_disconnect, k + 1)
          /\ Skips(on_disconnect[k]) => Rest(ui_ops) = From(on_disconnect, k + 3)
      <4>1. k \in 1 .. Len(on_disconnect)
        BY <2>2, <2>3
      <4>2. k \in {5, 8} => k + 3 <= Len(on_disconnect) + 1
        BY <2>2
      <4> QED
        BY <2>1, <2>2, <2>5, <4>1, <4>2, RestFrom
    <3>2. k + 1 \in 1 .. 15 /\ (k \in {5, 8} => k + 3 \in 1 .. 15)
      BY <2>3
    <3> QED
      BY <1>1, <2>5, <3>1, <3>2
  <2>7. Offline'
    BY <2>6 DEF Offline, Undone
  <2>8. Online'
    BY <1>1, <1>4 DEF Online
  <2> QED
    BY <1>0, <1>1, <1>2, <2>5, <2>7, <2>8 DEF OpenInv
<1> QED
  BY <1>3, <1>4

\* The ends of the calls of on_disconnect.
LEMMA DisconnectEnds ==
  /\ From(on_disconnect, 1) = on_disconnect
  /\ From(on_disconnect, 14) = <<Text>>
  /\ From(on_disconnect, 15) = <<>>
  /\ \A k \in 1 .. 14 : From(on_disconnect, k) # <<>>
<1> DEFINE s == on_disconnect
<1>1. s \in Seq(Ops) /\ Len(s) = 14 /\ s[14] = Text /\ \A i \in 1 .. 14 : s[i] \in Ops
  <2>1. s \in Seq(Ops) /\ Len(s) = 14 /\ s[14] = Text
    BY DisconnectCalls
  <2> QED
    BY <2>1, ElementOfSeq
<1> HIDE DEF s
<1>2. From(s, 1) = s
  BY <1>1, SubSeqFull DEF From
<1>3. From(s, 14) = <<Text>>
  <2>1. /\ From(s, 14) \in Seq(Ops) /\ Len(From(s, 14)) = 1
        /\ From(s, 14)[1] = Text
    <3>1. /\ SubSeq(s, 14, 14) \in Seq(Ops)
          /\ Len(SubSeq(s, 14, 14)) = IF 14 <= 14 THEN 14 - 14 + 1 ELSE 0
          /\ \A i \in 1 .. 14 - 14 + 1 : SubSeq(s, 14, 14)[i] = s[14 + i - 1]
      BY <1>1, SubSeqProperties
    <3>2. 1 \in 1 .. 14 - 14 + 1 /\ 14 + 1 - 1 = 14
      OBVIOUS
    <3>3. SubSeq(s, 14, 14)[1] = s[14]
      BY <3>1, <3>2
    <3> QED
      BY <1>1, <3>1, <3>3 DEF From
  <2>2. Text \in Ops
    BY DEF Text, Ops
  <2>3. <<Text>> \in Seq(Ops) /\ Len(<<Text>>) = 1 /\ <<Text>>[1] = Text
    BY <2>2
  <2>4. \A i \in 1 .. 1 : From(s, 14)[i] = <<Text>>[i]
    BY <2>1, <2>3
  <2> QED
    BY <2>1, <2>3, <2>4, SeqEqual
<1>4. From(s, 15) = <<>>
  <2>1. From(s, 14 + 1) = <<>>
    BY <1>1, FromLast
  <2> QED
    BY <2>1
<1>5. \A k \in 1 .. 14 : From(s, k) # <<>>
  BY <1>1, FromNext
<1> QED
  BY <1>2, <1>3, <1>4, <1>5 DEF s

\* In the loop of a client that is not connected nothing is left to be undone.
LEMMA LoopIsUndone ==
  ASSUME OpenInv, m_status # "connected", ui = "loop"
  PROVE  Undone(15)
<1>1. ui_ops = <<>>
  BY DEF OpenInv, Turns
<1>2. PICK k \in 1 .. 15 : ui_ops = From(on_disconnect, k) /\ Undone(k)
  BY DEF OpenInv, Offline
<1>3. k = 15
  <2>1. k \in 1 .. 14 => From(on_disconnect, k) # <<>>
    BY DisconnectEnds
  <2> QED
    BY <1>1, <1>2, <2>1
<1> QED
  BY <1>2, <1>3

\* The buttons that need a connection are pressed with one.
LEMMA PressedConnected ==
  ASSUME OpenInv, NEW b \in {"login", "logout", "send"}, Click(b)
  PROVE  m_status = "connected"
<1> SUFFICES ASSUME m_status # "connected" PROVE FALSE
  OBVIOUS
<1>1. Undone(15)
  BY LoopIsUndone DEF Click, InLoop
<1> QED
  BY <1>1 DEF Undone, Click, Usable

\* It goes through a callback.
LEMMA UiStepKeeps ==
  ASSUME AppInv, OpenInv, ~closed, UiStep
  PROVE  OpenInv'
<1>0. /\ Turns /\ Offline /\ Online /\ "disconnect" \in enabled
      /\ greeted \in {"none", "sent", "answered"}
  BY DEF OpenInv
<1>1. CASE UiOutput
  BY <1>1, UiOutputStep
<1>2. CASE UiReturn
  <2>1. /\ ui = "output" /\ ui' = "loop" /\ ui_ops = <<>>
        /\ UNCHANGED <<m_status, owner, destroying, incoming, ui_ops, h_pc, h_ops,
                       shown, enabled, greeted>>
    BY <1>2 DEF UiReturn, vars, ownerVars, handlerVars, workVars, windowVars, histVars
  <2>2. Turns'
    BY <1>0, <2>1 DEF Turns
  <2>3. Offline'
    BY <1>0, <2>1 DEF Offline, Undone
  <2>4. Online'
    BY <1>0, <2>1 DEF Online, Greeting
  <2> QED
    BY <1>0, <2>1, <2>2, <2>3, <2>4 DEF OpenInv
<1>3. CASE Hello
  <2>1. /\ ui = "connected" /\ ui' = "hello" /\ owner' = "send"
        /\ UNCHANGED <<m_status, destroying, incoming, ui_ops, h_pc, h_ops,
                       shown, enabled, greeted>>
    BY <1>3 DEF Hello, SendBegin, handlerVars, workVars, windowVars, histVars
  <2>2. Turns' /\ m_status = "connected"
    BY <1>0, <2>1 DEF Turns
  <2>3. Offline' /\ Online'
    BY <1>0, <2>1, <2>2 DEF Offline, Online, Greeting
  <2> QED
    BY <1>0, <2>1, <2>2, <2>3 DEF OpenInv
<1>4. CASE Sent
  <2>1. /\ owner = "send" /\ owner' = "idle" /\ ui' = "output"
        /\ greeted' = IF ui = "hello" THEN "sent" ELSE greeted
        /\ UNCHANGED <<m_status, destroying, incoming, h_pc, h_ops, shown, enabled>>
    BY <1>4 DEF Sent, SendOk, handlerVars, workVars, windowVars
  <2>2. ui \in {"hello", "login", "logout", "message"} /\ m_status = "connected"
    BY <1>0, <2>1 DEF Turns
  <2>3. \/ ui = "hello" /\ ui_ops' = on_connect("pending")
        \/ ui = "login" /\ ui_ops' = on_login("success")
        \/ ui = "logout" /\ ui_ops' = on_logout("success")
        \/ ui = "message" /\ ui_ops' = on_send("pending")
    <3>1. /\ "hello" # "login" /\ "hello" # "logout" /\ "hello" # "message"
          /\ "login" # "logout" /\ "login" # "message" /\ "logout" # "message"
      OBVIOUS
    <3> QED
      BY <1>4, <2>2, <3>1, Zenon DEF Sent
  <2>4. IF ui = "hello" THEN ui_ops' \in Seq(Pending) ELSE ui_ops' \in Seq(Harmless)
    BY <2>3, Kinds
  <2>5. \A q \in Seq(Harmless) : q \in Seq(Pending)
    BY SeqMonotonic DEF Pending
  <2>6. ui_ops' \in Seq(IF greeted' = "none" THEN Harmless ELSE Pending)
    BY <2>1, <2>4, <2>5
  <2>7. Turns'
    BY <1>0, <2>1, <2>2 DEF Turns
  <2>8. Greeting' = Greeting
    BY <2>1 DEF Greeting
  <2>9. Online' /\ Offline'
    BY <1>0, <2>1, <2>2, <2>6, <2>8 DEF Online, Offline
  <2> QED
    BY <1>0, <2>1, <2>7, <2>9 DEF OpenInv
<1>5. CASE SentNot
  <2>1. /\ owner = "send" /\ owner' = "idle" /\ ui' = "output"
        /\ ui_ops' = IF ui = "message" THEN on_send("failed") ELSE <<Text>>
        /\ UNCHANGED <<m_status, destroying, incoming, h_pc, h_ops, shown, enabled,
                       greeted>>
    BY <1>5 DEF SentNot, SendFails, handlerVars, workVars, windowVars, histVars
  <2>2. ui \in {"hello", "login", "logout", "message"} /\ m_status = "connected"
    BY <1>0, <2>1 DEF Turns
  <2>3. ui_ops' \in Seq(Harmless)
    BY <2>1, Kinds
  <2>4. ui_ops' \in Seq(IF greeted = "none" THEN Harmless ELSE Pending)
    BY <2>3, SeqMonotonic DEF Pending
  <2>5. Turns'
    BY <1>0, <2>1, <2>2 DEF Turns
  <2>6. Greeting' = Greeting
    BY <2>1 DEF Greeting
  <2>7. Online' /\ Offline'
    BY <1>0, <2>1, <2>2, <2>4, <2>6 DEF Online, Offline
  <2> QED
    BY <1>0, <2>1, <2>5, <2>7 DEF OpenInv
<1>6. CASE DisconnectStep
  <2>1. UNCHANGED <<h_pc, h_ops, shown, enabled, greeted, destroying>>
    BY <1>6 DEF DisconnectStep, CloseSocket, Disconnected, Join, workVars, windowVars,
      histVars
  <2>2. owner \in {"close", "status", "join"}
    BY <1>6 DEF DisconnectStep, CloseSocket, Disconnected, Join
  <2>3. ui = "disconnect" /\ ~destroying /\ ui_ops = <<>>
    BY <1>0, <2>2 DEF Turns
  <2>4. CASE owner = "join"
    <3>1. /\ ui' = "output" /\ ui_ops' = on_disconnect /\ owner' = "idle"
          /\ m_status' = "disconnected"
      BY <1>6, <2>3, <2>4
        DEF DisconnectStep, CloseSocket, Disconnected, Join, AppInv, ClientInv,
          JoinsDisconnected
    <3>2. Turns' /\ Online'
      BY <2>1, <2>3, <3>1 DEF Turns, Online
    <3>3. ui_ops' = From(on_disconnect, 1) /\ Undone(1)'
      BY <3>1, DisconnectEnds DEF Undone
    <3>4. Offline'
      BY <3>3 DEF Offline, Undone
    <3> QED
      BY <1>0, <2>1, <3>2, <3>4 DEF OpenInv
  <2>5. CASE owner # "join"
    <3>1. /\ ui' = ui /\ ui_ops' = ui_ops /\ owner' \in {"status", "join"}
      BY <1>6, <2>5 DEF DisconnectStep, CloseSocket, Disconnected, Join
    <3>2. Turns' /\ Online' /\ Offline'
      BY <2>1, <2>3, <3>1 DEF Turns, Online, Offline
    <3> QED
      BY <1>0, <2>1, <3>2 DEF OpenInv
  <2> QED
    BY <2>4, <2>5
<1>7. ~DestroyClient
  BY DEF DestroyClient
<1> QED
  BY <1>1, <1>2, <1>3, <1>4, <1>5, <1>6, <1>7 DEF UiStep

\* The user presses a button.
LEMMA UserKeeps ==
  ASSUME AppInv, OpenInv, ~closed, User, ~closed'
  PROVE  OpenInv'
<1>0. /\ Turns /\ Offline /\ Online /\ "disconnect" \in enabled
      /\ greeted \in {"none", "sent", "answered"}
  BY DEF OpenInv
<1>l. ui = "loop" /\ owner = "idle" /\ ui_ops = <<>>
  <2>1. ui = "loop"
    BY DEF User, ClickConnectFails, ClickConnect, ClickConnectAgain, ClickLogin,
      ClickLogout, ClickSend, ClickDisconnect, CloseWindow, Click, InLoop
  <2> QED
    BY <1>0, <2>1 DEF Turns
<1>1. ASSUME NEW e \in ConnectError, ClickConnectFails(e)
      PROVE  OpenInv'
  <2>1. /\ m_status # "connected" /\ m_status' = e /\ e # "connected"
        /\ ui' = "output" /\ ui_ops' = on_connect("failed")
        /\ UNCHANGED <<owner, destroying, incoming, h_pc, h_ops, shown, enabled, greeted>>
    BY <1>1 DEF ClickConnectFails, ConnectFails, ConnectError, ownerVars, handlerVars,
      workVars, windowVars, histVars
  <2>2. on_connect("failed") = <<Text>>
    BY Zenon DEF on_connect
  <2>3. ui_ops' = From(on_disconnect, 14)
    BY <2>1, <2>2, DisconnectEnds
  <2>4. Undone(14)'
    <3>1. Undone(15)
      BY <1>l, <2>1, LoopIsUndone
    <3> QED
      BY <2>1, <3>1 DEF Undone
  <2>5. Turns'
    BY <1>l, <2>1 DEF Turns
  <2>6. Offline' /\ Online'
    BY <2>1, <2>3, <2>4 DEF Offline, Online, Undone
  <2> QED
    BY <1>0, <2>1, <2>5, <2>6 DEF OpenInv
<1>2. ASSUME NEW found \in Resolve, ClickConnect(found)
      PROVE  OpenInv'
  <2>1. /\ m_status # "connected" /\ m_status' = "connected"
        /\ ui' = "connected" /\ greeted' = "none"
        /\ "connect" \in shown \cap enabled
        /\ UNCHANGED <<owner, destroying, ui_ops, h_pc, h_ops, shown, enabled>>
    BY <1>2 DEF ClickConnect, Connected, NewConnection, Click, Usable, ownerVars,
      workVars, windowVars
  <2>2. h_pc = "enter" /\ h_ops = <<>>
    BY <1>l, <2>1 DEF AppInv, ClientInv, ThreadOwned, AtWork
  <2>3. Turns'
    BY <1>l, <2>1 DEF Turns
  <2>4. ~Greeting'
    BY <2>1, <2>2 DEF Greeting
  <2>5. Offline' /\ Online'
    BY <1>l, <2>1, <2>2, <2>4, Kinds DEF Offline, Online
  <2> QED
    BY <1>0, <2>1, <2>3, <2>5 DEF OpenInv
<1>3. CASE ClickConnectAgain
  <2>1. /\ m_status = "connected" /\ ui' = "connected"
        /\ UNCHANGED <<m_status, owner, destroying, incoming, ui_ops, h_pc, h_ops,
                       shown, enabled, greeted>>
    BY <1>3 DEF ClickConnectAgain, vars, ownerVars, handlerVars, workVars, windowVars,
      histVars
  <2>2. Turns'
    BY <1>l, <2>1 DEF Turns
  <2>3. Offline' /\ Online'
    BY <1>0, <1>l, <2>1 DEF Offline, Online, Greeting
  <2> QED
    BY <1>0, <2>1, <2>2, <2>3 DEF OpenInv
<1>4. CASE (\E valid \in BOOLEAN : ClickLogin(valid)) \/ ClickLogout \/ ClickSend
  <2>1. m_status = "connected"
    BY <1>4, PressedConnected DEF ClickLogin, ClickLogout, ClickSend
  <2>2. /\ ui' \in {"login", "logout", "message"} /\ owner' = "send"
        /\ UNCHANGED <<m_status, destroying, incoming, ui_ops, h_pc, h_ops,
                       shown, enabled, greeted>>
    BY <1>4 DEF ClickLogin, ClickLogout, ClickSend, SendBegin, handlerVars, workVars,
      windowVars, histVars
  <2>3. Turns'
    BY <1>l, <2>1, <2>2 DEF Turns
  <2>4. Offline' /\ Online'
    BY <1>0, <1>l, <2>1, <2>2 DEF Offline, Online, Greeting
  <2> QED
    BY <1>0, <2>2, <2>3, <2>4 DEF OpenInv
<1>5. CASE ClickDisconnect
  <2>1. /\ ui' = "disconnect" /\ owner' = "close" /\ destroying' = FALSE
        /\ UNCHANGED <<m_status, ui_ops, h_pc, h_ops, shown, enabled, greeted>>
    BY <1>5 DEF ClickDisconnect, Shutdown, workVars, windowVars, histVars
  <2>2. Turns' /\ Offline' /\ Online'
    BY <1>l, <2>1 DEF Turns, Offline, Online
  <2> QED
    BY <1>0, <2>1, <2>2 DEF OpenInv
<1>6. ~CloseWindow
  BY DEF CloseWindow
<1> QED
  BY <1>1, <1>2, <1>3, <1>4, <1>5, <1>6 DEF User

-----------------------------------------------------------------------------
(* The handler thread and the server.                                       *)

\* A handler begins: a hello's answer brings the calls that show the
\* disconnect button, every other packet harmless ones.
LEMMA HandleKeeps ==
  ASSUME AppInv, OpenInv, Handle
  PROVE  OpenInv'
<1>0. /\ Turns /\ Offline /\ Online /\ "disconnect" \in enabled
      /\ greeted \in {"none", "sent", "answered"}
  BY DEF OpenInv
<1>1. /\ pc = "dispatch" /\ h_pc = "enter"
      /\ h_pc' = IF incoming.cmd = "login" THEN "session" ELSE "output"
      /\ UNCHANGED <<m_status, owner, destroying, incoming, ui, ui_ops, shown, enabled,
                     greeted>>
  BY DEF Handle, vars, ownerVars, handlerVars, uiVars, windowVars, histVars
<1>2. Turns' /\ Offline'
  BY <1>0, <1>1 DEF Turns, Offline, Undone
<1>3. incoming.cmd = "hello" => h_pc' = "output" /\ h_ops' = on_connect("success")
  <2>1. "hello" # "login" /\ "hello" # "logout" /\ "hello" # "message"
    OBVIOUS
  <2> QED
    BY <1>1, <2>1, Zenon DEF Handle
<1>4. incoming.cmd # "hello" => h_ops' \in Seq(Harmless)
  <2>1. \/ incoming.cmd = "hello" /\ h_ops' = on_connect("success")
        \/ h_ops' = on_login("success") \/ h_ops' = on_login("failed")
        \/ h_ops' = on_logout("pending") \/ h_ops' = on_logout("failed")
        \/ h_ops' = on_recv
        \/ h_ops' = on_send("success") \/ h_ops' = on_send("failed")
    BY Zenon DEF Handle
  <2> QED
    BY <2>1, Kinds
<1>5. Greeting' <=> incoming.cmd = "hello"
  BY <1>1 DEF Greeting
<1>6. on_connect("success") = From(on_connect("success"), 1)
  <2>1. on_connect("success") \in Seq(Ops)
    BY GreetingCalls
  <2> QED
    BY <2>1, SubSeqFull DEF From
<1>7. ~Greeting
  BY <1>1 DEF Greeting
<1>8. Online'
  BY <1>0, <1>1, <1>3, <1>4, <1>5, <1>6, <1>7 DEF Online
<1> QED
  BY <1>0, <1>1, <1>2, <1>8 DEF OpenInv

\* The handler of a hello's answer goes through its calls.
LEMMA GreetingOutput ==
  ASSUME Call(Head(h_ops)), h_ops # <<>>,
         NEW k \in 1 .. 11, h_ops = From(on_connect("success"), k),
         k > 1 => "disconnect" \in shown
  PROVE  /\ \E j \in 1 .. 11 : j > 1 /\ Rest(h_ops) = From(on_connect("success"), j)
         /\ "disconnect" \in shown'
         /\ "disconnect" \in enabled => "disconnect" \in enabled'
<1> DEFINE s == on_connect("success")
<1>1. s \in Seq(Ops) /\ Len(s) = 10
  BY GreetingCalls
<1>2. k \in 1 .. 10
  <2>1. From(s, 10 + 1) = <<>>
    BY <1>1, FromLast
  <2> QED
    BY <2>1
<1>3. k \in 1 .. Len(s)
  BY <1>1, <1>2
<1>4. Head(h_ops) = s[k]
  BY <1>1, <1>3, FromNext
<1>5. /\ "disconnect" \in shown'
      /\ "disconnect" \in enabled => "disconnect" \in enabled'
      /\ Skips(s[k]) => k \in {3, 6}
  BY <1>2, <1>4, GreetsMore
<1> HIDE DEF s
<1>6. CASE Skips(s[k])
  <2>1. k + 3 \in 1 .. 11 /\ k + 3 > 1 /\ k + 3 <= Len(s) + 1
    BY <1>1, <1>5, <1>6
  <2>2. Rest(h_ops) = From(s, k + 3)
    BY <1>1, <1>3, <1>6, <2>1, RestFrom DEF s
  <2> QED
    BY <1>5, <2>1, <2>2 DEF s
<1>7. CASE ~Skips(s[k])
  <2>1. k + 1 \in 1 .. 11 /\ k + 1 > 1
    BY <1>2
  <2>2. Rest(h_ops) = From(s, k + 1)
    BY <1>1, <1>3, <1>7, RestFrom DEF s
  <2> QED
    BY <1>5, <2>1, <2>2 DEF s
<1> QED
  BY <1>6, <1>7

\* A packet handler is at work only with a connection, or while the window's
\* thread disconnects.
LEMMA WorksConnected ==
  ASSUME AppInv, OpenInv, h_pc # "enter", ui # "disconnect"
  PROVE  m_status = "connected"
  BY DEF AppInv, ClientInv, ThreadOwned, AtWork, OpenInv, Turns

\* The handler thread makes a call of a widget.
LEMMA OutputKeeps ==
  ASSUME AppInv, OpenInv, ~closed, Output
  PROVE  OpenInv'
<1>0. /\ Turns /\ Offline /\ Online /\ "disconnect" \in enabled
      /\ greeted \in {"none", "sent", "answered"}
  BY DEF OpenInv
<1>1. /\ h_pc = "output" /\ h_ops # <<>> /\ h_ops' = Rest(h_ops)
      /\ Call(Head(h_ops))
      /\ Condition(Head(h_ops)) \/ ui = "loop"
      /\ UNCHANGED <<m_status, owner, destroying, incoming, ui, ui_ops, h_pc, greeted>>
  BY DEF Output, vars, ownerVars, handlerVars, uiVars
<1>2. Turns'
  BY <1>0, <1>1 DEF Turns
<1>3. CASE ui = "disconnect"
  <2>1. enabled' = enabled
    BY <1>1, <1>3, CallDoes DEF Condition
  <2>2. Offline' /\ Online'
    BY <1>1, <1>3 DEF Offline, Online
  <2> QED
    BY <1>0, <1>1, <1>2, <2>1, <2>2 DEF OpenInv
<1>4. CASE ui # "disconnect" /\ Greeting
  <2>1. m_status = "connected"
    BY <1>1, <1>4, WorksConnected
  <2>2. PICK k \in 1 .. 11 : /\ h_ops = From(on_connect("success"), k)
                             /\ k > 1 => "disconnect" \in shown
    BY <1>0, <1>4, <2>1 DEF Online
  <2>3. /\ \E j \in 1 .. 11 : j > 1 /\ h_ops' = From(on_connect("success"), j)
        /\ "disconnect" \in shown' /\ "disconnect" \in enabled'
    BY <1>0, <1>1, <2>2, GreetingOutput
  <2>4. Greeting'
    BY <1>1, <1>4 DEF Greeting
  <2>5. Offline' /\ Online'
    BY <1>0, <1>1, <1>4, <2>1, <2>3, <2>4 DEF Offline, Online
  <2> QED
    BY <1>0, <1>1, <1>2, <2>3, <2>5 DEF OpenInv
<1>5. CASE ui # "disconnect" /\ ~Greeting
  <2>1. m_status = "connected"
    BY <1>1, <1>5, WorksConnected
  <2>2. h_ops \in Seq(Harmless)
    BY <1>0, <1>5, <2>1 DEF Online
  <2>3. Head(h_ops) \in Harmless /\ h_ops' \in Seq(Harmless)
    BY <1>1, <2>2, RestOf
  <2>4. /\ "disconnect" \in shown => "disconnect" \in shown'
        /\ "disconnect" \in enabled'
        /\ "connect" \in shown \cap enabled => "connect" \in shown' \cap enabled'
    BY <1>0, <1>1, <2>3, CallKeeps DEF Pending
  <2>5. ~Greeting'
    BY <1>1, <1>5 DEF Greeting
  <2>6. Offline' /\ Online'
    BY <1>0, <1>1, <1>5, <2>1, <2>3, <2>4, <2>5 DEF Offline, Online
  <2> QED
    BY <1>0, <1>1, <1>2, <2>4, <2>6 DEF OpenInv
<1> QED
  BY <1>3, <1>4, <1>5

\* The handler returns; that of a hello's answer has shown the disconnect
\* button.
LEMMA ReturnKeeps ==
  ASSUME AppInv, OpenInv, Return
  PROVE  OpenInv'
<1>0. /\ Turns /\ Offline /\ Online /\ "disconnect" \in enabled
      /\ greeted \in {"none", "sent", "answered"}
  BY DEF OpenInv
<1>1. /\ h_pc = "output" /\ h_ops = <<>> /\ h_pc' = "enter"
      /\ greeted' = IF incoming.cmd = "hello" THEN "answered" ELSE greeted
      /\ UNCHANGED <<m_status, owner, destroying, ui, ui_ops, h_ops, shown, enabled>>
  BY DEF Return, Dispatched, ownerVars, uiVars, windowVars
<1>2. Turns'
  BY <1>0, <1>1 DEF Turns
<1>3. ~Greeting'
  BY <1>1 DEF Greeting
<1>4. CASE ui = "disconnect"
  BY <1>0, <1>1, <1>2, <1>4 DEF OpenInv, Offline, Online
<1>5. CASE ui # "disconnect"
  <2>1. m_status = "connected"
    BY <1>1, <1>5, WorksConnected
  <2>2. ui_ops \in Seq(Pending)
    <3>1. ui_ops \in Seq(Harmless) \/ ui_ops \in Seq(Pending)
      BY <1>0, <1>5, <2>1 DEF Online
    <3> QED
      BY <3>1, SeqMonotonic DEF Pending
  <2>3. incoming.cmd = "hello" => "disconnect" \in shown
    <3> SUFFICES ASSUME incoming.cmd = "hello" PROVE "disconnect" \in shown
      OBVIOUS
    <3>1. PICK k \in 1 .. 11 : /\ h_ops = From(on_connect("success"), k)
                               /\ k > 1 => "disconnect" \in shown
      BY <1>0, <1>1, <1>5, <2>1 DEF Online, Greeting
    <3>2. k # 1
      <4>1. 1 \in 1 .. Len(on_connect("success")) /\ on_connect("success") \in Seq(Ops)
        BY GreetingCalls
      <4>2. From(on_connect("success"), 1) # <<>>
        BY <4>1, FromNext
      <4> QED
        BY <1>1, <3>1, <4>2
    <3> QED
      BY <3>1, <3>2
  <2>4. incoming.cmd # "hello" => ~Greeting
    BY DEF Greeting
  <2>5. Online'
    <3>1. ui_ops' \in Seq(IF greeted' = "none" THEN Harmless ELSE Pending)
      BY <1>0, <1>1, <1>5, <2>1, <2>2 DEF Online
    <3>2. h_ops' \in Seq(Harmless)
      BY <1>1, Kinds
    <3>3. /\ greeted' = "answered" => "disconnect" \in shown
          /\ greeted' = "none" => "connect" \in shown \cap enabled
      BY <1>0, <1>1, <1>5, <2>1, <2>3, <2>4 DEF Online
    <3> QED
      BY <1>1, <1>3, <3>1, <3>2, <3>3 DEF Online
  <2>6. Offline'
    BY <1>1, <2>1 DEF Offline
  <2> QED
    BY <1>0, <1>1, <1>2, <2>5, <2>6 DEF OpenInv
<1> QED
  BY <1>4, <1>5

\* Every step of the handler thread.
LEMMA HandlerKeeps ==
  ASSUME AppInv, OpenInv, ~closed, HandlerStep
  PROVE  OpenInv'
<1>1. CASE Receive /\ UNCHANGED appVars
  <2>1. pc # "dispatch" /\ UNCHANGED <<m_status, ownerVars>>
    BY <1>1, ReceiveKeeps, ReceiveHandsOver DEF AppInv, ClientInv
  <2>2. h_pc = "enter"
    BY <2>1 DEF AppInv, AtWork
  <2> QED
    BY <1>1, <2>1, <2>2, Undisturbed
      DEF appVars, ownerVars, uiVars, workVars, windowVars, histVars
<1>2. CASE SetSession
  <2>1. /\ h_pc = "session" /\ h_pc' = "output" /\ incoming.cmd # "hello"
        /\ UNCHANGED <<m_status, owner, destroying, incoming, ui, ui_ops, h_ops, shown,
                       enabled, greeted>>
    BY <1>2 DEF SetSession, AppInv, AtWork, vars, ownerVars, handlerVars, uiVars,
      windowVars, histVars
  <2>2. ~Greeting /\ ~Greeting'
    BY <2>1 DEF Greeting
  <2>3. Turns' /\ Offline' /\ Online'
    BY <2>1, <2>2 DEF OpenInv, Turns, Offline, Online, Undone
  <2> QED
    BY <2>1, <2>3 DEF OpenInv
<1> QED
  BY <1>1, <1>2, HandleKeeps, OutputKeeps, ReturnKeeps DEF HandlerStep

\* The server does not reach the window.
LEMMA WindowUnserved ==
  ASSUME AppInv, OpenInv, ChatServer
  PROVE  OpenInv'
<1>1. UNCHANGED <<m_status, ownerVars, handlerVars, uiVars, workVars, windowVars, greeted>>
  <2>1. CASE ServerHello \/ ServerLogin \/ ServerLogout \/ ServerMessage
    BY <2>1 DEF ServerHello, ServerLogin, ServerLogout, ServerMessage, Reply, ServerRead,
      histVars
  <2>2. CASE ServerReply
    BY <2>2 DEF ServerReply, ServerSend, histVars
  <2>3. CASE ServerRelay
    BY <2>3 DEF ServerRelay, ServerSend, appVars, histVars
  <2>4. CASE ServerLeaves
    BY <2>4 DEF ServerLeaves, ServerClose, ServerReset, histVars
  <2>5. CASE ServerGoesOn
    BY <2>5 DEF ServerGoesOn, vars, ownerVars, handlerVars, histVars
  <2> QED
    BY <2>1, <2>2, <2>3, <2>4, <2>5 DEF ChatServer, ServerAnswer
<1> QED
  BY <1>1, Undisturbed DEF ownerVars, handlerVars, uiVars, workVars, windowVars

-----------------------------------------------------------------------------
(* The theorems.                                                            *)

\* A closed window stays closed.
LEMMA ClosedStays ==
  ASSUME closed, [AppNext]_app_vars
  PROVE  closed'
<1>1. CASE UiStep
  BY <1>1 DEF UiStep, Hello, Sent, SentNot, DisconnectStep, UiOutput, UiReturn,
    DestroyClient, appVars, windowVars
<1>2. CASE User
  BY <1>2 DEF User, ClickConnectFails, ClickConnect, ClickConnectAgain, ClickLogin,
    ClickLogout, ClickSend, ClickDisconnect, CloseWindow, windowVars
<1>3. CASE HandlerStep
  BY <1>3 DEF HandlerStep, Handle, SetSession, Output, Return, appVars, windowVars
<1>4. CASE ChatServer
  BY <1>4 DEF ChatServer, ServerAnswer, ServerHello, ServerLogin, ServerLogout,
    ServerMessage, ServerReply, ServerGoesOn, ServerRelay, ServerLeaves, Reply, appVars,
    windowVars
<1>5. CASE UNCHANGED app_vars
  BY <1>5 DEF app_vars, appVars, windowVars
<1> QED
  BY <1>1, <1>2, <1>3, <1>4, <1>5 DEF AppNext

\* Every step keeps the window's invariant.
LEMMA WindowStep ==
  ASSUME AppInv, WindowInv, [AppNext]_app_vars
  PROVE  WindowInv'
<1> SUFFICES ASSUME OpenInv, ~closed, ~closed'
             PROVE  OpenInv'
  BY ClosedStays DEF WindowInv
<1>1. CASE UNCHANGED app_vars
  BY <1>1, Undisturbed DEF app_vars, vars, appVars, ownerVars, handlerVars, uiVars,
    workVars, windowVars, histVars
<1> QED
  BY <1>1, UiStepKeeps, UserKeeps, HandlerKeeps, WindowUnserved DEF AppNext

\* Every state of the application satisfies it.
LEMMA WindowInvariant == AppSpec => [](AppInv /\ WindowInv)
<1>1. AppInit => WindowInv
  BY WindowInit DEF WindowInv
<1>2. AppInv /\ WindowInv /\ [AppNext]_app_vars => WindowInv'
  BY WindowStep
<1> QED
  BY <1>1, <1>2, AppInvariant, PTL DEF AppSpec

\* After the window is closed the window's thread only destroys the client.
ClosedDown ==
  /\ closed => ui = "loop" /\ owner # "send"
  /\ closed /\ owner \in {"close", "status", "join"} => destroying
  /\ destroying => closed

\* Every step keeps that, and nothing that is gone is used by a handler of a
\* client that was disconnected: it would have been joined.
LEMMA ClosedStep ==
  ASSUME AppInv, WindowInv, ClosedDown, StaleOnlyIfConnected, [AppNext]_app_vars
  PROVE  ClosedDown' /\ StaleOnlyIfConnected'
<1> USE DEF ClosedDown, StaleOnlyIfConnected
<1>1. CASE UiStep /\ closed
  <2>1. UNCHANGED <<closed, stale>>
    BY <1>1, ClosedStays DEF UiStep, Hello, Sent, SentNot, DisconnectStep, UiOutput,
      UiReturn, DestroyClient, appVars, windowVars, histVars
  <2>2. DisconnectStep \/ DestroyClient
    BY <1>1 DEF UiStep, Hello, Sent, SentNot, SendOk, SendFails, UiOutput, UiReturn
  <2>3. CASE DisconnectStep
    BY <1>1, <2>1, <2>3 DEF DisconnectStep, CloseSocket, Disconnected, Join
  <2>4. CASE DestroyClient
    BY <1>1, <2>1, <2>4 DEF DestroyClient, Shutdown, Destroy, appVars, uiVars
  <2> QED
    BY <2>2, <2>3, <2>4
<1>2. CASE UiStep /\ ~closed
  <2>1. UNCHANGED <<closed, stale, destroying>>
    BY <1>2 DEF UiStep, Hello, Sent, SentNot, DisconnectStep, UiOutput, UiReturn,
      DestroyClient, SendBegin, SendOk, SendFails, CloseSocket, Disconnected, Join,
      windowVars, histVars, vars, ownerVars
  <2> QED
    BY <1>2, <2>1
<1>3. CASE User
  <2>1. ~closed /\ ui = "loop" /\ stale' = stale
    BY <1>3 DEF User, ClickConnectFails, ClickConnect, ClickConnectAgain, ClickLogin,
      ClickLogout, ClickSend, ClickDisconnect, CloseWindow, Click, InLoop, histVars
  <2>2. owner = "idle"
    BY <2>1 DEF WindowInv, OpenInv, Turns
  <2>3. ~destroying'
    BY <1>3, <2>1 DEF User, ClickConnectFails, ConnectFails, ClickConnect, Connected,
      ClickConnectAgain, ClickLogin, ClickLogout, ClickSend, SendBegin, ClickDisconnect,
      Shutdown, CloseWindow, vars, ownerVars
  <2>4. closed' => ui' = "loop" /\ owner' = "idle"
    BY <1>3, <2>1, <2>2 DEF User, ClickConnectFails, ClickConnect, ClickConnectAgain,
      ClickLogin, ClickLogout, ClickSend, ClickDisconnect, CloseWindow, windowVars,
      uiVars, vars, ownerVars
  <2> QED
    BY <2>1, <2>3, <2>4
<1>4. CASE HandlerStep
  <2>1. UNCHANGED <<m_status, owner, destroying, ui, closed>>
    <3>1. CASE Receive /\ UNCHANGED appVars
      BY <3>1, ReceiveKeeps DEF AppInv, ClientInv, ownerVars, appVars, uiVars, windowVars
    <3>2. CASE Handle \/ SetSession \/ Output \/ Return
      BY <3>2 DEF Handle, SetSession, Output, Return, Dispatched, vars, ownerVars, uiVars,
        windowVars
    <3> QED
      BY <1>4, <3>1, <3>2 DEF HandlerStep
  <2>2. stale' /\ ~stale => h_pc # "enter" \/ pc = "dispatch"
    BY <1>4 DEF HandlerStep, Handle, SetSession, Output, Return, appVars, histVars
  <2>3. stale' /\ ~stale => closed \/ LoggerGone
    BY <1>4 DEF HandlerStep, Handle, SetSession, Output, Return, appVars, histVars
  <2>4. pc = "dispatch" =>
          owner # "gone" /\ (m_status = "connected" \/ owner \in {"status", "close", "join"})
    BY DEF AppInv, ClientInv, ThreadOwned, ClientTypeOK, OwnerPc
  <2>5. h_pc # "enter" => pc = "dispatch"
    BY DEF AppInv, AtWork
  <2> QED
    BY <2>1, <2>2, <2>3, <2>4, <2>5 DEF LoggerGone
<1>5. CASE ChatServer
  <2>1. UNCHANGED <<m_status, owner, destroying, ui, closed, stale>>
    BY <1>5 DEF ChatServer, ServerAnswer, ServerHello, ServerLogin, ServerLogout,
      ServerMessage, ServerReply, ServerGoesOn, ServerRelay, ServerLeaves, Reply,
      ServerRead, ServerSend, ServerClose, ServerReset, appVars, uiVars, windowVars,
      histVars, vars, ownerVars
  <2> QED
    BY <2>1
<1>6. CASE UNCHANGED app_vars
  BY <1>6 DEF app_vars, appVars, uiVars, windowVars, histVars, vars, ownerVars
<1> QED
  BY <1>1, <1>2, <1>3, <1>4, <1>5, <1>6 DEF AppNext

\* The handler thread uses the window or the logger after they are destroyed
\* only if the user closed the window of a connected client: disconnect() joins
\* the thread, and the window cannot be closed in the middle of it.
THEOREM FreedOnlyIfConnected == AppSpec => []StaleOnlyIfConnected
<1>1. AppInit => ClosedDown /\ StaleOnlyIfConnected
  BY DEF AppInit, ClientInit, ClosedDown, StaleOnlyIfConnected
<1>2. AppInv /\ WindowInv /\ ClosedDown /\ StaleOnlyIfConnected /\ [AppNext]_app_vars
        => ClosedDown' /\ StaleOnlyIfConnected'
  BY ClosedStep
<1> QED
  BY <1>1, <1>2, WindowInvariant, PTL DEF AppSpec

\* The user can connect or disconnect, whatever was pressed and answered in
\* whatever order, except while a hello is not answered: on_disconnect gives the
\* connect button back before the window's thread is in its loop again, and the
\* handler of a hello's answer shows the disconnect button first.
THEOREM AlwaysAWayOut == AppSpec => []WayOut
<1>1. AppInv /\ WindowInv => WayOut
  <2> SUFFICES ASSUME OpenInv, Quiet
               PROVE  Usable("connect") \/ Usable("disconnect") \/ greeted = "sent"
    BY DEF WindowInv, WayOut, Quiet, InLoop
  <2>1. ui = "loop" /\ h_pc = "enter"
    BY DEF Quiet, InLoop
  <2>2. CASE m_status = "connected"
    BY <2>1, <2>2 DEF OpenInv, Online, Greeting, Usable
  <2>3. CASE m_status # "connected"
    <3>1. Undone(15)
      BY <2>1, <2>3, LoopIsUndone
    <3> QED
      BY <3>1 DEF Undone, Usable
  <2> QED
    BY <2>2, <2>3
<1> QED
  BY <1>1, WindowInvariant, PTL

\* Without a connection no button that needs one can be pressed, and no packet
\* handler has a call left to make: disconnect() joins the handler thread
\* before on_disconnect takes the buttons away.
THEOREM ButtonsNeedConnection == AppSpec => []ConnectionButtons
<1>1. AppInv /\ WindowInv => ConnectionButtons
  <2> SUFFICES ASSUME AppInv, OpenInv, InLoop, m_status # "connected"
               PROVE  /\ \A b \in {"disconnect", "login", "logout", "send"} : ~Usable(b)
                      /\ h_ops = <<>>
    BY DEF WindowInv, ConnectionButtons, InLoop
  <2>1. Undone(15)
    BY LoopIsUndone DEF InLoop
  <2>2. owner = "idle"
    BY DEF OpenInv, Turns, InLoop
  <2>3. h_ops = <<>>
    BY <2>2 DEF AppInv, ClientInv, ThreadOwned, AtWork
  <2> QED
    BY <2>1, <2>3 DEF Undone, Usable
<1> QED
  BY <1>1, WindowInvariant, PTL
=============================================================================
