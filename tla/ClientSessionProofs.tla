------------------------- MODULE ClientSessionProofs -------------------------
(***************************************************************************)
(* The session of the client, through its window, the connection and the    *)
(* server.                                                                  *)
(*                                                                         *)
(* Logins under way are counted: each was asked for by a click and is in    *)
(* one place, a line of packets, the server's answer or the handler's       *)
(* hands.  The login button is there only when the server will have no      *)
(* session by the time a login reaches it.  From these two follow which     *)
(* session a message carries, that every variable keeps its type, and that  *)
(* the window agrees with the server once all answers are in.               *)
(***************************************************************************)
EXTENDS ClientAppProofs, FiniteSetTheorems

-----------------------------------------------------------------------------
(* Packets in a line: logins, and the logouts between them.                 *)

\* The logins in a line of packets, and how many there are.
LoginsIn(s) == {i \in DOMAIN s : s[i].cmd = "login"}
Logins(s) == Cardinality(LoginsIn(s))

\* 1 for what is so, 0 for what is not.
One(b) == IF b THEN 1 ELSE 0

\* What a line is after a packet was put at its end.
LEMMA AppendOf ==
  ASSUME NEW S, NEW s \in Seq(S), NEW p \in S, NEW t, t = Append(s, p)
  PROVE  /\ Len(s) \in Nat /\ DOMAIN s = 1 .. Len(s)
         /\ t \in Seq(S) /\ Len(t) = Len(s) + 1 /\ DOMAIN t = 1 .. Len(s) + 1
         /\ \A i \in 1 .. Len(s) : t[i] = s[i]
         /\ t[Len(s) + 1] = p
  BY LenProperties, AppendProperties

\* What it is after its first packet was taken.
LEMMA TailOf ==
  ASSUME NEW S, NEW s \in Seq(S), s # <<>>, NEW t, t = Tail(s)
  PROVE  /\ Len(s) \in Nat \ {0} /\ DOMAIN s = 1 .. Len(s)
         /\ t \in Seq(S) /\ Len(t) = Len(s) - 1 /\ DOMAIN t = 1 .. Len(s) - 1
         /\ \A i \in 1 .. Len(s) - 1 : t[i] = s[i + 1]
         /\ Head(s) = s[1] /\ Head(s) \in S
<1>1. Len(s) \in Nat /\ DOMAIN s = 1 .. Len(s)
  BY LenProperties
<1>2. Len(s) # 0
  BY EmptySeq
<1> QED
  BY <1>1, <1>2, HeadTailProperties, LenProperties

\* The number of logins is a number.
LEMMA LoginsNat ==
  ASSUME NEW S, NEW s \in Seq(S)
  PROVE  IsFiniteSet(LoginsIn(s)) /\ Logins(s) \in Nat
<1>1. Len(s) \in Nat /\ DOMAIN s = 1 .. Len(s)
  BY LenProperties
<1>2. IsFiniteSet(1 .. Len(s))
  BY <1>1, FS_Interval
<1>3. LoginsIn(s) \in SUBSET (1 .. Len(s))
  BY <1>1 DEF LoginsIn
<1>4. IsFiniteSet(LoginsIn(s))
  BY <1>2, <1>3, FS_Subset
<1> QED
  BY <1>4, FS_CardinalityType DEF Logins

\* No packet, no login; and the other way round.
LEMMA LoginsNone ==
  ASSUME NEW S, NEW s \in Seq(S)
  PROVE  Logins(s) = 0 <=> \A i \in DOMAIN s : s[i].cmd # "login"
<1>1. Logins(s) = 0 <=> LoginsIn(s) = {}
  BY LoginsNat, FS_EmptySet DEF Logins
<1> QED
  BY <1>1 DEF LoginsIn

LEMMA LoginsEmpty == Logins(<<>>) = 0
<1>1. LoginsIn(<<>>) = {}
  BY DEF LoginsIn
<1> QED
  BY <1>1, FS_EmptySet DEF Logins

\* A login at the end is one more.
LEMMA LoginsAppend ==
  ASSUME NEW S, NEW s \in Seq(S), NEW p \in S
  PROVE  Logins(Append(s, p)) = Logins(s) + One(p.cmd = "login")
<1> DEFINE t == Append(s, p)
           n == Len(s)
<1>1. /\ n \in Nat /\ DOMAIN s = 1 .. n /\ DOMAIN t = 1 .. n + 1
      /\ \A i \in 1 .. n : t[i] = s[i]
      /\ t[n + 1] = p
  BY AppendOf
<1>2. IsFiniteSet(LoginsIn(s)) /\ Logins(s) \in Nat
  BY LoginsNat
<1> HIDE DEF t, n
<1>3. 1 .. n + 1 = (1 .. n) \cup {n + 1} /\ n + 1 \notin 1 .. n
  BY <1>1
<1>4. CASE p.cmd = "login"
  <2>1. LoginsIn(t) = LoginsIn(s) \cup {n + 1} /\ n + 1 \notin LoginsIn(s)
    BY <1>1, <1>3, <1>4 DEF LoginsIn
  <2>2. Cardinality(LoginsIn(t)) = Cardinality(LoginsIn(s)) + 1
    BY <1>2, <2>1, FS_AddElement
  <2> QED
    BY <1>4, <2>2 DEF Logins, One, t
<1>5. CASE p.cmd # "login"
  <2>1. LoginsIn(t) = LoginsIn(s)
    BY <1>1, <1>3, <1>5 DEF LoginsIn
  <2> QED
    BY <1>2, <1>5, <2>1 DEF Logins, One, t
<1> QED
  BY <1>4, <1>5

\* A login at the head is one less.
LEMMA LoginsTail ==
  ASSUME NEW S, NEW s \in Seq(S), s # <<>>
  PROVE  Logins(s) = Logins(Tail(s)) + One(Head(s).cmd = "login")
<1> DEFINE t == Tail(s)
           n == Len(s)
           m == n - 1
           f == [i \in LoginsIn(t) |-> i + 1]
<1>1. /\ n \in Nat \ {0} /\ DOMAIN s = 1 .. n /\ DOMAIN t = 1 .. m /\ t \in Seq(S)
      /\ \A i \in 1 .. m : t[i] = s[i + 1]
      /\ Head(s) = s[1]
  BY TailOf
<1>2. /\ IsFiniteSet(LoginsIn(s)) /\ Logins(s) \in Nat
      /\ IsFiniteSet(LoginsIn(t)) /\ Logins(t) \in Nat
  BY <1>1, LoginsNat
<1> HIDE DEF t, n
<1>3. f \in [LoginsIn(t) -> LoginsIn(s) \ {1}]
  BY <1>1 DEF LoginsIn
<1>4. \A a, b \in LoginsIn(t) : f[a] = f[b] => a = b
  BY <1>1 DEF LoginsIn
<1>5. \A j \in LoginsIn(s) \ {1} : \E i \in LoginsIn(t) : f[i] = j
  <2> SUFFICES ASSUME NEW j \in LoginsIn(s) \ {1}
               PROVE  j - 1 \in LoginsIn(t) /\ f[j - 1] = j
    OBVIOUS
  <2>1. j - 1 \in 1 .. m /\ j - 1 + 1 = j
    BY <1>1 DEF LoginsIn
  <2>2. j - 1 \in LoginsIn(t)
    BY <1>1, <2>1 DEF LoginsIn
  <2> QED
    BY <2>1, <2>2
<1>6. ExistsBijection(LoginsIn(t), LoginsIn(s) \ {1})
  <2> HIDE DEF f
  <2>1. f \in Bijection(LoginsIn(t), LoginsIn(s) \ {1})
    BY <1>3, <1>4, <1>5 DEF Bijection, Injection, Surjection, IsInjective
  <2> QED
    BY <2>1 DEF ExistsBijection
<1>7. Cardinality(LoginsIn(s) \ {1}) = Cardinality(LoginsIn(t))
  BY <1>2, <1>6, FS_Bijection
<1>8. Cardinality(LoginsIn(s) \ {1}) =
        IF 1 \in LoginsIn(s) THEN Cardinality(LoginsIn(s)) - 1 ELSE Cardinality(LoginsIn(s))
  BY <1>2, FS_RemoveElement
<1>9. 1 \in LoginsIn(s) <=> Head(s).cmd = "login"
  BY <1>1 DEF LoginsIn
<1> QED
  BY <1>2, <1>7, <1>8, <1>9 DEF Logins, One, t

\* No packet of s is a login.
NoLogin(s) == \A i \in DOMAIN s : s[i].cmd # "login"

\* A server that has the session e for the client has none once it has read
\* the first n packets of s, if each login succeeds.
LoggedOut(s, e, n) ==
  \/ \E j \in 1 .. n : s[j].cmd = "logout" /\ \A k \in j + 1 .. n : s[k].cmd # "login"
  \/ e = Empty /\ \A k \in 1 .. n : s[k].cmd # "login"

\* What one more packet at the end makes of that.
LEMMA LoggedOutAppend ==
  ASSUME NEW S, NEW s \in Seq(S), NEW p \in S, NEW t, t = Append(s, p), NEW e
  PROVE  /\ \A n \in 0 .. Len(s) : LoggedOut(t, e, n) <=> LoggedOut(s, e, n)
         /\ p.cmd = "logout" => LoggedOut(t, e, Len(t))
         /\ p.cmd = "login" => ~LoggedOut(t, e, Len(t))
         /\ p.cmd \notin {"login", "logout"} =>
              (LoggedOut(t, e, Len(t)) <=> LoggedOut(s, e, Len(s)))
<1> DEFINE m == Len(s)
<1>1. /\ m \in Nat /\ Len(t) = m + 1
      /\ \A i \in 1 .. m : t[i] = s[i]
      /\ t[m + 1] = p
  BY AppendOf
<1> HIDE DEF m
<1>2. ASSUME NEW n \in 0 .. m
      PROVE  LoggedOut(t, e, n) <=> LoggedOut(s, e, n)
  <2>1. \A i \in 1 .. n : i \in 1 .. m /\ t[i] = s[i]
    BY <1>1
  <2>2. \A j \in 1 .. n : \A k \in j + 1 .. n : k \in 1 .. n
    OBVIOUS
  <2>3. (\A k \in 1 .. n : t[k].cmd # "login") <=> (\A k \in 1 .. n : s[k].cmd # "login")
    BY <2>1
  <2>4. ASSUME NEW j \in 1 .. n
        PROVE  (t[j].cmd = "logout" /\ \A k \in j + 1 .. n : t[k].cmd # "login") <=>
               (s[j].cmd = "logout" /\ \A k \in j + 1 .. n : s[k].cmd # "login")
    BY <2>1, <2>2
  <2> QED
    BY <2>3, <2>4 DEF LoggedOut
<1>3. ASSUME p.cmd = "logout" PROVE LoggedOut(t, e, m + 1)
  <2>1. m + 1 \in 1 .. m + 1 /\ (m + 1) + 1 .. m + 1 = {}
    BY <1>1
  <2> QED
    BY <1>1, <1>3, <2>1 DEF LoggedOut
<1>4. ASSUME p.cmd = "login" PROVE ~LoggedOut(t, e, m + 1)
  <2>1. /\ m + 1 \in 1 .. m + 1
        /\ \A j \in 1 .. m + 1 : j = m + 1 \/ m + 1 \in j + 1 .. m + 1
    BY <1>1
  <2>2. t[m + 1].cmd = "login" /\ "login" # "logout"
    BY <1>1, <1>4
  <2> QED
    BY <2>1, <2>2 DEF LoggedOut
<1>5. ASSUME p.cmd \notin {"login", "logout"}
      PROVE  LoggedOut(t, e, m + 1) <=> LoggedOut(s, e, m)
  <2>1. t[m + 1].cmd \notin {"login", "logout"}
    BY <1>1, <1>5
  <2>2. /\ \A j \in 1 .. m + 1 : j = m + 1 \/ j \in 1 .. m
        /\ \A j \in 1 .. m : j \in 1 .. m + 1
        /\ \A j \in 1 .. m : \A k \in j + 1 .. m + 1 : k = m + 1 \/ k \in j + 1 .. m
        /\ \A j \in 1 .. m : \A k \in j + 1 .. m : k \in j + 1 .. m + 1 /\ k \in 1 .. m
    BY <1>1
  <2>3. LoggedOut(t, e, m) => LoggedOut(t, e, m + 1)
    BY <2>1, <2>2 DEF LoggedOut
  <2>4. LoggedOut(t, e, m + 1) => LoggedOut(t, e, m)
    <3> SUFFICES ASSUME LoggedOut(t, e, m + 1) PROVE LoggedOut(t, e, m)
      OBVIOUS
    <3>1. CASE e = Empty /\ \A k \in 1 .. m + 1 : t[k].cmd # "login"
      BY <2>2, <3>1 DEF LoggedOut
    <3>2. ASSUME NEW j \in 1 .. m + 1, t[j].cmd = "logout",
                 \A k \in j + 1 .. m + 1 : t[k].cmd # "login"
          PROVE  LoggedOut(t, e, m)
      <4>1. j \in 1 .. m
        BY <2>1, <2>2, <3>2
      <4> QED
        BY <2>2, <3>2, <4>1 DEF LoggedOut
    <3> QED
      BY <3>1, <3>2 DEF LoggedOut
  <2>5. m \in 0 .. m
    BY <1>1
  <2> QED
    BY <1>2, <2>3, <2>4, <2>5
<1> QED
  BY <1>1, <1>2, <1>3, <1>4, <1>5 DEF m

\* What the server's reading the first one makes of it: f is the session after
\* that.
LEMMA LoggedOutTail ==
  ASSUME NEW S, NEW s \in Seq(S), s # <<>>, NEW t, t = Tail(s), NEW e, NEW f,
         Head(s).cmd = "logout" => f = Empty,
         Head(s).cmd \notin {"login", "logout"} => f = e,
         NEW n \in 1 .. Len(s)
  PROVE  /\ LoggedOut(s, e, n) => LoggedOut(t, f, n - 1)
         /\ Head(s).cmd # "login" => (LoggedOut(t, f, n - 1) => LoggedOut(s, e, n))
<1> DEFINE m == Len(s)
<1>1. /\ m \in Nat \ {0} /\ Len(t) = m - 1
      /\ \A i \in 1 .. m - 1 : t[i] = s[i + 1]
      /\ Head(s) = s[1] /\ n \in 1 .. m
  BY TailOf
<1> HIDE DEF m
<1>2. /\ \A i \in 2 .. n : i - 1 \in 1 .. n - 1 /\ t[i - 1] = s[i]
      /\ \A i \in 1 .. n - 1 : i + 1 \in 2 .. n /\ i + 1 \in 1 .. n /\ t[i] = s[i + 1]
      /\ \A i \in 1 .. n : i = 1 \/ i \in 2 .. n
      /\ 1 \in 1 .. n
  <2>1. ASSUME NEW i \in 2 .. n PROVE i - 1 \in 1 .. n - 1 /\ t[i - 1] = s[i]
    <3>1. i - 1 \in 1 .. n - 1 /\ i - 1 \in 1 .. m - 1 /\ (i - 1) + 1 = i
      BY <1>1
    <3> QED
      BY <1>1, <3>1
  <2>2. ASSUME NEW i \in 1 .. n - 1
        PROVE  i + 1 \in 2 .. n /\ i + 1 \in 1 .. n /\ t[i] = s[i + 1]
    <3>1. i \in 1 .. m - 1 /\ i + 1 \in 2 .. n /\ i + 1 \in 1 .. n
      BY <1>1
    <3> QED
      BY <1>1, <3>1
  <2> QED
    BY <1>1, <2>1, <2>2
<1>3. ASSUME LoggedOut(s, e, n) PROVE LoggedOut(t, f, n - 1)
  <2>1. CASE e = Empty /\ \A k \in 1 .. n : s[k].cmd # "login"
    <3>1. \A k \in 1 .. n - 1 : t[k].cmd # "login"
      BY <1>2, <2>1
    <3>2. f = Empty
      BY <1>1, <1>2, <2>1
    <3> QED
      BY <3>1, <3>2 DEF LoggedOut
  <2>2. ASSUME NEW j \in 1 .. n, s[j].cmd = "logout", \A k \in j + 1 .. n : s[k].cmd # "login"
        PROVE  LoggedOut(t, f, n - 1)
    <3>1. CASE j = 1
      <4>1. f = Empty
        BY <1>1, <2>2, <3>1
      <4>2. \A k \in 1 .. n - 1 : k + 1 \in j + 1 .. n
        BY <1>1, <3>1
      <4>3. \A k \in 1 .. n - 1 : t[k].cmd # "login"
        BY <1>2, <2>2, <4>2
      <4> QED
        BY <4>1, <4>3 DEF LoggedOut
    <3>2. CASE j \in 2 .. n
      <4>1. j - 1 \in 1 .. n - 1 /\ t[j - 1].cmd = "logout"
        BY <1>2, <2>2, <3>2
      <4>2. \A k \in (j - 1) + 1 .. n - 1 : k \in 1 .. n - 1 /\ k + 1 \in j + 1 .. n
        BY <1>1, <3>2
      <4>3. \A k \in (j - 1) + 1 .. n - 1 : t[k].cmd # "login"
        BY <1>2, <2>2, <4>2
      <4> QED
        BY <4>1, <4>3 DEF LoggedOut
    <3> QED
      BY <1>2, <3>1, <3>2
  <2> QED
    BY <1>3, <2>1, <2>2 DEF LoggedOut
<1>4. ASSUME Head(s).cmd # "login", LoggedOut(t, f, n - 1) PROVE LoggedOut(s, e, n)
  <2>1. ASSUME f = Empty, \A k \in 1 .. n - 1 : t[k].cmd # "login"
        PROVE  LoggedOut(s, e, n)
    <3>1. \A k \in 2 .. n : s[k].cmd # "login"
      BY <1>2, <2>1
    <3>2. CASE Head(s).cmd = "logout"
      <4>1. \A k \in 1 + 1 .. n : k \in 2 .. n
        OBVIOUS
      <4> QED
        BY <1>1, <1>2, <3>1, <3>2, <4>1 DEF LoggedOut
    <3>3. CASE Head(s).cmd # "logout"
      <4>1. e = Empty
        BY <1>4, <2>1, <3>3
      <4>2. \A k \in 1 .. n : s[k].cmd # "login"
        BY <1>1, <1>2, <1>4, <3>1
      <4> QED
        BY <4>1, <4>2 DEF LoggedOut
    <3> QED
      BY <3>2, <3>3
  <2>2. ASSUME NEW j \in 1 .. n - 1, t[j].cmd = "logout",
               \A k \in j + 1 .. n - 1 : t[k].cmd # "login"
        PROVE  LoggedOut(s, e, n)
    <3>1. j + 1 \in 1 .. n /\ s[j + 1].cmd = "logout"
      BY <1>2, <2>2
    <3>2. \A k \in (j + 1) + 1 .. n : k \in 2 .. n /\ k - 1 \in j + 1 .. n - 1
      BY <1>1
    <3>3. \A k \in (j + 1) + 1 .. n : s[k].cmd # "login"
      BY <1>2, <2>2, <3>2
    <3> QED
      BY <3>1, <3>3 DEF LoggedOut
  <2> QED
    BY <1>4, <2>1, <2>2 DEF LoggedOut
<1> QED
  BY <1>3, <1>4

-----------------------------------------------------------------------------
(* The connection, seen from both ends.                                     *)

\* The server reads what is sent, and the client what is answered.
Live == peer = "open" /\ m_socket = "open"

\* While a packet is sent the window's thread is in the callback it is for.
SendsWhat == owner = "send" => ui = sending.cmd

\* A socket is open only while the client is connected and not disconnecting.
OpenSocket ==
  m_socket = "open" => m_status = "connected" /\ owner \in {"idle", "send"}

LinkInv == SendsWhat /\ OpenSocket

\* What the window's thread does to the connection when it neither connects nor
\* sends: it may put an end to it.
LeavesNet ==
  /\ UNCHANGED <<peer, inbox, outbox, answer, entry, issued, asked, m_cookie, incoming,
                 h_pc, h_ops, greeted, crossed, refused, stale>>
  /\ \/ pc' = pc
     \/ pc \notin {"body", "dispatch"} /\ pc' \notin {"body", "dispatch"}
  /\ m_socket' = m_socket \/ m_socket' # "open"

\* It is in a callback that has begun to send, and nothing else is sent.
LEMMA SendsRequests ==
  ASSUME AppInv, SendsWhat, owner = "send"
  PROVE  /\ sending \in Request
         /\ ui = sending.cmd
         /\ ui \in {"hello", "login", "logout", "message"}
<1>1. sending \in Request
  BY DEF AppInv, ClientInv, SendsRequest
<1>2. sending.cmd \in {"hello", "login", "logout", "message"}
  BY <1>1, AppAssumption DEF AppRequest
<1> QED
  BY <1>1, <1>2 DEF SendsWhat

\* A step of the window's thread connects, sends or leaves the connection.
LEMMA UiNet ==
  ASSUME AppInv, UiStep \/ User
  PROVE  Sent \/ (\E found \in Resolve : ClickConnect(found)) \/ LeavesNet
<1> USE DEF LeavesNet, handlerVars, netVars, serverVars, histVars, workVars
<1>1. CASE Hello
  BY <1>1 DEF Hello, SendBegin
<1>2. CASE SentNot
  BY <1>2 DEF SentNot, SendFails
<1>3. CASE DisconnectStep
  BY <1>3 DEF DisconnectStep, CloseSocket, Disconnected, Join
<1>4. CASE UiOutput
  BY <1>4 DEF UiOutput, vars
<1>5. CASE UiReturn
  BY <1>5 DEF UiReturn, vars
<1>6. CASE DestroyClient
  BY <1>6 DEF DestroyClient, Shutdown, Destroy, appVars
<1>7. ASSUME NEW e \in ConnectError, ClickConnectFails(e) PROVE LeavesNet
  BY <1>7 DEF ClickConnectFails, ConnectFails
<1>8. CASE ClickConnectAgain
  BY <1>8 DEF ClickConnectAgain, vars
<1>9. ASSUME NEW valid \in BOOLEAN, ClickLogin(valid) PROVE LeavesNet
  BY <1>9 DEF ClickLogin, SendBegin
<1>10. CASE ClickLogout
  BY <1>10 DEF ClickLogout, SendBegin
<1>11. CASE ClickSend
  BY <1>11 DEF ClickSend, SendBegin
<1>12. CASE ClickDisconnect
  BY <1>12 DEF ClickDisconnect, Shutdown
<1>13. CASE CloseWindow
  BY <1>13 DEF CloseWindow, vars
<1> HIDE DEF LeavesNet
<1> QED
  BY <1>1, <1>2, <1>3, <1>4, <1>5, <1>6, <1>7, <1>8, <1>9, <1>10, <1>11, <1>12, <1>13
    DEF UiStep, User

\* What the handler thread and the server leave alone.
LEMMA HandlerLeaves ==
  ASSUME AppInv, HandlerStep
  PROVE  /\ UNCHANGED <<peer, m_status, m_socket, ownerVars, outbox, uiVars, closed,
                        serverVars, logins, crossed>>
         /\ Return \/ UNCHANGED <<asked, greeted, refused>>
         /\ (Receive /\ UNCHANGED appVars) \/ UNCHANGED inbox
<1> USE DEF vars, ownerVars, netVars, uiVars, serverVars, histVars, windowVars
<1>1. CASE Receive /\ UNCHANGED appVars
  BY <1>1, ReceiveKeeps DEF appVars, AppInv, ClientInv
<1>2. CASE Handle
  BY <1>2 DEF Handle
<1>3. CASE SetSession
  BY <1>3 DEF SetSession
<1>4. CASE Output
  BY <1>4 DEF Output
<1>5. CASE Return
  BY <1>5 DEF Return, Dispatched
<1> QED
  BY <1>1, <1>2, <1>3, <1>4, <1>5 DEF HandlerStep

LEMMA ServerLeavesClient ==
  ASSUME AppInv, ChatServer
  PROVE  UNCHANGED <<m_status, m_socket, ownerVars, handlerVars, uiVars, workVars,
                     windowVars, m_cookie, logins, histVars>>
<1>1. CASE ServerHello \/ ServerLogin \/ ServerLogout \/ ServerMessage
  BY <1>1 DEF ServerHello, ServerLogin, ServerLogout, ServerMessage, Reply, ServerRead
<1>2. CASE ServerReply
  BY <1>2 DEF ServerReply, ServerSend
<1>3. CASE ServerRelay
  BY <1>3 DEF ServerRelay, ServerSend, appVars
<1>4. CASE ServerLeaves
  BY <1>4 DEF ServerLeaves, ServerClose, ServerReset
<1>5. CASE ServerGoesOn
  BY <1>5 DEF ServerGoesOn, vars
<1> QED
  BY <1>1, <1>2, <1>3, <1>4, <1>5 DEF ChatServer, ServerAnswer

\* Both parts of LinkInv are kept.
LEMMA LinkStep ==
  ASSUME AppInv, LinkInv, [AppNext]_app_vars
  PROVE  LinkInv'
<1> USE DEF LinkInv
<1>1. SendsWhat'
  <2>1. CASE UiStep \/ User
    <3>1. CASE owner = "send"
      <4>1. ui \in {"hello", "login", "logout", "message"}
        BY <3>1, SendsRequests
      <4> QED
        BY <2>1, <3>1, <4>1 DEF SendsWhat, UiStep, User, Hello, Sent, SentNot, DisconnectStep,
          UiOutput, UiReturn, DestroyClient, ClickConnectFails, ClickConnect,
          ClickConnectAgain, ClickLogin, ClickLogout, ClickSend, ClickDisconnect,
          CloseWindow, Click, InLoop, SendBegin, SendOk, SendFails, CloseSocket,
          Disconnected, Join, Shutdown, Destroy, ConnectFails, Connected, OwnerIdle
    <3>2. CASE owner # "send"
      <4>1. CASE Hello
        BY <4>1 DEF Hello, SendBegin, SendsWhat
      <4>2. CASE \E valid \in BOOLEAN : ClickLogin(valid)
        BY <4>2 DEF ClickLogin, SendBegin, SendsWhat
      <4>3. CASE ClickLogout
        BY <4>3 DEF ClickLogout, SendBegin, SendsWhat, WithSession
      <4>4. CASE ClickSend
        BY <4>4 DEF ClickSend, SendBegin, SendsWhat, WithSession
      <4>5. CASE UiStep /\ ~Hello
        <5>1. owner' # "send"
          BY <3>2, <4>5 DEF UiStep, Sent, SentNot, DisconnectStep, UiOutput, UiReturn,
            DestroyClient, SendOk, SendFails, CloseSocket, Disconnected, Join, Shutdown,
            Destroy, vars, ownerVars
        <5> QED
          BY <5>1 DEF SendsWhat
      <4>6. ASSUME User, \A valid \in BOOLEAN : ~ClickLogin(valid), ~ClickLogout, ~ClickSend
            PROVE  owner' # "send"
        BY <3>2, <4>6 DEF User, ClickConnectFails, ClickConnect, ClickConnectAgain,
          ClickDisconnect, CloseWindow, ConnectFails, Connected, Shutdown, vars, ownerVars
      <4> QED
        BY <2>1, <4>1, <4>2, <4>3, <4>4, <4>5, <4>6 DEF SendsWhat
    <3> QED
      BY <3>1, <3>2
  <2>2. CASE HandlerStep
    BY <2>2, HandlerLeaves DEF SendsWhat, ownerVars, uiVars
  <2>3. CASE ChatServer
    BY <2>3, ServerLeavesClient DEF SendsWhat, ownerVars, uiVars
  <2>4. CASE UNCHANGED app_vars
    BY <2>4 DEF SendsWhat, app_vars, vars, appVars, ownerVars, uiVars
  <2> QED
    BY <2>1, <2>2, <2>3, <2>4 DEF AppNext
<1>2. OpenSocket'
  <2>1. [ClientNext]_vars
    BY StepRefines
  <2>2. CASE Owner
    BY <2>2 DEF Owner, ConnectFails, Connected, SendBegin, SendOk, SendFails, Shutdown,
      Disconnecting, CloseSocket, Disconnected, Join, Destroy, OwnerIdle, ConnectError,
      OpenSocket, ownerVars
  <2>3. CASE Receive \/ Dispatched
    BY <2>3, ReceiveKeeps DEF AppInv, ClientInv, OpenSocket, ownerVars
  <2>4. CASE Server
    BY <2>4, ServerKeeps DEF AppInv, ClientInv, OpenSocket, ownerVars
  <2>5. CASE UNCHANGED vars
    BY <2>5 DEF vars, ownerVars, OpenSocket
  <2> QED
    BY <2>1, <2>2, <2>3, <2>4, <2>5 DEF ClientNext
<1> QED
  BY <1>1, <1>2

LEMMA LinkInit == AppInit => LinkInv
  BY DEF AppInit, ClientInit, LinkInv, SendsWhat, OpenSocket

-----------------------------------------------------------------------------
(* Logins under way.                                                        *)

\* The server's answer, or the packet the handler thread has, is a login's.
Answering == answer # None /\ answer.cmd = "login"
Handling == pc \in {"body", "dispatch"} /\ incoming.cmd = "login"

\* The window's thread is about to send one.
Asking == owner = "send" /\ ui = "login"

\* Logins sent and not answered, answers to logins that were not handled.
Upstream == Logins(outbox) + One(Answering)
Downstream == Logins(inbox) + One(Handling)
InFlight == Upstream + Downstream

\* asked counts them, and those that were lost with the connection; each was
\* asked for by the user, and each session was asked for by one of them.
Counted ==
  /\ asked \in Nat /\ issued \in Nat /\ logins \in 0 .. MaxLogin
  /\ InFlight <= asked
  /\ Live => InFlight = asked
  /\ asked + One(Asking) <= logins
  /\ issued + Logins(outbox) + One(Asking) <= logins

\* All of these are numbers.
LEMMA Numbers ==
  ASSUME AppInv
  PROVE  /\ Logins(outbox) \in Nat /\ Logins(inbox) \in Nat
         /\ One(Answering) \in {0, 1} /\ One(Handling) \in {0, 1} /\ One(Asking) \in {0, 1}
         /\ Upstream \in Nat /\ Downstream \in Nat /\ InFlight \in Nat
<1>1. Logins(outbox) \in Nat /\ Logins(inbox) \in Nat
  BY LoginsNat DEF AppInv, ClientInv, ClientTypeOK
<1>2. One(Answering) \in {0, 1} /\ One(Handling) \in {0, 1} /\ One(Asking) \in {0, 1}
  BY DEF One
<1> QED
  BY <1>1, <1>2 DEF InFlight, Upstream, Downstream

\* A login is asked for by the user's click, once.
LEMMA AsksOnce ==
  ASSUME AppInv, SendsWhat, UiStep \/ User
  PROVE  \/ /\ \E valid \in BOOLEAN : ClickLogin(valid)
            /\ logins < MaxLogin /\ logins' = logins + 1
            /\ Asking' /\ ~Asking
         \/ Sent /\ logins' = logins /\ ~Asking'
         \/ ~Sent /\ logins' = logins /\ (Asking' => Asking)
<1>1. ASSUME NEW valid \in BOOLEAN, ClickLogin(valid)
      PROVE  /\ logins < MaxLogin /\ logins' = logins + 1
             /\ Asking' /\ ~Asking
  BY <1>1 DEF ClickLogin, SendBegin, OwnerIdle, Asking
<1>2. CASE Sent
  BY <1>2 DEF Sent, SendOk, Asking
<1>3. CASE UiStep /\ ~Sent
  BY <1>3 DEF UiStep, Hello, SentNot, DisconnectStep, UiOutput, UiReturn, DestroyClient,
    SendBegin, SendFails, CloseSocket, Disconnected, Join, Shutdown, Destroy, appVars,
    uiVars, vars, ownerVars, Asking
<1>4. ASSUME User, \A valid \in BOOLEAN : ~ClickLogin(valid)
      PROVE  logins' = logins /\ (Asking' => Asking)
  BY <1>4 DEF User, ClickConnectFails, ClickConnect, ClickConnectAgain, ClickLogout,
    ClickSend, ClickDisconnect, CloseWindow, ConnectFails, Connected, SendBegin, Shutdown,
    vars, ownerVars, uiVars, Asking
<1> QED
  BY <1>1, <1>2, <1>3, <1>4

\* These, after a step.
LEMMA NumbersLater ==
  ASSUME AppInv'
  PROVE  /\ Logins(outbox)' \in Nat /\ Logins(inbox)' \in Nat
         /\ One(Answering)' \in {0, 1} /\ One(Handling)' \in {0, 1}
         /\ One(Asking)' \in {0, 1}
         /\ Upstream' \in Nat /\ Downstream' \in Nat /\ InFlight' \in Nat
<1>1. AppInv' => (/\ Logins(outbox) \in Nat /\ Logins(inbox) \in Nat
                  /\ One(Answering) \in {0, 1} /\ One(Handling) \in {0, 1}
                  /\ One(Asking) \in {0, 1}
                  /\ Upstream \in Nat /\ Downstream \in Nat /\ InFlight \in Nat)'
  BY Numbers, PTL
<1> QED
  BY <1>1

\* How InFlight changes with its parts.
LEMMA FlightChanges ==
  ASSUME AppInv, AppInv'
  PROVE  /\ InFlight \in Nat /\ InFlight' \in Nat
         /\ Upstream' = Upstream /\ Downstream' = Downstream => InFlight' = InFlight
         /\ Upstream' = Upstream /\ Downstream = Downstream' + 1 => InFlight = InFlight' + 1
         /\ Upstream = Upstream' + 1 /\ Downstream' = Downstream + 1 => InFlight' = InFlight
         /\ Upstream' = Upstream + 1 /\ Downstream' = Downstream => InFlight' = InFlight + 1
         /\ Upstream' <= Upstream /\ Downstream' <= Downstream => InFlight' <= InFlight
<1>1. /\ Upstream \in Nat /\ Downstream \in Nat /\ Upstream' \in Nat /\ Downstream' \in Nat
  BY Numbers, NumbersLater
<1>2. InFlight = Upstream + Downstream /\ InFlight' = Upstream' + Downstream'
  BY DEF InFlight
<1> HIDE DEF InFlight, Upstream, Downstream
<1>3. PICK x \in Nat, y \in Nat, x1 \in Nat, y1 \in Nat :
        x = Upstream /\ y = Downstream /\ x1 = Upstream' /\ y1 = Downstream'
  BY <1>1, Zenon
<1>4. InFlight = x + y /\ InFlight' = x1 + y1
  BY <1>2, <1>3
<1>5. PICK i \in Nat, i1 \in Nat : i = x + y /\ i1 = x1 + y1
  OBVIOUS
<1>6. /\ x1 = x /\ y1 = y => i1 = i
      /\ x1 = x /\ y = y1 + 1 => i = i1 + 1
      /\ x = x1 + 1 /\ y1 = y + 1 => i1 = i
      /\ x1 = x + 1 /\ y1 = y => i1 = i + 1
      /\ x1 <= x /\ y1 <= y => i1 <= i
  BY <1>5
<1>7. i = InFlight /\ i1 = InFlight'
  BY <1>4, <1>5
<1> QED
  BY <1>3, <1>6, <1>7

\* How many logins the server has before it.
LEMMA UpstreamChanges ==
  ASSUME AppInv, AppInv'
  PROVE  /\ Logins(outbox)' = Logins(outbox) /\ One(Answering)' = One(Answering) =>
              Upstream' = Upstream
         /\ Logins(outbox)' = Logins(outbox) + 1 /\ One(Answering)' = One(Answering) =>
              Upstream' = Upstream + 1
         /\ Logins(outbox)' = Logins(outbox) /\ One(Answering) = One(Answering)' + 1 =>
              Upstream = Upstream' + 1
         /\ Logins(outbox) = Logins(outbox)' + 1 /\ One(Answering)' = One(Answering) + 1 =>
              Upstream' = Upstream
         /\ Logins(outbox)' = 0 /\ One(Answering)' = 0 => Upstream' <= Upstream
<1>1. /\ Logins(outbox) \in Nat /\ One(Answering) \in Nat
      /\ Logins(outbox)' \in Nat /\ One(Answering)' \in Nat
  BY Numbers, NumbersLater
<1>2. Upstream = Logins(outbox) + One(Answering) /\ Upstream' = Logins(outbox)' + One(Answering)'
  BY DEF Upstream
<1> HIDE DEF Upstream, Logins, One
<1>3. \A x, y, x1, y1 \in Nat : \A i, i1 :
        i = x + y /\ i1 = x1 + y1 =>
          /\ x1 = x /\ y1 = y => i1 = i
          /\ x1 = x + 1 /\ y1 = y => i1 = i + 1
          /\ x1 = x /\ y = y1 + 1 => i = i1 + 1
          /\ x = x1 + 1 /\ y1 = y + 1 => i1 = i
          /\ x1 = 0 /\ y1 = 0 => i1 <= i
  OBVIOUS
<1> QED
  BY <1>1, <1>2, <1>3

\* Taking a packet from the inbox: what was there is in the handler's hands.
LEMMA HeaderTaken ==
  ASSUME AppInv, RecvHeader
  PROVE  /\ pc = "header" /\ pc' = "body" /\ incoming' = Head(inbox)
         /\ inbox # <<>> /\ inbox' = Tail(inbox)
         /\ Downstream' = Downstream
<1>1. /\ pc = "header" /\ pc' = "body" /\ incoming' = Head(inbox)
      /\ inbox # <<>> /\ inbox' = Tail(inbox)
  BY DEF RecvHeader
<1>2. Logins(inbox) = Logins(Tail(inbox)) + One(Head(inbox).cmd = "login")
  BY <1>1, LoginsTail DEF AppInv, ClientInv, ClientTypeOK
<1>3. ~Handling /\ (Handling' <=> Head(inbox).cmd = "login")
  BY <1>1 DEF Handling
<1>4. One(Handling) = 0 /\ One(Handling)' = One(Head(inbox).cmd = "login")
  BY <1>3 DEF One
<1>5. Logins(inbox) \in Nat
  BY Numbers
<1>6. Downstream = Logins(inbox) + 0
      /\ Downstream' = Logins(Tail(inbox)) + One(Head(inbox).cmd = "login")
  BY <1>1, <1>4 DEF Downstream
<1> QED
  BY <1>1, <1>2, <1>5, <1>6

\* What the window's thread does to the count.
LEMMA CountedUi ==
  ASSUME AppInv, AppInv', LinkInv, Counted, UiStep \/ User
  PROVE  Counted'
<1> DEFINE L == Logins(outbox)
           A == One(Asking)
           I == InFlight
<1>0. /\ L \in Nat /\ A \in {0, 1} /\ I \in Nat /\ A' \in {0, 1} /\ I' \in Nat /\ L' \in Nat
  BY Numbers, NumbersLater
<1>1. /\ asked \in Nat /\ issued \in Nat /\ logins \in Nat /\ logins <= MaxLogin
      /\ MaxLogin \in Nat
      /\ I <= asked /\ (Live => I = asked)
      /\ asked + A <= logins /\ issued + L + A <= logins
  BY AppAssumption DEF Counted
<1>2. CASE LeavesNet /\ ~Sent
  <2>1. L' = L /\ I' = I /\ asked' = asked /\ issued' = issued /\ (Live' => Live)
    <3>1. Handling' <=> Handling
      BY <1>2 DEF LeavesNet, Handling
    <3>2. Answering' <=> Answering
      BY <1>2 DEF LeavesNet, Answering
    <3> QED
      BY <1>2, <3>1, <3>2 DEF LeavesNet, InFlight, Upstream, Downstream, Live, One
  <2>2. \/ logins < MaxLogin /\ logins' = logins + 1 /\ A' = 1 /\ A = 0
        \/ logins' = logins /\ A' <= A
    <3>1. \/ logins < MaxLogin /\ logins' = logins + 1 /\ Asking' /\ ~Asking
          \/ logins' = logins /\ (Asking' => Asking)
      BY <1>2, AsksOnce DEF LinkInv
    <3> QED
      BY <3>1 DEF One
  <2> HIDE DEF L, A, I
  <2>3. /\ logins' \in Nat /\ logins' <= MaxLogin
        /\ asked' + A' <= logins' /\ issued' + L' + A' <= logins'
    BY <1>0, <1>1, <2>1, <2>2
  <2>4. logins' \in 0 .. MaxLogin
    BY <1>1, <2>3
  <2> QED
    BY <1>1, <2>1, <2>3, <2>4 DEF Counted, L, A, I
<1>3. ASSUME NEW found \in Resolve, ClickConnect(found) PROVE Counted'
  <2>1. /\ asked' = 0 /\ issued' = issued /\ logins' = logins
        /\ outbox' = <<>> /\ inbox' = <<>> /\ answer' = None /\ pc' = "loop"
        /\ ui' = "connected"
    BY <1>3 DEF ClickConnect, Connected, NewConnection
  <2>2. ~Handling' /\ ~Answering' /\ ~Asking'
    <3>1. owner' = "idle"
      BY <1>3 DEF ClickConnect, Connected, ownerVars, OwnerIdle
    <3> QED
      BY <2>1, <3>1 DEF Handling, Answering, Asking
  <2>3. L' = 0 /\ A' = 0 /\ I' = 0
    BY <2>1, <2>2, LoginsEmpty DEF InFlight, Upstream, Downstream, One
  <2> HIDE DEF L, A, I
  <2>4. /\ I' <= asked' /\ (Live' => I' = asked')
        /\ asked' + A' <= logins' /\ issued' + L' + A' <= logins'
    BY <1>0, <1>1, <2>1, <2>3
  <2> QED
    BY <1>1, <2>1, <2>4 DEF Counted, L, A, I
<1>4. CASE Sent
  <2>1. /\ owner = "send" /\ m_socket = "open" /\ peer \in {"open", "closed"}
        /\ outbox' = IF peer = "open" THEN Append(outbox, sending) ELSE outbox
        /\ asked' = IF ui = "login" THEN asked + 1 ELSE asked
        /\ UNCHANGED <<peer, m_socket, pc, incoming, inbox, answer, issued, logins>>
        /\ ui' = "output"
    BY <1>4 DEF Sent, SendOk, handlerVars, serverVars
  <2>2. sending \in Request /\ (sending.cmd = "login" <=> Asking)
    BY <2>1, SendsRequests DEF LinkInv, Asking
  <2>3. L' = IF peer = "open" THEN L + A ELSE L
    <3>1. CASE peer = "open"
      <4>1. Logins(Append(outbox, sending)) = Logins(outbox) + One(sending.cmd = "login")
        BY <2>2, LoginsAppend DEF AppInv, ClientInv, ClientTypeOK
      <4> QED
        BY <2>1, <2>2, <3>1, <4>1 DEF One
    <3>2. CASE peer # "open"
      BY <2>1, <3>2
    <3> QED
      BY <3>1, <3>2
  <2>4. A' = 0 /\ asked' = asked + A
    BY <1>1, <2>1 DEF One, Asking
  <2>5. I' = IF peer = "open" THEN I + A ELSE I
    <3>1. One(Answering)' = One(Answering) /\ Downstream' = Downstream
      BY <2>1 DEF Handling, Answering, Downstream, One
    <3>2. L' = L \/ L' = L + 1
      BY <1>0, <2>3
    <3>3. /\ L' = L => InFlight' = InFlight
          /\ L' = L + 1 => InFlight' = InFlight + 1
      BY <3>1, UpstreamChanges, FlightChanges
    <3> HIDE DEF L, A
    <3> QED
      BY <1>0, <2>3, <3>2, <3>3
  <2>6. (Live' <=> peer = "open") /\ (Live <=> peer = "open")
    BY <2>1 DEF Live
  <2> HIDE DEF L, A, I
  <2>7. /\ asked' \in Nat /\ I' <= asked' /\ (Live' => I' = asked')
        /\ asked' + A' <= logins' /\ issued' + L' + A' <= logins'
    BY <1>0, <1>1, <2>1, <2>3, <2>4, <2>5, <2>6
  <2> QED
    BY <1>1, <2>1, <2>7 DEF Counted, L, A, I
<1> QED
  BY <1>2, <1>3, <1>4, UiNet

\* What the handler thread does to the count.
LEMMA CountedHandler ==
  ASSUME AppInv, AppInv', LinkInv, Counted, HandlerStep
  PROVE  Counted'
<1> DEFINE L == Logins(outbox)
           A == One(Asking)
           I == InFlight
           H == One(Handling)
           J == Logins(inbox)
<1>0. /\ L \in Nat /\ A \in {0, 1} /\ I \in Nat /\ J \in Nat /\ H \in {0, 1}
      /\ L' \in Nat /\ A' \in {0, 1} /\ I' \in Nat /\ J' \in Nat /\ H' \in {0, 1}
  BY Numbers, NumbersLater
<1>1. /\ asked \in Nat /\ issued \in Nat /\ logins \in Nat /\ logins <= MaxLogin
      /\ MaxLogin \in Nat
      /\ I <= asked /\ (Live => I = asked)
      /\ asked + A <= logins /\ issued + L + A <= logins
  BY AppAssumption DEF Counted
<1>2. UNCHANGED <<peer, m_socket, owner, outbox, ui, answer, issued, logins>>
  BY HandlerLeaves DEF ownerVars, uiVars, serverVars
<1>3. L' = L /\ A' = A /\ Upstream' = Upstream /\ (Live' <=> Live)
  BY <1>2 DEF Asking, Answering, Live, One, Upstream
<1>4. \/ Downstream' = Downstream /\ asked' = asked
      \/ Downstream = Downstream' + 1 /\ asked' = asked - 1
      \/ Downstream' <= Downstream /\ ~Live /\ asked' = asked
  <2>1. CASE Receive /\ UNCHANGED appVars
    <3>1. asked' = asked
      BY <2>1 DEF appVars, histVars
    <3>2. CASE RecvHeader
      BY <3>1, <3>2, HeaderTaken
    <3>3. CASE RecvBodyLost
      <4>1. inbox' = inbox /\ incoming' = None /\ pc' = "loop" /\ ~Live
        BY <3>3 DEF RecvBodyLost, netVars, Live
      <4>2. ~Handling'
        BY <4>1 DEF Handling
      <4>3. J' = J /\ H' = 0
        BY <4>1, <4>2 DEF One
      <4>4. Downstream = J + H /\ Downstream' = J + 0
        BY <4>1, <4>3 DEF Downstream
      <4> HIDE DEF J, H
      <4>5. Downstream' <= Downstream
        BY <1>0, <4>4
      <4> QED
        BY <3>1, <4>1, <4>5
    <3>4. CASE RecvBody
      <4>1. UNCHANGED <<inbox, incoming>> /\ pc = "body" /\ pc' = "dispatch"
        BY <3>4 DEF RecvBody, netVars
      <4>2. Handling' <=> Handling
        BY <4>1 DEF Handling
      <4> QED
        BY <3>1, <4>1, <4>2 DEF Downstream, One
    <3>5. CASE Loop \/ RecvNothing \/ \E g \in Garbage : RecvGarbage(g)
      <4>1. /\ UNCHANGED <<inbox, incoming>>
            /\ pc \in {"loop", "header"} /\ pc' \in {"loop", "header", "done", "crashed"}
        BY <3>5 DEF Loop, RecvNothing, RecvGarbage, netVars
      <4>2. ~Handling' /\ ~Handling
        BY <4>1 DEF Handling
      <4> QED
        BY <3>1, <4>1, <4>2 DEF Downstream, One
    <3> QED
      BY <2>1, <3>2, <3>3, <3>4, <3>5 DEF Receive
  <2>2. CASE Handle \/ SetSession \/ Output
    <3>1. UNCHANGED <<pc, incoming, inbox, asked>>
      BY <2>2 DEF Handle, SetSession, Output, vars, handlerVars, netVars, histVars
    <3>2. Handling' <=> Handling
      BY <3>1 DEF Handling
    <3> QED
      BY <3>1, <3>2 DEF Downstream, One
  <2>3. CASE Return
    <3>1. /\ pc = "dispatch" /\ pc' = "loop" /\ inbox' = inbox
          /\ asked' = IF incoming.cmd = "login" THEN asked - 1 ELSE asked
      BY <2>3 DEF Return, Dispatched, netVars
    <3>2. ~Handling' /\ (Handling <=> incoming.cmd = "login")
      BY <3>1 DEF Handling
    <3>3. J' = J /\ H' = 0 /\ H = IF incoming.cmd = "login" THEN 1 ELSE 0
      BY <3>1, <3>2 DEF One
    <3>4. Downstream = J + H /\ Downstream' = J + 0
      BY <3>3 DEF Downstream
    <3> HIDE DEF J, H
    <3> QED
      BY <1>0, <3>1, <3>3, <3>4
  <2> QED
    BY <2>1, <2>2, <2>3 DEF HandlerStep
<1>5. logins' = logins /\ issued' = issued /\ asked' \in Int
  BY <1>2 DEF AppInv, DataOK
<1>6. Upstream \in Nat /\ Upstream' \in Nat /\ Downstream \in Nat /\ Downstream' \in Nat
  BY Numbers, NumbersLater
<1>7. \/ I' = I /\ asked' = asked
      \/ I = I' + 1 /\ asked' = asked - 1
      \/ I' <= I /\ ~Live /\ asked' = asked
  <2>1. Upstream' <= Upstream
    BY <1>3, <1>6
  <2> QED
    BY <1>3, <1>4, <2>1, FlightChanges
<1> HIDE DEF L, A, I, H, J
<1>8. /\ asked' \in Nat /\ I' <= asked' /\ (Live' => I' = asked')
      /\ asked' + A' <= logins' /\ issued' + L' + A' <= logins'
  <2>2. \A a, i, i1 \in Nat : \A a1 \in Int :
          /\ i = a
          /\ (i1 = i /\ a1 = a) \/ (i = i1 + 1 /\ a1 = a - 1)
          => i1 = a1
    OBVIOUS
  <2>3. asked' \in Nat /\ I' <= asked' /\ asked' + A <= logins
    <3>1. A \in Nat
      BY <1>0
    <3>2. \/ I' = I /\ asked' = asked
          \/ I = I' + 1 /\ asked' = asked - 1
          \/ I' <= I /\ asked' = asked
      BY <1>7
    <3>3. PICK a \in Nat, i \in Nat, i1 \in Nat, d \in Nat, n \in Nat, a1 \in Int :
            a = asked /\ i = I /\ i1 = I' /\ d = A /\ n = logins /\ a1 = asked'
      BY <1>0, <1>1, <1>5, <3>1, Zenon
    <3>4. /\ i <= a /\ a + d <= n
          /\ \/ i1 = i /\ a1 = a
             \/ i = i1 + 1 /\ a1 = a - 1
             \/ i1 <= i /\ a1 = a
      BY <1>1, <3>2, <3>3
    <3>5. a1 \in Nat /\ i1 <= a1 /\ a1 + d <= n
      BY <3>4
    <3> QED
      BY <3>3, <3>5
  <2>4. Live' => I' = asked'
    BY <1>0, <1>1, <1>3, <1>5, <1>7, <2>2
  <2> QED
    BY <1>1, <1>3, <1>5, <2>3, <2>4
<1> QED
  BY <1>1, <1>2, <1>8 DEF Counted, L, A, I

\* What is read, and what answers it.
LEMMA ServerReads ==
  ASSUME AppInv, ServerHello \/ ServerLogin \/ ServerLogout \/ ServerMessage
  PROVE  /\ peer = "open" /\ answer = None /\ outbox # <<>> /\ outbox' = Tail(outbox)
         /\ UNCHANGED <<peer, inbox>>
         /\ Answering' <=> Head(outbox).cmd = "login"
         /\ Head(outbox).cmd = "login" <=> ServerLogin
         /\ Head(outbox).cmd = "logout" => entry' = Empty
         /\ Head(outbox).cmd \notin {"login", "logout"} => entry' = entry
         /\ ~ServerLogin => issued' = issued /\ entry' \in {entry, Empty}
<1>1. /\ peer = "open" /\ answer = None /\ outbox # <<>> /\ outbox' = Tail(outbox)
      /\ UNCHANGED <<peer, inbox>>
  BY DEF ServerHello, ServerLogin, ServerLogout, ServerMessage, Reply, ServerRead
<1>2. \A p \in Packet : p # None
  BY ClientNoneAssumption
<1>3. CASE ServerHello
  <2>1. /\ Head(outbox).cmd = "hello" /\ answer' = [cmd |-> "hello"]
        /\ entry' = entry /\ issued' = issued
    BY <1>3 DEF ServerHello, Reply
  <2> QED
    BY <1>1, <2>1 DEF Answering, ServerLogin
<1>4. CASE ServerLogin
  <2>1. /\ Head(outbox).cmd = "login"
        /\ \E b \in BOOLEAN, s \in Session \cup {Empty} :
             answer' = [cmd |-> "login", status |-> IfOk(b), session |-> s]
    <3>1. (Head(outbox).valid /\ entry = Empty) \in BOOLEAN
      OBVIOUS
    <3> QED
      BY <1>4, <3>1 DEF ServerLogin, Reply
  <2>2. answer' \in Packet /\ answer'.cmd = "login"
    BY <2>1, Answers
  <2>3. Answering'
    BY <1>2, <2>2 DEF Answering
  <2> QED
    BY <1>1, <1>4, <2>1, <2>3
<1>5. CASE ServerLogout
  <2>1. /\ Head(outbox).cmd = "logout"
        /\ answer' = [cmd |-> "logout", status |-> IfOk(entry # Empty)]
        /\ entry' = Empty /\ issued' = issued
    BY <1>5 DEF ServerLogout, Reply
  <2>2. answer'.cmd = "logout"
    BY <2>1
  <2> QED
    BY <1>1, <2>1, <2>2 DEF Answering, ServerLogin
<1>6. CASE ServerMessage
  <2>1. /\ Head(outbox).cmd = "message"
        /\ \/ answer' = [cmd |-> "message_reply", status |-> IfOk(entry # Empty)]
           \/ answer' = None
        /\ entry' = entry /\ issued' = issued
    BY <1>6 DEF ServerMessage, Reply
  <2>2. ~Answering'
    BY <2>1 DEF Answering
  <2> QED
    BY <1>1, <2>1, <2>2 DEF ServerLogin
<1> QED
  BY <1>3, <1>4, <1>5, <1>6

\* Numbers of logins that a step of the server moves along.
LEMMA ServerMoves ==
  ASSUME AppInv, AppInv', Counted, ChatServer
  PROVE  /\ \/ InFlight' = InFlight /\ (Live' => Live)
            \/ InFlight' <= InFlight /\ ~Live'
         /\ \/ Logins(outbox)' <= Logins(outbox) /\ issued' = issued
            \/ Logins(outbox) = Logins(outbox)' + 1 /\ issued' \in {issued, issued + 1}
<1> DEFINE L == Logins(outbox)
           H == One(Handling)
           J == Logins(inbox)
           R == One(Answering)
<1>0. /\ L \in Nat /\ J \in Nat /\ H \in {0, 1} /\ R \in {0, 1}
      /\ L' \in Nat /\ J' \in Nat /\ H' \in {0, 1} /\ R' \in {0, 1}
      /\ Upstream \in Nat /\ Downstream \in Nat /\ Upstream' \in Nat /\ Downstream' \in Nat
  BY Numbers, NumbersLater
<1>1. H' = H /\ UNCHANGED m_socket
  BY ServerLeavesClient DEF handlerVars, Handling, One
<1>2. J' = J => Downstream' = Downstream
  BY <1>1 DEF Downstream
<1>3. J' = J + 1 => Downstream' = Downstream + 1
  <2>1. Downstream = J + H /\ Downstream' = J' + H
    BY <1>1 DEF Downstream
  <2> HIDE DEF J, H
  <2>2. \A j \in Nat, h \in {0, 1} : (j + 1) + h = (j + h) + 1
    OBVIOUS
  <2> QED
    BY <1>0, <2>1, <2>2
<1>4. CASE ServerHello \/ ServerLogin \/ ServerLogout \/ ServerMessage
  <2>1. L = L' + One(Head(outbox).cmd = "login")
    BY <1>4, ServerReads, LoginsTail DEF AppInv, ClientInv, ClientTypeOK
  <2>2. R = 0 /\ R' = One(Head(outbox).cmd = "login")
    BY <1>4, ServerReads DEF One, Answering
  <2>3. J' = J /\ (Live' <=> Live)
    BY <1>1, <1>4, ServerReads DEF Live
  <2>4. CASE ServerLogin
    <3>1. issued' \in {issued, issued + 1}
      BY <2>4 DEF ServerLogin
    <3>2. One(Head(outbox).cmd = "login") = 1
      BY <2>4 DEF ServerLogin, One
    <3>3. L = L' + 1 /\ R' = R + 1
      BY <2>1, <2>2, <3>2
    <3>4. InFlight' = InFlight
      BY <1>2, <2>3, <3>3, UpstreamChanges, FlightChanges
    <3> QED
      BY <2>3, <3>1, <3>3, <3>4
  <2>5. CASE ~ServerLogin
    <3>1. issued' = issued /\ One(Head(outbox).cmd = "login") = 0
      BY <1>4, <2>5, ServerReads DEF One
    <3>2. Logins(outbox) = Logins(outbox)' + 0 /\ R' = R
      BY <2>1, <2>2, <3>1
    <3>3. L' = L
      <4>1. \A x, y \in Nat : x = y + 0 => y = x
        OBVIOUS
      <4> HIDE DEF Logins
      <4> QED
        BY <1>0, <3>2, <4>1
    <3>4. InFlight' = InFlight
      BY <1>2, <2>3, <3>2, <3>3, UpstreamChanges, FlightChanges
    <3> HIDE DEF L, R
    <3>5. L' <= L
      BY <1>0, <3>3
    <3> QED
      BY <2>3, <3>1, <3>5, <3>4 DEF L
  <2> QED
    BY <2>4, <2>5
<1>5. CASE ServerReply
  <2>1. /\ answer # None /\ answer' = None /\ inbox' = Append(inbox, answer)
        /\ UNCHANGED <<peer, outbox, issued>>
    BY <1>5 DEF ServerReply, ServerSend
  <2>2. answer \in Packet
    BY <2>1 DEF AppInv, DataOK
  <2>3. J' = J + One(answer.cmd = "login")
    BY <2>1, <2>2, LoginsAppend DEF AppInv, ClientInv, ClientTypeOK
  <2>4. R = One(answer.cmd = "login") /\ R' = 0
    BY <2>1 DEF One, Answering
  <2>5. L' = L /\ (Live' <=> Live)
    BY <1>1, <2>1 DEF Live
  <2>6. CASE answer.cmd = "login"
    <3>1. J' = J + 1 /\ R = R' + 1
      BY <2>3, <2>4, <2>6 DEF One
    <3>2. InFlight' = InFlight
      BY <1>3, <2>5, <3>1, UpstreamChanges, FlightChanges
    <3> HIDE DEF L
    <3>3. L' <= L
      BY <1>0, <2>5
    <3> QED
      BY <2>1, <2>5, <3>2, <3>3 DEF L
  <2>7. CASE answer.cmd # "login"
    <3>1. J' = J /\ R = R'
      BY <1>0, <2>3, <2>4, <2>7 DEF One
    <3>2. InFlight' = InFlight
      BY <1>2, <2>5, <3>1, UpstreamChanges, FlightChanges
    <3> HIDE DEF L
    <3>3. L' <= L
      BY <1>0, <2>5
    <3> QED
      BY <2>1, <2>5, <3>2, <3>3 DEF L
  <2> QED
    BY <2>6, <2>7
<1>6. CASE ServerRelay
  <2> DEFINE p == [cmd |-> "message"]
  <2>1. inbox' = Append(inbox, p) /\ UNCHANGED <<peer, outbox, issued, answer>>
    BY <1>6 DEF ServerRelay, ServerSend, appVars, serverVars
  <2>2. Logins(Append(inbox, p)) = J + One(p.cmd = "login")
    <3>1. p \in Packet
      BY Answers
    <3> HIDE DEF p
    <3> QED
      BY <3>1, LoginsAppend DEF AppInv, ClientInv, ClientTypeOK
  <2>3. p.cmd # "login"
    OBVIOUS
  <2>4. J' = J
    BY <1>0, <2>1, <2>2, <2>3 DEF One
  <2>5. L' = L /\ R' = R /\ (Live' <=> Live)
    BY <1>1, <2>1 DEF Live, Answering, One
  <2>6. InFlight' = InFlight
    BY <1>2, <2>4, <2>5, UpstreamChanges, FlightChanges
  <2> HIDE DEF L
  <2>7. L' <= L
    BY <1>0, <2>5
  <2> QED
    BY <2>1, <2>5, <2>6, <2>7 DEF L
<1>7. CASE ServerLeaves
  <2>1. /\ outbox' = <<>> /\ answer' = None /\ (inbox' = inbox \/ inbox' = <<>>)
        /\ peer' # "open" /\ issued' = issued
    BY <1>7 DEF ServerLeaves, ServerClose, ServerReset
  <2>2. L' = 0 /\ R' = 0 /\ (J' = J \/ J' = 0) /\ ~Live'
    BY <2>1, LoginsEmpty DEF One, Answering, Live
  <2>3. Upstream' <= Upstream
    BY <2>2, UpstreamChanges
  <2>4. Downstream' <= Downstream
    <3>1. Downstream = J + H /\ Downstream' = J' + H
      BY <1>1 DEF Downstream
    <3> HIDE DEF J, H
    <3>2. \A j \in Nat, h \in {0, 1} : j + h <= j + h /\ 0 + h <= j + h
      OBVIOUS
    <3> QED
      BY <1>0, <2>2, <3>1, <3>2
  <2>5. InFlight' <= InFlight
    BY <2>3, <2>4, FlightChanges
  <2> HIDE DEF L
  <2>6. L' <= L
    BY <1>0, <2>2
  <2> QED
    BY <2>1, <2>2, <2>5, <2>6 DEF L
<1>8. CASE ServerGoesOn
  <2>1. UNCHANGED <<inbox, outbox, answer, peer, issued>>
    BY <1>8 DEF ServerGoesOn, vars, netVars
  <2>2. J' = J /\ L' = L /\ R' = R /\ (Live' <=> Live)
    BY <1>1, <2>1 DEF Answering, One, Live
  <2>3. InFlight' = InFlight
    BY <1>2, <2>2, UpstreamChanges, FlightChanges
  <2> HIDE DEF L
  <2>4. L' <= L
    BY <1>0, <2>2
  <2> QED
    BY <2>1, <2>2, <2>3, <2>4 DEF L
<1> QED
  BY <1>4, <1>5, <1>6, <1>7, <1>8 DEF ChatServer, ServerAnswer

\* What the server does to the count.
LEMMA CountedServer ==
  ASSUME AppInv, AppInv', Counted, ChatServer
  PROVE  Counted'
<1> DEFINE L == Logins(outbox)
           A == One(Asking)
           I == InFlight
<1>0. /\ L \in Nat /\ A \in {0, 1} /\ I \in Nat
      /\ L' \in Nat /\ A' \in {0, 1} /\ I' \in Nat
  BY Numbers, NumbersLater
<1>1. /\ asked \in Nat /\ issued \in Nat /\ logins \in Nat /\ logins <= MaxLogin
      /\ MaxLogin \in Nat
      /\ I <= asked /\ (Live => I = asked)
      /\ asked + A <= logins /\ issued + L + A <= logins
  BY AppAssumption DEF Counted
<1>2. UNCHANGED <<logins, asked>> /\ A' = A
  BY ServerLeavesClient DEF ownerVars, uiVars, histVars, Asking, One
<1>3. /\ \/ I' = I /\ (Live' => Live)
         \/ I' <= I /\ ~Live'
      /\ \/ L' <= L /\ issued' = issued
         \/ L = L' + 1 /\ issued' \in {issued, issued + 1}
  BY ServerMoves
<1> HIDE DEF L, A, I
<1>4. issued' \in Nat /\ issued' + L' + A' <= logins'
  <2>1. \A i, l, l1, a, n, i1 \in Nat :
          /\ i + l + a <= n
          /\ (l1 <= l /\ i1 = i) \/ (l = l1 + 1 /\ i1 \in {i, i + 1})
          => i1 + l1 + a <= n
    OBVIOUS
  <2>2. issued' \in Nat /\ A \in Nat
    <3>1. issued' \in {issued, issued + 1}
      BY <1>3
    <3> QED
      BY <1>0, <1>1, <3>1
  <2> QED
    BY <1>0, <1>1, <1>2, <1>3, <2>1, <2>2
<1>5. /\ I' <= asked' /\ (Live' => I' = asked') /\ asked' + A' <= logins'
  BY <1>0, <1>1, <1>2, <1>3
<1> QED
  BY <1>1, <1>2, <1>4, <1>5 DEF Counted, L, A, I

\* The count holds in every state.
LEMMA CountedStep ==
  ASSUME AppInv, AppInv', LinkInv, Counted, [AppNext]_app_vars
  PROVE  Counted'
<1>1. CASE UNCHANGED app_vars
  BY <1>1 DEF app_vars, vars, ownerVars, handlerVars, netVars, appVars, uiVars, serverVars,
    histVars, Counted, Asking, Answering, Handling, InFlight, Upstream, Downstream, Live
<1> QED
  BY <1>1, CountedUi, CountedHandler, CountedServer DEF AppNext

LEMMA CountedInit == AppInit => Counted
<1> SUFFICES ASSUME AppInit PROVE Counted
  OBVIOUS
<1>1. /\ asked = 0 /\ issued = 0 /\ logins = 0 /\ outbox = <<>> /\ inbox = <<>>
      /\ answer = None /\ pc = "none" /\ owner = "idle"
  BY DEF AppInit, ClientInit
<1>2. /\ Logins(outbox) = 0 /\ Logins(inbox) = 0 /\ One(Answering) = 0
      /\ One(Handling) = 0 /\ One(Asking) = 0
  BY <1>1, LoginsEmpty DEF One, Answering, Handling, Asking
<1>3. InFlight = 0
  BY <1>2 DEF InFlight, Upstream, Downstream
<1> QED
  BY <1>1, <1>2, <1>3, AppAssumption DEF Counted

-----------------------------------------------------------------------------
(* The login button.                                                        *)

\* The calls the application makes, those among them that do not disable the
\* login button, and those that do not bring it back either.
Calls == {op \in Ops : op.do = "text" \/ op.on \in Widget} \ {Hide("send")}
Steady == Calls \ {Disable("login")}
NoShow == Steady \ {Show("login")}

\* Only a disconnect disables it, and only a logout and that bring it back.
LEMMA CallKinds ==
  /\ \A st \in {"success", "pending", "failed"} : on_connect(st) \in Seq(NoShow)
  /\ \A st \in {"success", "failed"} : on_login(st) \in Seq(NoShow)
  /\ \A st \in {"pending", "failed"} : on_logout(st) \in Seq(NoShow)
  /\ \A st \in {"success", "pending", "failed"} : on_send(st) \in Seq(NoShow)
  /\ on_recv \in Seq(NoShow) /\ <<Text>> \in Seq(NoShow) /\ <<>> \in Seq(NoShow)
  /\ on_logout("success") \in Seq(Steady)
  /\ on_disconnect \in Seq(Calls)
<1>0. /\ Text \in NoShow
      /\ \A w \in Widget : /\ Enable(w) \in NoShow /\ IfEnabled(w) \in NoShow
                           /\ IfDisabled(w) \in NoShow
      /\ \A w \in Widget \ {"login"} : Show(w) \in NoShow /\ Disable(w) \in NoShow
      /\ \A w \in Widget \ {"send"} : Hide(w) \in NoShow
      /\ Show("login") \in Steady /\ Disable("login") \in Calls
  BY DEF NoShow, Steady, Calls, Ops, Widget, Show, Hide, Enable, Disable, IfEnabled,
    IfDisabled, Text
<1>w. /\ {"connect", "disconnect", "address", "logout", "send", "login_field",
          "input_field"} \subseteq Widget \ {"login"}
      /\ {"connect", "disconnect", "login", "logout"} \subseteq Widget \ {"send"}
      /\ "login" \in Widget
  BY DEF Widget
<1>n. NoShow \subseteq Steady /\ Steady \subseteq Calls
  BY DEF NoShow, Steady
<1> HIDE DEF NoShow, Steady, Calls
<1>1. <<Text>> \in Seq(NoShow) /\ <<Text, Text>> \in Seq(NoShow) /\ <<>> \in Seq(NoShow)
  BY <1>0
<1>2. on_connect("success") \in Seq(NoShow)
  <2> DEFINE s == <<Show("disconnect"), Disable("address"),
           IfDisabled("login"), Enable("login"), Enable("login_field"),
           IfDisabled("logout"), Enable("logout"), Enable("login_field"),
           Hide("connect"), Text>>
  <2>1. on_connect("success") = s
    BY Zenon DEF on_connect
  <2>2. /\ Show("disconnect") \in NoShow /\ Disable("address") \in NoShow
        /\ IfDisabled("login") \in NoShow /\ Enable("login") \in NoShow
        /\ Enable("login_field") \in NoShow /\ IfDisabled("logout") \in NoShow
        /\ Enable("logout") \in NoShow /\ Hide("connect") \in NoShow /\ Text \in NoShow
    BY <1>0, <1>w
  <2>3. <<Show("disconnect"), Disable("address"),
           IfDisabled("login"), Enable("login"), Enable("login_field"),
           IfDisabled("logout"), Enable("logout"), Enable("login_field"),
           Hide("connect"), Text>> \in Seq(NoShow)
    BY <2>2
  <2> QED
    BY <2>1, <2>3, Zenon
<1>3. on_connect("pending") \in Seq(NoShow)
  <2>1. on_connect("pending") = <<Disable("address"), Disable("connect"), Text>>
    BY Zenon DEF on_connect
  <2>2. <<Disable("address"), Disable("connect"), Text>> \in Seq(NoShow)
    BY <1>0, <1>w
  <2> QED
    BY <2>1, <2>2, Zenon
<1>4. on_connect("failed") \in Seq(NoShow)
  <2>1. on_connect("failed") = <<Text>>
    BY Zenon DEF on_connect
  <2> QED
    BY <1>1, <2>1, Zenon
<1>5. on_login("success") \in Seq(NoShow)
  <2>1. on_login("success") =
          <<Show("logout"), Enable("logout"), Disable("login_field"), Hide("login"),
            Enable("send"), Enable("input_field"), Text>>
    BY Zenon DEF on_login
  <2>2. <<Show("logout"), Enable("logout"), Disable("login_field"), Hide("login"),
          Enable("send"), Enable("input_field"), Text>> \in Seq(NoShow)
    BY <1>0, <1>w
  <2> QED
    BY <2>1, <2>2, Zenon
<1>6. on_login("failed") \in Seq(NoShow)
  <2>1. on_login("failed") = <<Text>>
    BY DEF on_login
  <2> QED
    BY <1>1, <2>1, Zenon
<1>7. on_logout("pending") \in Seq(NoShow)
  <2>1. on_logout("pending") = <<Disable("logout"), Text>>
    BY Zenon DEF on_logout
  <2>2. <<Disable("logout"), Text>> \in Seq(NoShow)
    BY <1>0, <1>w
  <2> QED
    BY <2>1, <2>2, Zenon
<1>8. on_logout("failed") \in Seq(NoShow)
  <2>1. on_logout("failed") = <<Text>>
    BY Zenon DEF on_logout
  <2> QED
    BY <1>1, <2>1, Zenon
<1>9. \A st \in {"success", "pending", "failed"} : on_send(st) \in Seq(NoShow)
  BY <1>1, Zenon DEF on_send
<1>10. on_logout("success") \in Seq(Steady)
  <2>1. on_logout("success") =
          <<Show("login"), Enable("login_field"), Hide("logout"),
            Disable("send"), Disable("input_field"), Text>>
    BY Zenon DEF on_logout
  <2>2. /\ Show("login") \in Steady /\ Enable("login_field") \in Steady
        /\ Hide("logout") \in Steady /\ Disable("send") \in Steady
        /\ Disable("input_field") \in Steady /\ Text \in Steady
    BY <1>0, <1>w, <1>n
  <2>3. <<Show("login"), Enable("login_field"), Hide("logout"),
          Disable("send"), Disable("input_field"), Text>> \in Seq(Steady)
    BY <2>2
  <2> QED
    BY <2>1, <2>3, Zenon
<1>11. on_disconnect \in Seq(Calls)
  <2>1. on_disconnect =
          <<Show("connect"), Enable("connect"), Enable("address"), Hide("disconnect"),
            IfEnabled("send"), Disable("send"), Disable("input_field"),
            IfEnabled("login"), Disable("login"), Disable("login_field"),
            Hide("logout"), Show("login"), Disable("login_field"), Text>>
    BY Zenon DEF on_disconnect
  <2>2. /\ Show("connect") \in Calls /\ Enable("connect") \in Calls
        /\ Enable("address") \in Calls /\ Hide("disconnect") \in Calls
        /\ IfEnabled("send") \in Calls /\ Disable("send") \in Calls
        /\ Disable("input_field") \in Calls /\ IfEnabled("login") \in Calls
        /\ Disable("login") \in Calls /\ Disable("login_field") \in Calls
        /\ Hide("logout") \in Calls /\ Show("login") \in Calls /\ Text \in Calls
    BY <1>0, <1>w, <1>n
  <2>3. <<Show("connect"), Enable("connect"), Enable("address"), Hide("disconnect"),
          IfEnabled("send"), Disable("send"), Disable("input_field"),
          IfEnabled("login"), Disable("login"), Disable("login_field"),
          Hide("logout"), Show("login"), Disable("login_field"), Text>> \in Seq(Calls)
    BY <2>2
  <2> QED
    BY <2>1, <2>3, Zenon
<1> QED
  BY <1>1, <1>2, <1>3, <1>4, <1>5, <1>6, <1>7, <1>8, <1>9, <1>10, <1>11 DEF on_recv

\* The server will have read a logout after the last login, or has no session
\* and no login to read.
Free == LoggedOut(outbox, entry, Len(outbox))

\* The calls a login has still to make before the login button is hidden.
Hiding == ui = "output" /\ \E k \in 1 .. 4 : ui_ops = From(on_login("success"), k)

\* A closed window is in the loop, and only ~client() is called.
ClosedLoop ==
  closed => /\ ui = "loop" /\ owner # "send"
            /\ owner \in {"close", "status", "join"} => destroying

\* No handler brings the login button back.
HandlerCalls == h_ops \in Seq(NoShow)

\* A login is sent only when the server will have no session by then.
Alternates ==
  \A i \in DOMAIN outbox : outbox[i].cmd = "login" => LoggedOut(outbox, entry, i - 1)

\* For the login button is there only then.
LoginButton ==
  ~closed /\ Live =>
    /\ ui = "login" => Free
    /\ Free \/ ("login" \notin shown /\ ui_ops \in Seq(NoShow)) \/ Hiding

ButtonInv == ClosedLoop /\ HandlerCalls /\ Alternates /\ LoginButton

LEMMA ButtonInit == AppInit => ButtonInv
<1> SUFFICES ASSUME AppInit PROVE ButtonInv
  OBVIOUS
<1>1. /\ ~closed /\ h_ops = <<>> /\ outbox = <<>> /\ peer = "none"
  BY DEF AppInit, ClientInit
<1>2. DOMAIN outbox = {}
  BY <1>1
<1> QED
  BY <1>1, <1>2, CallKinds DEF ButtonInv, ClosedLoop, HandlerCalls, Alternates, LoginButton, Live

\* The handlers' calls.
LEMMA HandlerCallsStep ==
  ASSUME AppInv, HandlerCalls, [AppNext]_app_vars
  PROVE  HandlerCalls'
<1> USE DEF HandlerCalls
<1>1. CASE UiStep \/ User
  BY <1>1, UserSteps DEF workVars
<1>2. CASE Receive /\ UNCHANGED appVars
  BY <1>2 DEF appVars, workVars
<1>3. CASE Handle
  <2>1. \/ h_ops' = on_connect("success")
        \/ h_ops' = on_login("success") \/ h_ops' = on_login("failed")
        \/ h_ops' = on_logout("pending") \/ h_ops' = on_logout("failed")
        \/ h_ops' = on_recv
        \/ h_ops' = on_send("success") \/ h_ops' = on_send("failed")
    BY <1>3, Zenon DEF Handle
  <2> QED
    BY <2>1, CallKinds
<1>4. CASE SetSession \/ Return
  BY <1>4 DEF SetSession, Return
<1>5. CASE Output
  BY <1>5, RestOf DEF Output
<1>6. CASE ChatServer
  BY <1>6, ServerLeavesClient DEF workVars
<1>7. CASE UNCHANGED app_vars
  BY <1>7 DEF app_vars, appVars, workVars
<1> QED
  BY <1>1, <1>2, <1>3, <1>4, <1>5, <1>6, <1>7 DEF AppNext, HandlerStep

\* A closed window's thread.
LEMMA ClosedLoopStep ==
  ASSUME AppInv, WindowInv, LinkInv, ClosedLoop, [AppNext]_app_vars
  PROVE  ClosedLoop'
<1>1. CASE HandlerStep
  BY <1>1, HandlerLeaves DEF ClosedLoop, ownerVars, uiVars
<1>2. CASE ChatServer
  BY <1>2, ServerLeavesClient DEF ClosedLoop, ownerVars, uiVars, windowVars
<1>3. CASE UNCHANGED app_vars
  BY <1>3 DEF app_vars, vars, appVars, ownerVars, uiVars, windowVars, ClosedLoop
<1>4. CASE (UiStep \/ User) /\ ~closed
  <2>1. CASE CloseWindow
    <3>1. ui = "loop" /\ owner = "idle" /\ ui' = ui /\ owner' = owner
      BY <1>4, <2>1 DEF CloseWindow, InLoop, WindowInv, OpenInv, Turns, vars, ownerVars, uiVars
    <3> QED
      BY <3>1 DEF ClosedLoop
  <2>2. CASE ~CloseWindow
    <3>1. closed' = closed
      BY <1>4, <2>2 DEF UiStep, User, Hello, Sent, SentNot, DisconnectStep, UiOutput, UiReturn,
        DestroyClient, ClickConnectFails, ClickConnect, ClickConnectAgain, ClickLogin,
        ClickLogout, ClickSend, ClickDisconnect, windowVars
    <3> QED
      BY <1>4, <3>1 DEF ClosedLoop
  <2> QED
    BY <2>1, <2>2
<1>5. CASE (UiStep \/ User) /\ closed
  <2>0. /\ ui = "loop" /\ owner # "send"
        /\ owner \in {"close", "status", "join"} => destroying
    BY <1>5 DEF ClosedLoop
  <2>1. ~User
    BY <1>5 DEF User, ClickConnectFails, ClickConnect, ClickConnectAgain, ClickLogin,
      ClickLogout, ClickSend, ClickDisconnect, CloseWindow, Click, InLoop
  <2>2. CASE DestroyClient
    BY <2>0, <2>2 DEF DestroyClient, Shutdown, Destroy, appVars, uiVars, windowVars, ClosedLoop
  <2>3. CASE DisconnectStep
    BY <2>0, <2>3 DEF DisconnectStep, CloseSocket, Disconnected, Join, windowVars, ClosedLoop
  <2>4. ~Hello /\ ~Sent /\ ~SentNot /\ ~UiOutput /\ ~UiReturn
    BY <2>0 DEF Hello, Sent, SentNot, UiOutput, UiReturn, SendOk, SendFails
  <2> QED
    BY <1>5, <2>1, <2>2, <2>3, <2>4 DEF UiStep
<1> QED
  BY <1>1, <1>2, <1>3, <1>4, <1>5 DEF AppNext

\* The first of the packets is read by the server: of the logins that are left
\* each still comes when the server has no session, and it will have none at
\* the end if it was to have none.
LEMMA ReadAlternates ==
  ASSUME AppInv, Alternates, ServerHello \/ ServerLogin \/ ServerLogout \/ ServerMessage
  PROVE  Alternates' /\ (Free => Free')
<1> DEFINE s == outbox
           n == Len(outbox)
<1>1. /\ s # <<>> /\ s' = Tail(s)
      /\ Head(s).cmd = "logout" => entry' = Empty
      /\ Head(s).cmd \notin {"login", "logout"} => entry' = entry
  BY ServerReads
<1>2. s \in Seq(Request)
  BY DEF AppInv, ClientInv, ClientTypeOK
<1>3. /\ n \in Nat \ {0} /\ DOMAIN s = 1 .. n /\ Len(s') = n - 1 /\ DOMAIN s' = 1 .. n - 1
      /\ \A i \in 1 .. n - 1 : s'[i] = s[i + 1]
  BY <1>1, <1>2, TailOf
<1>4. \A m \in 1 .. n : LoggedOut(s, entry, m) => LoggedOut(s', entry', m - 1)
  BY <1>1, <1>2, LoggedOutTail
<1>5. Free => Free'
  BY <1>3, <1>4 DEF Free
<1>6. ASSUME NEW i \in DOMAIN s', s'[i].cmd = "login"
      PROVE  LoggedOut(s', entry', i - 1)
  <2>1. i + 1 \in 1 .. n /\ i \in 1 .. n /\ (i + 1) - 1 = i
    BY <1>3
  <2>2. s[i + 1].cmd = "login"
    BY <1>3, <1>6
  <2>3. LoggedOut(s, entry, (i + 1) - 1)
    BY <1>3, <2>1, <2>2 DEF Alternates
  <2> QED
    BY <1>4, <2>1, <2>3
<1> QED
  BY <1>5, <1>6 DEF Alternates

\* A packet is sent: what that makes of Free.
LEMMA SendFree ==
  ASSUME AppInv, LinkInv, Sent, peer = "open"
  PROVE  /\ outbox' = Append(outbox, sending) /\ entry' = entry /\ sending \in Request
         /\ ui = sending.cmd
         /\ \A n \in 0 .. Len(outbox) : LoggedOut(outbox', entry', n) <=> LoggedOut(outbox, entry, n)
         /\ ui = "logout" => Free'
         /\ ui = "login" => ~Free'
         /\ ui \notin {"login", "logout"} => (Free' <=> Free)
<1>1. owner = "send" /\ outbox' = Append(outbox, sending) /\ entry' = entry
  BY DEF Sent, SendOk, serverVars
<1>2. sending \in Request /\ ui = sending.cmd
  BY <1>1, SendsRequests DEF LinkInv
<1>3. outbox \in Seq(Request)
  BY DEF AppInv, ClientInv, ClientTypeOK
<1>4. /\ \A n \in 0 .. Len(outbox) : LoggedOut(outbox', entry, n) <=> LoggedOut(outbox, entry, n)
      /\ sending.cmd = "logout" => LoggedOut(outbox', entry, Len(outbox'))
      /\ sending.cmd = "login" => ~LoggedOut(outbox', entry, Len(outbox'))
      /\ sending.cmd \notin {"login", "logout"} =>
           (LoggedOut(outbox', entry, Len(outbox')) <=> LoggedOut(outbox, entry, Len(outbox)))
  BY <1>1, <1>2, <1>3, LoggedOutAppend
<1> QED
  BY <1>1, <1>2, <1>4 DEF Free

\* Each login is sent after a logout, whatever the steps between.
LEMMA AlternatesStep ==
  ASSUME AppInv, LinkInv, ButtonInv, [AppNext]_app_vars
  PROVE  Alternates'
<1>0. Alternates
  BY DEF ButtonInv
<1>1. CASE UNCHANGED <<outbox, entry>>
  BY <1>0, <1>1 DEF Alternates
<1>2. CASE outbox' = <<>>
  <2>1. DOMAIN outbox' = {}
    BY <1>2
  <2> QED
    BY <2>1 DEF Alternates
<1>3. CASE Sent /\ peer = "open"
  <2>1. /\ outbox' = Append(outbox, sending) /\ sending \in Request /\ ui = sending.cmd
        /\ \A n \in 0 .. Len(outbox) :
             LoggedOut(outbox', entry', n) <=> LoggedOut(outbox, entry, n)
    BY <1>3, SendFree
  <2>2. outbox \in Seq(Request)
    BY DEF AppInv, ClientInv, ClientTypeOK
  <2>3. /\ Len(outbox) \in Nat /\ DOMAIN outbox = 1 .. Len(outbox)
        /\ DOMAIN outbox' = 1 .. Len(outbox) + 1
        /\ \A i \in 1 .. Len(outbox) : outbox'[i] = outbox[i]
        /\ outbox'[Len(outbox) + 1] = sending
    BY <2>1, <2>2, AppendOf
  <2>4. ASSUME NEW i \in DOMAIN outbox', outbox'[i].cmd = "login"
        PROVE  LoggedOut(outbox', entry', i - 1)
    <3>1. CASE i \in 1 .. Len(outbox)
      <4>1. LoggedOut(outbox, entry, i - 1)
        BY <1>0, <2>3, <2>4, <3>1 DEF Alternates
      <4>2. i - 1 \in 0 .. Len(outbox)
        BY <2>3, <3>1
      <4> QED
        BY <2>1, <4>1, <4>2
    <3>2. CASE i = Len(outbox) + 1
      <4>1. ui = "login"
        BY <2>1, <2>3, <2>4, <3>2
      <4>2. Live /\ ~closed
        BY <1>3, <4>1 DEF Sent, SendOk, Live, ButtonInv, ClosedLoop
      <4>3. LoggedOut(outbox, entry, Len(outbox))
        BY <4>1, <4>2 DEF ButtonInv, LoginButton, Free
      <4>4. i - 1 = Len(outbox) /\ Len(outbox) \in 0 .. Len(outbox)
        BY <2>3, <3>2
      <4> QED
        BY <2>1, <4>3, <4>4
    <3> QED
      BY <2>3, <2>4, <3>1, <3>2
  <2> QED
    BY <2>4 DEF Alternates
<1>4. CASE UiStep \/ User
  <2>1. CASE Sent /\ peer # "open"
    BY <1>1, <2>1 DEF Sent, SendOk, serverVars
  <2>2. CASE \E found \in Resolve : ClickConnect(found)
    BY <1>2, <2>2 DEF ClickConnect, Connected
  <2> QED
    BY <1>1, <1>3, <1>4, <2>1, <2>2, UiNet DEF LeavesNet
<1>5. CASE HandlerStep
  BY <1>1, <1>5, HandlerLeaves DEF serverVars
<1>6. CASE ChatServer
  <2>1. CASE ServerHello \/ ServerLogin \/ ServerLogout \/ ServerMessage
    BY <1>0, <2>1, ReadAlternates
  <2>2. CASE ServerReply \/ ServerRelay
    BY <1>1, <2>2 DEF ServerReply, ServerRelay, ServerSend, appVars, serverVars
  <2>3. CASE ServerLeaves
    BY <1>2, <2>3 DEF ServerLeaves, ServerClose, ServerReset
  <2>4. CASE ServerGoesOn
    BY <1>1, <2>4 DEF ServerGoesOn, vars, netVars
  <2> QED
    BY <1>6, <2>1, <2>2, <2>3, <2>4 DEF ChatServer, ServerAnswer
<1>7. CASE UNCHANGED app_vars
  BY <1>1, <1>7 DEF app_vars, vars, netVars, appVars, serverVars
<1> QED
  BY <1>4, <1>5, <1>6, <1>7 DEF AppNext

\* A call other than Show("login") keeps the login button hidden.
LEMMA StaysHidden ==
  ASSUME NEW op \in NoShow, Call(op), "login" \notin shown
  PROVE  "login" \notin shown'
<1>1. op.do # "show" \/ op.on # "login"
  BY DEF NoShow, Steady, Calls, Ops, Show
<1> QED
  BY <1>1, CallDoes

\* The calls of a login, one by one.
LEMMA LoginCalls ==
  LET s == on_login("success") IN
  /\ s \in Seq(NoShow) /\ Len(s) = 7
  /\ s[1] = Show("logout") /\ s[2] = Enable("logout") /\ s[3] = Disable("login_field")
  /\ s[4] = Hide("login") /\ s[5] = Enable("send") /\ s[6] = Enable("input_field")
  /\ s[7] = Text
<1> DEFINE s == <<Show("logout"), Enable("logout"), Disable("login_field"), Hide("login"),
                  Enable("send"), Enable("input_field"), Text>>
<1>1. on_login("success") = s
  BY Zenon DEF on_login
<1>2. on_login("success") \in Seq(NoShow)
  BY CallKinds
<1>3. /\ Len(s) = 7
      /\ s[1] = Show("logout") /\ s[2] = Enable("logout") /\ s[3] = Disable("login_field")
      /\ s[4] = Hide("login") /\ s[5] = Enable("send") /\ s[6] = Enable("input_field")
      /\ s[7] = Text
  OBVIOUS
<1> HIDE DEF s
<1> QED
  BY <1>1, <1>2, <1>3

\* The window's thread makes one of them before the button is hidden.
LEMMA HidesMore ==
  ASSUME Hiding, UiOutput
  PROVE  Hiding' \/ ("login" \notin shown' /\ ui_ops' \in Seq(NoShow))
<1> DEFINE s == on_login("success")
<1>1. /\ s \in Seq(NoShow) /\ Len(s) = 7 /\ s[1] = Show("logout") /\ s[2] = Enable("logout")
      /\ s[3] = Disable("login_field") /\ s[4] = Hide("login")
  BY LoginCalls
<1>2. PICK k \in 1 .. 4 : ui_ops = From(s, k)
  BY DEF Hiding
<1>3. /\ ui = "output" /\ ui' = ui /\ ui_ops # <<>> /\ Call(Head(ui_ops))
      /\ ui_ops' = Rest(ui_ops)
  BY DEF UiOutput
<1> HIDE DEF s
<1>4. k \in 1 .. Len(s)
  BY <1>1
<1>5. /\ Head(ui_ops) = s[k]
      /\ s[k] \in {Show("logout"), Enable("logout"), Disable("login_field"), Hide("login")}
  <2>1. Head(ui_ops) = s[k]
    BY <1>1, <1>2, <1>4, FromNext
  <2>2. k = 1 \/ k = 2 \/ k = 3 \/ k = 4
    OBVIOUS
  <2> QED
    BY <1>1, <2>1, <2>2
<1>6. ~Skips(s[k])
  BY <1>5 DEF Skips, Show, Enable, Disable, Hide
<1>7. ui_ops' = From(s, k + 1)
  BY <1>1, <1>2, <1>3, <1>4, <1>6, RestFrom
<1>8. CASE k # 4
  <2>1. k + 1 \in 1 .. 4
    BY <1>8
  <2>2. \E j \in 1 .. 4 : ui_ops' = From(on_login("success"), j)
    BY <1>7, <2>1 DEF s
  <2> QED
    BY <1>3, <2>2 DEF Hiding
<1>9. CASE k = 4
  <2>1. "login" \notin shown'
    <3>1. Head(ui_ops) = Hide("login")
      BY <1>1, <1>5, <1>9
    <3>2. Hide("login").do = "hide" /\ Hide("login").on = "login"
      BY DEF Hide
    <3> QED
      BY <1>3, <3>1, <3>2, CallDoes
  <2>2. ui_ops' \in Seq(NoShow)
    <3>1. ui_ops \in Seq(NoShow)
      BY <1>1, <1>2, <1>4, SubSeqProperties DEF From
    <3> QED
      BY <1>3, <3>1, RestOf
  <2> QED
    BY <2>1, <2>2
<1> QED
  BY <1>8, <1>9

\* What the window's thread does to the login button when it does not send or
\* connect.
LEMMA UiButtons ==
  ASSUME AppInv, WindowInv, LinkInv, ~closed, ~closed', UiStep \/ User, ~Sent,
         \A found \in Resolve : ~ClickConnect(found)
  PROVE  \/ "login" \in shown /\ ui = "loop" /\ shown' = shown /\ ui_ops' = ui_ops
         \/ UiOutput
         \/ m_socket' # "open"
         \/ /\ ui' # "login" /\ shown' = shown
            /\ ui = "output" => ui_ops = <<>>
            /\ ui_ops' = ui_ops \/ ui_ops' \in Seq(NoShow)
<1>1. ASSUME NEW valid \in BOOLEAN, ClickLogin(valid)
      PROVE  "login" \in shown /\ ui = "loop" /\ shown' = shown /\ ui_ops' = ui_ops
  BY <1>1 DEF ClickLogin, Click, InLoop, Usable, windowVars
<1>2. CASE Hello \/ ClickConnectAgain \/ ClickLogout \/ ClickSend
  BY <1>2 DEF Hello, ClickConnectAgain, ClickLogout, ClickSend, Click, InLoop, windowVars
<1>3. CASE UiReturn
  BY <1>3 DEF UiReturn, windowVars
<1>4. CASE SentNot
  <2>1. owner = "send" /\ ui' = "output" /\ shown' = shown
        /\ ui_ops' = IF ui = "message" THEN on_send("failed") ELSE <<Text>>
    BY <1>4 DEF SentNot, SendFails, windowVars
  <2>2. ui # "output"
    BY <2>1 DEF WindowInv, OpenInv, Turns
  <2> QED
    BY <2>1, <2>2, CallKinds
<1>5. ASSUME NEW e \in ConnectError, ClickConnectFails(e)
      PROVE  /\ ui' # "login" /\ shown' = shown /\ ui # "output" /\ ui_ops' \in Seq(NoShow)
  BY <1>5, CallKinds DEF ClickConnectFails, Click, InLoop, windowVars
<1>6. CASE DisconnectStep
  <2>1. owner \in {"close", "status", "join"}
    BY <1>6 DEF DisconnectStep, CloseSocket, Disconnected, Join
  <2>2. m_socket' # "open"
    BY <1>6, <2>1 DEF DisconnectStep, CloseSocket, Disconnected, Join, LinkInv, OpenSocket
  <2> QED
    BY <2>2
<1>7. CASE ClickDisconnect
  BY <1>7 DEF ClickDisconnect, Shutdown
<1>8. ~DestroyClient /\ ~CloseWindow
  BY DEF DestroyClient, CloseWindow
<1> QED
  BY <1>1, <1>2, <1>3, <1>4, <1>5, <1>6, <1>7, <1>8 DEF UiStep, User

\* The login button is there only when a login can be sent.
LEMMA LoginButtonStep ==
  ASSUME AppInv, WindowInv, LinkInv, ButtonInv, [AppNext]_app_vars
  PROVE  LoginButton'
<1> SUFFICES ASSUME ~closed', Live'
             PROVE  /\ ui' = "login" => Free'
                    /\ Free' \/ ("login" \notin shown' /\ ui_ops' \in Seq(NoShow)) \/ Hiding'
  BY DEF LoginButton
<1>0. ~closed
  BY ClosedStays
<1>1. ASSUME Live
      PROVE  /\ ui = "login" => Free
             /\ Free \/ ("login" \notin shown /\ ui_ops \in Seq(NoShow)) \/ Hiding
  BY <1>0, <1>1 DEF ButtonInv, LoginButton
<1>2. CASE \E found \in Resolve : ClickConnect(found)
  <2>1. outbox' = <<>> /\ entry' = Empty
    BY <1>2 DEF ClickConnect, Connected, NewConnection
  <2>2. Len(outbox') = 0 /\ 1 .. 0 = {}
    BY <2>1
  <2> QED
    BY <2>1, <2>2 DEF Free, LoggedOut
<1>3. CASE Sent
  <2>1. /\ Live /\ peer = "open" /\ owner = "send" /\ ui' = "output" /\ shown' = shown
    BY <1>3 DEF Sent, SendOk, Live, windowVars
  <2>2. ui \in {"hello", "login", "logout", "message"}
    BY <2>1, SendsRequests DEF LinkInv
  <2>3. /\ ui = "hello" => ui_ops' = on_connect("pending")
        /\ ui = "login" => ui_ops' = on_login("success")
        /\ ui = "message" => ui_ops' = on_send("pending")
    <3>1. /\ "hello" # "login" /\ "hello" # "logout" /\ "hello" # "message"
          /\ "login" # "logout" /\ "login" # "message" /\ "logout" # "message"
      OBVIOUS
    <3> QED
      BY <1>3, <3>1, Zenon DEF Sent
  <2>4. CASE ui = "logout"
    BY <1>3, <2>1, <2>4, SendFree
  <2>5. CASE ui = "login"
    <3>1. on_login("success") = From(on_login("success"), 1)
      BY LoginCalls, SubSeqFull DEF From
    <3>2. Hiding'
      BY <2>1, <2>3, <2>5, <3>1 DEF Hiding
    <3> QED
      BY <2>1, <3>2
  <2>6. CASE ui \in {"hello", "message"}
    <3>1. Free' <=> Free
      BY <1>3, <2>1, <2>6, SendFree
    <3>2. ~Hiding
      BY <2>6 DEF Hiding
    <3>3. ui_ops' \in Seq(NoShow)
      BY <2>3, <2>6, CallKinds
    <3> QED
      BY <1>1, <2>1, <3>1, <3>2, <3>3
  <2> QED
    BY <2>2, <2>4, <2>5, <2>6
<1>4. CASE (UiStep \/ User) /\ ~Sent /\ \A found \in Resolve : ~ClickConnect(found)
  <2>1. LeavesNet
    BY <1>4, UiNet
  <2>2. Live /\ m_socket' = "open" /\ (Free' <=> Free)
    BY <2>1 DEF LeavesNet, Live, Free
  <2>3. CASE "login" \in shown /\ ui = "loop" /\ shown' = shown /\ ui_ops' = ui_ops
    BY <1>1, <2>2, <2>3 DEF Hiding
  <2>4. CASE UiOutput
    <3>1. ui' = "output" /\ Call(Head(ui_ops)) /\ ui_ops # <<>> /\ ui_ops' = Rest(ui_ops)
      BY <2>4 DEF UiOutput
    <3>2. CASE Hiding
      BY <2>4, <3>1, <3>2, HidesMore
    <3>3. CASE "login" \notin shown /\ ui_ops \in Seq(NoShow)
      BY <3>1, <3>3, RestOf, StaysHidden
    <3> QED
      BY <1>1, <2>2, <3>1, <3>2, <3>3
  <2>5. CASE /\ ui' # "login" /\ shown' = shown
             /\ ui = "output" => ui_ops = <<>>
             /\ ui_ops' = ui_ops \/ ui_ops' \in Seq(NoShow)
    <3>1. ~Hiding
      <4>1. \A k \in 1 .. 4 : From(on_login("success"), k) # <<>>
        BY LoginCalls, FromNext
      <4> QED
        BY <2>5, <4>1 DEF Hiding
    <3> QED
      BY <1>1, <2>2, <2>5, <3>1
  <2> QED
    BY <1>0, <1>4, <2>2, <2>3, <2>4, <2>5, UiButtons
<1>5. CASE HandlerStep
  <2>1. UNCHANGED <<peer, m_socket, outbox, entry, ui, ui_ops>>
    BY <1>5, HandlerLeaves DEF uiVars, serverVars
  <2>2. Live /\ (Free' <=> Free) /\ (Hiding' <=> Hiding)
    BY <2>1 DEF Live, Free, Hiding
  <2>3. "login" \notin shown => "login" \notin shown'
    <3>1. CASE Output
      <4>1. Call(Head(h_ops)) /\ h_ops # <<>>
        BY <1>0, <3>1 DEF Output
      <4>2. Head(h_ops) \in NoShow
        BY <4>1, RestOf DEF ButtonInv, HandlerCalls
      <4> QED
        BY <4>1, <4>2, StaysHidden
    <3>2. CASE ~Output
      BY <1>5, <3>2 DEF HandlerStep, Handle, SetSession, Return, appVars, windowVars
    <3> QED
      BY <3>1, <3>2
  <2> QED
    BY <1>1, <2>1, <2>2, <2>3
<1>6. CASE ChatServer
  <2>1. UNCHANGED <<m_socket, ui, ui_ops, shown>>
    BY <1>6, ServerLeavesClient DEF uiVars, windowVars
  <2>2. Live /\ (Free => Free')
    <3>1. CASE ServerHello \/ ServerLogin \/ ServerLogout \/ ServerMessage
      BY <2>1, <3>1, ReadAlternates, ServerReads DEF ButtonInv, Live
    <3>2. CASE ServerReply \/ ServerRelay
      BY <2>1, <3>2 DEF ServerReply, ServerRelay, ServerSend, appVars, serverVars, Live, Free
    <3>3. CASE ServerLeaves
      BY <3>3 DEF ServerLeaves, ServerClose, ServerReset, Live
    <3>4. CASE ServerGoesOn
      BY <3>4 DEF ServerGoesOn, vars, netVars, Live, Free
    <3> QED
      BY <1>6, <3>1, <3>2, <3>3, <3>4 DEF ChatServer, ServerAnswer
  <2>3. Hiding' <=> Hiding
    BY <2>1 DEF Hiding
  <2> QED
    BY <1>1, <2>1, <2>2, <2>3
<1>7. CASE UNCHANGED app_vars
  <2>1. UNCHANGED <<m_socket, peer, ui, ui_ops, shown, outbox, entry>>
    BY <1>7 DEF app_vars, vars, netVars, appVars, uiVars, windowVars, serverVars
  <2>2. Live /\ (Free' <=> Free) /\ (Hiding' <=> Hiding)
    BY <2>1 DEF Live, Free, Hiding
  <2> QED
    BY <1>1, <2>1, <2>2
<1> QED
  BY <1>2, <1>3, <1>4, <1>5, <1>6, <1>7 DEF AppNext

\* All four are kept.
LEMMA ButtonStep ==
  ASSUME AppInv, WindowInv, LinkInv, ButtonInv, [AppNext]_app_vars
  PROVE  ButtonInv'
<1>1. HandlerCalls'
  BY HandlerCallsStep DEF ButtonInv
<1>2. ClosedLoop'
  BY ClosedLoopStep DEF ButtonInv
<1> QED
  BY <1>1, <1>2, AlternatesStep, LoginButtonStep DEF ButtonInv

-----------------------------------------------------------------------------
(* The session that a message carries.                                      *)

\* The last login's answer in a line of packets has the session e.
LastLogin(s, e) ==
  \A i \in DOMAIN s :
    s[i].cmd = "login" /\ (\A j \in i + 1 .. Len(s) : s[j].cmd # "login") => s[i].session = e

\* While the server has a session for the client, the last answer to a login on
\* its way has it, or it was set by the handler of that answer.
Cookie ==
  Live /\ entry # Empty =>
    IF Answering THEN answer.session = entry
    ELSE /\ LastLogin(inbox, entry)
         /\ NoLogin(inbox) => IF Handling /\ h_pc # "output" THEN incoming.session = entry
                                                            ELSE m_cookie = entry

\* A message written while no login was unanswered has that session, in the
\* window's thread and on its way.
Carrying ==
  owner = "send" /\ ui = "message" /\ ~sending.asked =>
    /\ NoLogin(outbox)
    /\ Live /\ entry # Empty => sending.session = entry

Carried ==
  \A i \in DOMAIN outbox : outbox[i].cmd = "message" /\ ~outbox[i].asked =>
    /\ \A j \in 1 .. i - 1 : outbox[j].cmd # "login"
    /\ entry # Empty => outbox[i].session = entry

CarryInv == Cookie /\ Carrying /\ Carried

\* A login's answer put at the end is the last one, and no other packet is.
LEMMA LastAppended ==
  ASSUME NEW S, NEW s \in Seq(S), NEW p \in S, NEW t, t = Append(s, p), NEW e
  PROVE  /\ p.cmd = "login" => ~NoLogin(t) /\ (p.session = e => LastLogin(t, e))
         /\ p.cmd # "login" => /\ LastLogin(s, e) => LastLogin(t, e)
                               /\ NoLogin(t) => NoLogin(s)
<1> DEFINE m == Len(s)
<1>1. /\ m \in Nat /\ DOMAIN s = 1 .. m /\ Len(t) = m + 1 /\ DOMAIN t = 1 .. m + 1
      /\ \A i \in 1 .. m : t[i] = s[i]
      /\ t[m + 1] = p
  BY AppendOf
<1> HIDE DEF m
<1>2. m + 1 \in 1 .. m + 1 /\ \A i \in 1 .. m : m + 1 \in i + 1 .. m + 1
  BY <1>1
<1>3. \A i \in 1 .. m + 1 : i = m + 1 \/ i \in 1 .. m
  BY <1>1
<1>4. ASSUME p.cmd = "login"
      PROVE  ~NoLogin(t) /\ (p.session = e => LastLogin(t, e))
  <2>1. t[m + 1].cmd = "login"
    BY <1>1, <1>4
  <2>2. ~NoLogin(t)
    BY <1>1, <1>2, <2>1 DEF NoLogin
  <2>3. ASSUME p.session = e, NEW i \in 1 .. m + 1,
               \A j \in i + 1 .. m + 1 : t[j].cmd # "login"
        PROVE  t[i].session = e
    <3>1. i = m + 1
      BY <1>2, <1>3, <2>1, <2>3
    <3> QED
      BY <1>1, <2>3, <3>1
  <2> QED
    BY <1>1, <2>2, <2>3 DEF LastLogin
<1>5. ASSUME p.cmd # "login"
      PROVE  /\ LastLogin(s, e) => LastLogin(t, e)
             /\ NoLogin(t) => NoLogin(s)
  <2>1. \A i \in 1 .. m : i \in 1 .. m + 1 /\ \A j \in i + 1 .. m : j \in i + 1 .. m + 1 /\ j \in 1 .. m
    BY <1>1
  <2>2. NoLogin(t) => NoLogin(s)
    BY <1>1, <2>1 DEF NoLogin
  <2>3. ASSUME LastLogin(s, e), NEW i \in 1 .. m + 1, t[i].cmd = "login",
               \A j \in i + 1 .. m + 1 : t[j].cmd # "login"
        PROVE  t[i].session = e
    <3>1. i \in 1 .. m
      BY <1>1, <1>3, <1>5, <2>3
    <3>2. \A j \in i + 1 .. m : s[j].cmd # "login"
      BY <1>1, <2>1, <2>3, <3>1
    <3> QED
      BY <1>1, <2>3, <3>1, <3>2 DEF LastLogin
  <2> QED
    BY <1>1, <2>2, <2>3 DEF LastLogin
<1> QED
  BY <1>4, <1>5

\* When the first is taken the last is the same, unless it was the first.
LEMMA LastTaken ==
  ASSUME NEW S, NEW s \in Seq(S), s # <<>>, NEW t, t = Tail(s), NEW e
  PROVE  /\ LastLogin(s, e) => LastLogin(t, e)
         /\ NoLogin(s) => NoLogin(t) /\ Head(s).cmd # "login"
         /\ NoLogin(t) /\ Head(s).cmd = "login" /\ LastLogin(s, e) => Head(s).session = e
         /\ NoLogin(t) /\ Head(s).cmd # "login" => NoLogin(s)
<1> DEFINE m == Len(s)
<1>1. /\ m \in Nat \ {0} /\ DOMAIN s = 1 .. m /\ Len(t) = m - 1 /\ DOMAIN t = 1 .. m - 1
      /\ \A i \in 1 .. m - 1 : t[i] = s[i + 1]
      /\ Head(s) = s[1]
  BY TailOf
<1> HIDE DEF m
<1>2. /\ 1 \in 1 .. m
      /\ \A i \in 1 .. m - 1 : i + 1 \in 1 .. m
      /\ \A i \in 1 .. m : i = 1 \/ (i - 1 \in 1 .. m - 1 /\ (i - 1) + 1 = i)
      /\ \A i \in 1 .. m - 1 : \A j \in (i + 1) + 1 .. m :
           j - 1 \in i + 1 .. m - 1 /\ j - 1 \in 1 .. m - 1 /\ (j - 1) + 1 = j
      /\ \A j \in 1 + 1 .. m : j - 1 \in 1 .. m - 1 /\ (j - 1) + 1 = j
  BY <1>1
<1>3. ASSUME LastLogin(s, e) PROVE LastLogin(t, e)
  <2>1. ASSUME NEW i \in 1 .. m - 1, t[i].cmd = "login",
               \A j \in i + 1 .. m - 1 : t[j].cmd # "login"
        PROVE  t[i].session = e
    <3>1. i + 1 \in 1 .. m /\ t[i] = s[i + 1]
      BY <1>1, <1>2
    <3>2. ASSUME NEW j \in (i + 1) + 1 .. m PROVE s[j].cmd # "login"
      <4>1. j - 1 \in i + 1 .. m - 1 /\ t[j - 1] = s[j]
        BY <1>1, <1>2
      <4> QED
        BY <2>1, <4>1
    <3>3. s[i + 1].session = e
      BY <1>1, <1>3, <2>1, <3>1, <3>2 DEF LastLogin
    <3> QED
      BY <3>1, <3>3
  <2> QED
    BY <1>1, <2>1 DEF LastLogin
<1>4. ASSUME NoLogin(s) PROVE NoLogin(t) /\ Head(s).cmd # "login"
  BY <1>1, <1>2, <1>4 DEF NoLogin
<1>5. ASSUME NoLogin(t), Head(s).cmd = "login", LastLogin(s, e) PROVE Head(s).session = e
  <2>1. ASSUME NEW j \in 1 + 1 .. m PROVE s[j].cmd # "login"
    <3>1. j - 1 \in 1 .. m - 1 /\ t[j - 1] = s[j]
      BY <1>1, <1>2
    <3> QED
      BY <1>1, <1>5, <3>1 DEF NoLogin
  <2> QED
    BY <1>1, <1>2, <1>5, <2>1 DEF LastLogin
<1>6. ASSUME NoLogin(t), Head(s).cmd # "login" PROVE NoLogin(s)
  <2>1. ASSUME NEW i \in 1 .. m PROVE s[i].cmd # "login"
    <3>1. CASE i = 1
      BY <1>1, <1>6, <3>1
    <3>2. CASE i - 1 \in 1 .. m - 1 /\ (i - 1) + 1 = i
      BY <1>1, <1>6, <3>2 DEF NoLogin
    <3> QED
      BY <1>2, <3>1, <3>2
  <2> QED
    BY <1>1, <2>1 DEF NoLogin
<1> QED
  BY <1>3, <1>4, <1>5, <1>6

\* The server reads a login only when it has no session for the client.
LEMMA LoginsWithout ==
  ASSUME AppInv, ButtonInv, outbox # <<>>, Head(outbox).cmd = "login"
  PROVE  entry = Empty
<1>1. 1 \in DOMAIN outbox /\ outbox[1].cmd = "login"
  BY TailOf DEF AppInv, ClientInv, ClientTypeOK
<1>2. LoggedOut(outbox, entry, 1 - 1)
  BY <1>1 DEF ButtonInv, Alternates
<1>3. LoggedOut(outbox, entry, 0)
  BY <1>2
<1>4. 1 .. 0 = {}
  OBVIOUS
<1> QED
  BY <1>3, <1>4 DEF LoggedOut

\* The handler thread and the session.
LEMMA CookieHandler ==
  ASSUME AppInv, LinkInv, Cookie, HandlerStep
  PROVE  Cookie'
<1> SUFFICES ASSUME Live', entry' # Empty
             PROVE  (IF Answering THEN answer.session = entry
                     ELSE /\ LastLogin(inbox, entry)
                          /\ NoLogin(inbox) =>
                               IF Handling /\ h_pc # "output" THEN incoming.session = entry
                                                              ELSE m_cookie = entry)'
  BY DEF Cookie
<1>1. UNCHANGED <<peer, m_socket, answer, entry>>
  BY HandlerLeaves DEF serverVars
<1>2. Live /\ entry # Empty /\ (Answering' <=> Answering)
  BY <1>1 DEF Live, Answering
<1>3. CASE Answering
  BY <1>1, <1>2, <1>3 DEF Cookie
<1>4. CASE ~Answering
  <2>0. /\ LastLogin(inbox, entry)
        /\ NoLogin(inbox) => IF Handling /\ h_pc # "output" THEN incoming.session = entry
                                                           ELSE m_cookie = entry
    BY <1>2, <1>4 DEF Cookie
  <2>1. SUFFICES /\ LastLogin(inbox', entry)
                 /\ NoLogin(inbox') =>
                      IF Handling' /\ h_pc' # "output" THEN incoming'.session = entry
                                                       ELSE m_cookie' = entry
    BY <1>1, <1>2, <1>4
  <2>2. CASE Receive /\ UNCHANGED appVars
    <3>0. UNCHANGED <<m_cookie, h_pc>>
      BY <2>2 DEF appVars, workVars
    <3>1. CASE RecvHeader
      <4>1. /\ pc = "header" /\ pc' = "body" /\ incoming' = Head(inbox)
            /\ inbox # <<>> /\ inbox' = Tail(inbox)
        BY <3>1 DEF RecvHeader
      <4>2. h_pc = "enter" /\ ~Handling
        BY <4>1 DEF AppInv, AtWork, Handling
      <4>3. Handling' <=> Head(inbox).cmd = "login"
        BY <4>1 DEF Handling
      <4>4. /\ LastLogin(inbox, entry) => LastLogin(inbox', entry)
            /\ NoLogin(inbox') /\ Head(inbox).cmd = "login" /\ LastLogin(inbox, entry) =>
                 Head(inbox).session = entry
            /\ NoLogin(inbox') /\ Head(inbox).cmd # "login" => NoLogin(inbox)
        BY <4>1, LastTaken DEF AppInv, ClientInv, ClientTypeOK
      <4> QED
        BY <2>0, <3>0, <4>1, <4>2, <4>3, <4>4
    <3>2. CASE RecvBodyLost
      BY <1>2, <3>2 DEF RecvBodyLost, Live
    <3>3. CASE RecvBody
      <4>1. UNCHANGED <<inbox, incoming>> /\ pc = "body" /\ pc' = "dispatch"
        BY <3>3 DEF RecvBody, netVars
      <4>2. Handling' <=> Handling
        BY <4>1 DEF Handling
      <4> QED
        BY <2>0, <3>0, <4>1, <4>2
    <3>4. CASE Loop \/ RecvNothing \/ \E g \in Garbage : RecvGarbage(g)
      <4>1. /\ UNCHANGED <<inbox, incoming>>
            /\ pc \in {"loop", "header"} /\ pc' \in {"loop", "header", "done", "crashed"}
        BY <3>4 DEF Loop, RecvNothing, RecvGarbage, netVars
      <4>2. ~Handling' /\ ~Handling
        BY <4>1 DEF Handling
      <4> QED
        BY <2>0, <3>0, <4>1, <4>2
    <3> QED
      BY <2>2, <3>1, <3>2, <3>3, <3>4 DEF Receive
  <2>3. CASE Handle
    <3>1. /\ UNCHANGED <<inbox, incoming, pc>> /\ pc = "dispatch" /\ h_pc = "enter"
          /\ h_pc' = IF incoming.cmd = "login" THEN "session" ELSE "output"
          /\ incoming.cmd # "login" => m_cookie' = m_cookie
      BY <2>3 DEF Handle, vars, netVars, handlerVars
    <3>2. (Handling' <=> Handling) /\ (Handling <=> incoming.cmd = "login")
      BY <3>1 DEF Handling
    <3> QED
      BY <2>0, <3>1, <3>2
  <2>4. CASE SetSession
    <3>1. /\ UNCHANGED <<inbox, incoming, pc>> /\ h_pc = "session" /\ h_pc' = "output"
          /\ m_cookie' = incoming.session
      BY <2>4 DEF SetSession, vars, netVars, handlerVars
    <3>2. Handling
      BY <3>1 DEF AppInv, AtWork, Handling
    <3> QED
      BY <2>0, <3>1, <3>2
  <2>5. CASE Output
    <3>1. UNCHANGED <<inbox, incoming, pc, h_pc, m_cookie>>
      BY <2>5 DEF Output, vars, netVars, handlerVars
    <3>2. Handling' <=> Handling
      BY <3>1 DEF Handling
    <3> QED
      BY <2>0, <3>1, <3>2
  <2>6. CASE Return
    <3>1. UNCHANGED <<inbox, m_cookie>> /\ h_pc = "output" /\ pc' = "loop"
      BY <2>6 DEF Return, Dispatched, netVars
    <3>2. ~Handling'
      BY <3>1 DEF Handling
    <3> QED
      BY <2>0, <3>1, <3>2
  <2> QED
    BY <2>2, <2>3, <2>4, <2>5, <2>6 DEF HandlerStep
<1> QED
  BY <1>3, <1>4

\* The server and the session.
LEMMA CookieServer ==
  ASSUME AppInv, ButtonInv, Cookie, ChatServer
  PROVE  Cookie'
<1> SUFFICES ASSUME Live', entry' # Empty
             PROVE  (IF Answering THEN answer.session = entry
                     ELSE /\ LastLogin(inbox, entry)
                          /\ NoLogin(inbox) =>
                               IF Handling /\ h_pc # "output" THEN incoming.session = entry
                                                              ELSE m_cookie = entry)'
  BY DEF Cookie
<1>1. UNCHANGED <<m_socket, pc, incoming, h_pc, m_cookie>> /\ (Handling' <=> Handling)
  BY ServerLeavesClient DEF handlerVars, workVars, Handling
<1>2. CASE ServerLogin
  <2>1. outbox # <<>> /\ Head(outbox).cmd = "login"
    BY <1>2 DEF ServerLogin
  <2>2. entry = Empty
    BY <2>1, LoginsWithout
  <2>3. answer'.session = entry'
    <3>1. Head(outbox).valid /\ entry = Empty
      BY <1>2, <2>2, Zenon DEF ServerLogin
    <3>2. /\ answer' = [cmd |-> "login", status |-> IfOk(Head(outbox).valid /\ entry = Empty),
                        session |-> issued + 1]
          /\ entry' = issued + 1
      BY <1>2, <3>1, Zenon DEF ServerLogin, Reply
    <3> HIDE DEF IfOk
    <3> QED
      BY <3>2
  <2>4. Answering'
    BY <1>2, ServerReads, <2>1
  <2> QED
    BY <2>3, <2>4
<1>3. CASE (ServerHello \/ ServerLogout \/ ServerMessage) /\ ~ServerLogin
  <2>1. /\ answer = None /\ peer' = peer /\ inbox' = inbox /\ ~Answering'
        /\ entry' \in {entry, Empty}
    BY <1>3, ServerReads
  <2>2. Live /\ ~Answering /\ entry' = entry
    BY <1>1, <2>1 DEF Live, Answering
  <2> QED
    BY <1>1, <2>1, <2>2 DEF Cookie
<1>4. CASE ServerReply
  <2>1. /\ answer # None /\ answer' = None /\ inbox' = Append(inbox, answer)
        /\ UNCHANGED <<peer, entry>>
    BY <1>4 DEF ServerReply, ServerSend
  <2>2. answer \in Packet /\ inbox \in Seq(Packet)
    BY <2>1 DEF AppInv, DataOK, ClientInv, ClientTypeOK
  <2>3. /\ answer.cmd = "login" =>
             ~NoLogin(inbox') /\ (answer.session = entry => LastLogin(inbox', entry))
        /\ answer.cmd # "login" => /\ LastLogin(inbox, entry) => LastLogin(inbox', entry)
                                   /\ NoLogin(inbox') => NoLogin(inbox)
    BY <2>1, <2>2, LastAppended
  <2>4. Live /\ ~Answering' /\ (Answering <=> answer.cmd = "login")
    BY <1>1, <2>1 DEF Live, Answering
  <2> QED
    BY <1>1, <2>1, <2>3, <2>4 DEF Cookie
<1>5. CASE ServerRelay
  <2> DEFINE p == [cmd |-> "message"]
  <2>1. inbox' = Append(inbox, p) /\ UNCHANGED <<peer, entry, answer>>
    BY <1>5 DEF ServerRelay, ServerSend, appVars, serverVars
  <2>2. p \in Packet /\ p.cmd # "login" /\ inbox \in Seq(Packet)
    BY Answers DEF AppInv, ClientInv, ClientTypeOK
  <2> HIDE DEF p
  <2>3. /\ LastLogin(inbox, entry) => LastLogin(inbox', entry)
        /\ NoLogin(inbox') => NoLogin(inbox)
    BY <2>1, <2>2, LastAppended
  <2>4. Live /\ (Answering' <=> Answering)
    BY <1>1, <2>1 DEF Live, Answering
  <2> QED
    BY <1>1, <2>1, <2>3, <2>4 DEF Cookie
<1>6. CASE ServerLeaves
  BY <1>6 DEF ServerLeaves, ServerClose, ServerReset, Live
<1>7. CASE ServerGoesOn
  <2>1. UNCHANGED <<peer, inbox, answer, entry>>
    BY <1>7 DEF ServerGoesOn, vars, netVars
  <2>2. Live /\ (Answering' <=> Answering)
    BY <1>1, <2>1 DEF Live, Answering
  <2> QED
    BY <1>1, <2>1, <2>2 DEF Cookie
<1> QED
  BY <1>2, <1>3, <1>4, <1>5, <1>6, <1>7 DEF ChatServer, ServerAnswer

\* The session, after a step.
LEMMA CookieStep ==
  ASSUME AppInv, LinkInv, ButtonInv, Cookie, [AppNext]_app_vars
  PROVE  Cookie'
<1>1. CASE \E found \in Resolve : ClickConnect(found)
  BY <1>1 DEF ClickConnect, NewConnection, Cookie
<1>2. CASE LeavesNet \/ Sent \/ UNCHANGED app_vars
  <2>1. /\ UNCHANGED <<inbox, answer, entry, m_cookie, incoming, h_pc>>
        /\ pc' = pc \/ (pc \notin {"body", "dispatch"} /\ pc' \notin {"body", "dispatch"})
        /\ Live' => Live
    BY <1>2 DEF LeavesNet, Sent, SendOk, app_vars, vars, appVars, handlerVars, netVars,
      serverVars, workVars, Live
  <2>2. (Handling' <=> Handling) /\ (Answering' <=> Answering)
    BY <2>1 DEF Handling, Answering
  <2> QED
    BY <2>1, <2>2 DEF Cookie
<1>3. CASE UiStep \/ User
  BY <1>1, <1>2, <1>3, UiNet
<1> QED
  BY <1>2, <1>3, CookieHandler, CookieServer DEF AppNext

\* When no login is unanswered none is under way.
LEMMA NoneAsked ==
  ASSUME AppInv, Counted, asked = 0
  PROVE  NoLogin(outbox) /\ ~Answering /\ NoLogin(inbox) /\ ~Handling
<1>1. /\ Logins(outbox) \in Nat /\ Logins(inbox) \in Nat
      /\ One(Answering) \in {0, 1} /\ One(Handling) \in {0, 1}
  BY Numbers
<1>2. PICK l \in Nat, r \in Nat, j \in Nat, h \in Nat :
        l = Logins(outbox) /\ r = One(Answering) /\ j = Logins(inbox) /\ h = One(Handling)
  <2>1. One(Answering) \in Nat /\ One(Handling) \in Nat
    BY <1>1
  <2> QED
    BY <1>1, <2>1, Zenon
<1>3. (l + r) + (j + h) <= 0
  BY <1>2 DEF Counted, InFlight, Upstream, Downstream
<1>4. l = 0 /\ r = 0 /\ j = 0 /\ h = 0
  BY <1>3
<1>5. ~Answering /\ ~Handling
  BY <1>2, <1>4 DEF One
<1>6. NoLogin(outbox) /\ NoLogin(inbox)
  BY <1>2, <1>4, LoginsNone DEF NoLogin, AppInv, ClientInv, ClientTypeOK
<1> QED
  BY <1>5, <1>6

\* A message that is about to be sent.
LEMMA CarryingStep ==
  ASSUME AppInv, LinkInv, Counted, ButtonInv, CarryInv, [AppNext]_app_vars
  PROVE  Carrying'
<1> SUFFICES ASSUME owner' = "send", ui' = "message", ~sending'.asked
             PROVE  /\ NoLogin(outbox')
                    /\ Live' /\ entry' # Empty => sending'.session = entry'
  BY DEF Carrying
<1>1. CASE ClickSend
  <2>1. /\ sending' = [cmd |-> "message", session |-> m_cookie, asked |-> asked > 0]
        /\ UNCHANGED <<outbox, inbox, answer, entry, peer, m_socket>>
    BY <1>1 DEF ClickSend, SendBegin, WithSession, netVars, serverVars
  <2>2. sending'.session = m_cookie /\ sending'.asked = (asked > 0)
    BY <2>1
  <2>3. asked = 0
    <3>1. ~(asked > 0)
      BY <2>2, Zenon
    <3>2. asked \in Nat
      BY DEF Counted
    <3> QED
      BY <3>1, <3>2
  <2>4. NoLogin(outbox) /\ ~Answering /\ NoLogin(inbox) /\ ~Handling
    BY <2>3, NoneAsked
  <2>5. Live /\ entry # Empty => m_cookie = entry
    BY <2>4 DEF CarryInv, Cookie
  <2>6. Live' <=> Live
    BY <2>1 DEF Live
  <2> QED
    BY <2>1, <2>2, <2>4, <2>5, <2>6
<1>2. CASE (UiStep \/ User) /\ ~ClickSend
  <2>1. CASE UiStep
    BY <2>1 DEF UiStep, Hello, Sent, SentNot, DisconnectStep, UiOutput, UiReturn,
      DestroyClient, SendBegin, SendOk, SendFails, CloseSocket, Disconnected, Join,
      Shutdown, Destroy, appVars, uiVars, vars, ownerVars
  <2>2. CASE User
    BY <1>2, <2>2 DEF User, ClickConnectFails, ClickConnect, ClickConnectAgain, ClickLogin,
      ClickLogout, ClickDisconnect, CloseWindow, ConnectFails, Connected, SendBegin,
      Shutdown, Click, InLoop, vars, uiVars
  <2> QED
    BY <1>2, <2>1, <2>2
<1>3. ASSUME UNCHANGED <<owner, ui, sending>>
      PROVE  /\ NoLogin(outbox)
             /\ Live /\ entry # Empty => sending.session = entry
  BY <1>3 DEF CarryInv, Carrying
<1>4. CASE HandlerStep
  <2>1. UNCHANGED <<owner, ui, sending, outbox, entry, peer, m_socket>>
    BY <1>4, HandlerLeaves DEF ownerVars, uiVars, serverVars
  <2> QED
    BY <1>3, <2>1 DEF Live
<1>5. CASE ChatServer
  <2>1. UNCHANGED <<owner, ui, sending, m_socket>>
    BY <1>5, ServerLeavesClient DEF ownerVars, uiVars
  <2>2. CASE ServerHello \/ ServerLogin \/ ServerLogout \/ ServerMessage
    <3>1. outbox # <<>> /\ outbox' = Tail(outbox) /\ peer' = peer
      BY <2>2, ServerReads
    <3>2. NoLogin(outbox') /\ Head(outbox).cmd # "login"
      BY <1>3, <2>1, <3>1, LastTaken DEF AppInv, ClientInv, ClientTypeOK
    <3>3. entry' \in {entry, Empty}
      BY <2>2, <3>2, ServerReads
    <3> QED
      BY <1>3, <2>1, <3>1, <3>2, <3>3 DEF Live
  <2>3. CASE ServerReply \/ ServerRelay \/ ServerGoesOn
    <3>1. UNCHANGED <<outbox, entry, peer>>
      BY <2>3 DEF ServerReply, ServerRelay, ServerGoesOn, ServerSend, appVars, serverVars,
        vars, netVars
    <3> QED
      BY <1>3, <2>1, <3>1 DEF Live
  <2>4. CASE ServerLeaves
    <3>1. outbox' = <<>> /\ peer' # "open"
      BY <2>4 DEF ServerLeaves, ServerClose, ServerReset
    <3>2. DOMAIN outbox' = {}
      BY <3>1
    <3> QED
      BY <3>1, <3>2 DEF NoLogin, Live
  <2> QED
    BY <1>5, <2>2, <2>3, <2>4 DEF ChatServer, ServerAnswer
<1>6. CASE UNCHANGED app_vars
  <2>1. UNCHANGED <<owner, ui, sending, outbox, entry, peer, m_socket>>
    BY <1>6 DEF app_vars, vars, appVars, ownerVars, netVars, uiVars, serverVars
  <2> QED
    BY <1>3, <2>1 DEF Live
<1> QED
  BY <1>1, <1>2, <1>4, <1>5, <1>6 DEF AppNext

\* A message on its way.
LEMMA CarriedStep ==
  ASSUME AppInv, LinkInv, Counted, ButtonInv, CarryInv, [AppNext]_app_vars
  PROVE  Carried'
<1>0. Carried /\ outbox \in Seq(Request)
  BY DEF CarryInv, AppInv, ClientInv, ClientTypeOK
<1>1. CASE UNCHANGED <<outbox, entry>>
  BY <1>0, <1>1 DEF Carried
<1>2. CASE outbox' = <<>>
  <2>1. DOMAIN outbox' = {}
    BY <1>2
  <2> QED
    BY <2>1 DEF Carried
<1>3. CASE Sent /\ peer = "open"
  <2>1. /\ outbox' = Append(outbox, sending) /\ entry' = entry /\ sending \in Request
        /\ ui = sending.cmd
    BY <1>3, SendFree
  <2>2. /\ Len(outbox) \in Nat /\ DOMAIN outbox = 1 .. Len(outbox)
        /\ DOMAIN outbox' = 1 .. Len(outbox) + 1
        /\ \A i \in 1 .. Len(outbox) : outbox'[i] = outbox[i]
        /\ outbox'[Len(outbox) + 1] = sending
    BY <1>0, <2>1, AppendOf
  <2>3. ASSUME NEW i \in DOMAIN outbox', outbox'[i].cmd = "message", ~outbox'[i].asked
        PROVE  /\ \A j \in 1 .. i - 1 : outbox'[j].cmd # "login"
               /\ entry' # Empty => outbox'[i].session = entry'
    <3>1. CASE i \in 1 .. Len(outbox)
      <4>1. /\ \A j \in 1 .. i - 1 : outbox[j].cmd # "login"
            /\ entry # Empty => outbox[i].session = entry
        <5>1. outbox'[i] = outbox[i]
          BY <2>2, <3>1
        <5>2. outbox[i].cmd = "message" /\ ~outbox[i].asked
          BY <2>3, <5>1, Zenon
        <5> QED
          BY <1>0, <2>2, <3>1, <5>2, Zenon DEF Carried
      <4>2. \A j \in 1 .. i - 1 : j \in 1 .. Len(outbox)
        BY <2>2, <3>1
      <4> QED
        BY <2>1, <2>2, <3>1, <4>1, <4>2
    <3>2. CASE i = Len(outbox) + 1
      <4>1. outbox'[i] = sending
        BY <2>2, <3>2
      <4>2. ui = "message" /\ ~sending.asked
        BY <2>1, <2>3, <4>1, Zenon
      <4>3. owner = "send" /\ Live
        BY <1>3 DEF Sent, SendOk, Live
      <4>4. NoLogin(outbox) /\ (entry # Empty => sending.session = entry)
        BY <4>2, <4>3, Zenon DEF CarryInv, Carrying
      <4>5. \A j \in 1 .. i - 1 : j \in 1 .. Len(outbox)
        BY <2>2, <3>2
      <4> QED
        BY <2>1, <2>2, <4>1, <4>4, <4>5 DEF NoLogin
    <3> QED
      BY <2>2, <2>3, <3>1, <3>2
  <2> QED
    BY <2>3, Zenon DEF Carried
<1>4. CASE UiStep \/ User
  <2>1. CASE Sent /\ peer # "open"
    BY <1>1, <2>1 DEF Sent, SendOk, serverVars
  <2>2. CASE \E found \in Resolve : ClickConnect(found)
    BY <1>2, <2>2 DEF ClickConnect, Connected
  <2> QED
    BY <1>1, <1>3, <1>4, <2>1, <2>2, UiNet DEF LeavesNet
<1>5. CASE ServerHello \/ ServerLogin \/ ServerLogout \/ ServerMessage
  <2>1. outbox # <<>> /\ outbox' = Tail(outbox)
    BY <1>5, ServerReads
  <2>2. /\ Len(outbox) \in Nat \ {0} /\ DOMAIN outbox = 1 .. Len(outbox)
        /\ DOMAIN outbox' = 1 .. Len(outbox) - 1
        /\ \A i \in 1 .. Len(outbox) - 1 : outbox'[i] = outbox[i + 1]
        /\ Head(outbox) = outbox[1]
    BY <1>0, <2>1, TailOf
  <2>3. ASSUME NEW i \in DOMAIN outbox', outbox'[i].cmd = "message", ~outbox'[i].asked
        PROVE  /\ \A j \in 1 .. i - 1 : outbox'[j].cmd # "login"
               /\ entry' # Empty => outbox'[i].session = entry'
    <3>1. i + 1 \in DOMAIN outbox /\ outbox'[i] = outbox[i + 1]
      BY <2>2
    <3>2. outbox[i + 1].cmd = "message" /\ ~outbox[i + 1].asked
      BY <2>3, <3>1, Zenon
    <3>3. /\ \A j \in 1 .. (i + 1) - 1 : outbox[j].cmd # "login"
          /\ entry # Empty => outbox[i + 1].session = entry
      BY <1>0, <3>1, <3>2, Zenon DEF Carried
    <3>4. /\ 1 \in 1 .. (i + 1) - 1
          /\ \A j \in 1 .. i - 1 : j + 1 \in 1 .. (i + 1) - 1 /\ j \in 1 .. Len(outbox) - 1
      BY <2>2
    <3>5. entry' \in {entry, Empty}
      <4>1. Head(outbox).cmd # "login"
        BY <2>2, <3>3, <3>4
      <4> QED
        BY <1>5, <4>1, ServerReads
    <3>6. ASSUME NEW j \in 1 .. i - 1 PROVE outbox'[j].cmd # "login"
      <4>1. j + 1 \in 1 .. (i + 1) - 1 /\ outbox'[j] = outbox[j + 1]
        BY <2>2, <3>4
      <4> QED
        BY <3>3, <4>1
    <3> QED
      BY <3>1, <3>3, <3>5, <3>6
  <2> QED
    BY <2>3, Zenon DEF Carried
<1>6. CASE ServerReply \/ ServerRelay \/ ServerGoesOn
  BY <1>1, <1>6 DEF ServerReply, ServerRelay, ServerGoesOn, ServerSend, appVars, serverVars,
    vars, netVars
<1>7. CASE ServerLeaves
  BY <1>2, <1>7 DEF ServerLeaves, ServerClose, ServerReset
<1>8. CASE HandlerStep
  BY <1>1, <1>8, HandlerLeaves DEF serverVars
<1>9. CASE UNCHANGED app_vars
  BY <1>1, <1>9 DEF app_vars, vars, netVars, appVars, serverVars
<1> QED
  BY <1>4, <1>5, <1>6, <1>7, <1>8, <1>9 DEF AppNext, ChatServer, ServerAnswer

LEMMA CarryInit == AppInit => CarryInv
<1> SUFFICES ASSUME AppInit PROVE CarryInv
  OBVIOUS
<1>1. entry = Empty /\ outbox = <<>> /\ owner = "idle"
  BY DEF AppInit, ClientInit
<1>2. DOMAIN outbox = {}
  BY <1>1
<1> QED
  BY <1>1, <1>2 DEF CarryInv, Cookie, Carrying, Carried

\* Every state of the application satisfies all of it.
SessionInv == LinkInv /\ Counted /\ ButtonInv /\ CarryInv

LEMMA SessionInvariant == AppSpec => [](AppInv /\ WindowInv /\ SessionInv)
<1>1. AppInit => SessionInv
  BY LinkInit, CountedInit, ButtonInit, CarryInit DEF SessionInv
<1>2. AppInv /\ AppInv' /\ WindowInv /\ SessionInv /\ [AppNext]_app_vars => SessionInv'
  BY LinkStep, CountedStep, ButtonStep, CookieStep, CarryingStep, CarriedStep
    DEF SessionInv, CarryInv
<1> QED
  BY <1>1, <1>2, WindowInvariant, PTL DEF AppSpec

\* The session in a message that reaches the server is the one that the server
\* issued, unless the message was written while a login was unanswered: each
\* login reaches the server when it has no session for the client, so the last
\* answer on its way is the one the handler of server_login_packet stores, and
\* a message written when none is on its way has it.
THEOREM MessageCarriesSession == AppSpec => []SessionCarried
<1>1. AppInv /\ SessionInv => SessionCarried
  <2> SUFFICES ASSUME AppInv, Carried, outbox # <<>>, Head(outbox).cmd = "message",
                      entry # Empty, ~Head(outbox).asked
               PROVE  Head(outbox).session = entry
    BY Zenon DEF SessionInv, CarryInv, SessionCarried
  <2>1. 1 \in DOMAIN outbox /\ Head(outbox) = outbox[1]
    BY TailOf DEF AppInv, ClientInv, ClientTypeOK
  <2>2. outbox[1].cmd = "message" /\ ~outbox[1].asked
    BY <2>1, Zenon
  <2> QED
    BY <2>1, <2>2, Zenon DEF Carried
<1> QED
  BY <1>1, SessionInvariant, PTL

-----------------------------------------------------------------------------
(* Type correctness.                                                        *)

\* The parts of the type invariant that nothing else says.
WindowTypes == ui_ops \in Seq(Calls) /\ shown \subseteq Widget /\ enabled \subseteq Widget

FlagTypes ==
  /\ h_pc \in {"enter", "session", "output"}
  /\ entry \in Session \cup {Empty}
  /\ greeted \in {"none", "sent", "answered"}
  /\ closed \in BOOLEAN /\ crossed \in BOOLEAN /\ refused \in BOOLEAN /\ stale \in BOOLEAN
  /\ busy \in BOOLEAN

LEMMA TypesInit == AppInit => WindowTypes /\ FlagTypes
<1> SUFFICES ASSUME AppInit PROVE WindowTypes /\ FlagTypes
  OBVIOUS
<1>1. WindowTypes
  <2>1. ui_ops = <<>> /\ shown \subseteq Widget /\ enabled \subseteq Widget
    BY DEF AppInit
  <2> QED
    BY <2>1 DEF WindowTypes
<1>2. FlagTypes
  BY DEF AppInit, FlagTypes
<1> QED
  BY <1>1, <1>2

\* A call concerns a widget.
LEMMA CallsWidgets ==
  ASSUME NEW op \in Calls, Call(op), shown \subseteq Widget, enabled \subseteq Widget
  PROVE  shown' \subseteq Widget /\ enabled' \subseteq Widget
<1>1. op.do \in {"show", "hide", "enable", "disable"} => op.on \in Widget
  BY DEF Calls
<1> QED
  BY <1>1, CallDoes

LEMMA WindowTypesStep ==
  ASSUME AppInv, LinkInv, HandlerCalls, WindowTypes, [AppNext]_app_vars
  PROVE  WindowTypes'
<1>0. ui_ops \in Seq(Calls) /\ shown \subseteq Widget /\ enabled \subseteq Widget
  BY DEF WindowTypes
<1>n. \A q \in Seq(NoShow) : q \in Seq(Calls)
  BY SeqMonotonic DEF NoShow, Steady
<1>s. \A q \in Seq(Steady) : q \in Seq(Calls)
  BY SeqMonotonic DEF Steady
<1>1. CASE UiOutput
  <2>1. Call(Head(ui_ops)) /\ ui_ops # <<>> /\ ui_ops' = Rest(ui_ops)
    BY <1>1 DEF UiOutput
  <2>2. Head(ui_ops) \in Calls /\ Rest(ui_ops) \in Seq(Calls)
    BY <1>0, <2>1, RestOf
  <2> QED
    BY <1>0, <2>1, <2>2, CallsWidgets DEF WindowTypes
<1>2. CASE Sent
  <2>1. owner = "send" /\ UNCHANGED <<shown, enabled>>
    BY <1>2 DEF Sent, SendOk, windowVars
  <2>2. ui \in {"hello", "login", "logout", "message"}
    BY <2>1, SendsRequests DEF LinkInv
  <2>3. \/ ui_ops' = on_connect("pending") \/ ui_ops' = on_login("success")
        \/ ui_ops' = on_logout("success") \/ ui_ops' = on_send("pending")
    BY <1>2, <2>2, Zenon DEF Sent
  <2>4. ui_ops' \in Seq(Calls)
    BY <1>n, <1>s, <2>3, CallKinds
  <2> QED
    BY <1>0, <2>1, <2>4 DEF WindowTypes
<1>3. CASE SentNot
  BY <1>0, <1>3, <1>n, CallKinds DEF SentNot, windowVars, WindowTypes
<1>4. CASE DisconnectStep
  BY <1>0, <1>4, CallKinds DEF DisconnectStep, windowVars, WindowTypes
<1>5. ASSUME NEW e \in ConnectError, ClickConnectFails(e) PROVE WindowTypes'
  BY <1>0, <1>5, <1>n, CallKinds DEF ClickConnectFails, windowVars, WindowTypes
<1>6. CASE Output
  <2>1. /\ h_ops # <<>> /\ UNCHANGED ui_ops
        /\ Call(Head(h_ops)) \/ UNCHANGED <<shown, enabled>>
    BY <1>6 DEF Output, uiVars
  <2>2. Head(h_ops) \in Calls
    BY <2>1, RestOf DEF HandlerCalls, NoShow, Steady
  <2> QED
    BY <1>0, <2>1, <2>2, CallsWidgets DEF WindowTypes
<1>7. ASSUME ~UiOutput, ~Sent, ~SentNot, ~DisconnectStep, ~Output,
             \A e \in ConnectError : ~ClickConnectFails(e)
      PROVE  UNCHANGED <<ui_ops, shown, enabled>>
  <2>1. CASE UiStep
    BY <1>7, <2>1 DEF UiStep, Hello, UiReturn, DestroyClient, appVars, uiVars, windowVars
  <2>2. CASE User
    BY <1>7, <2>2 DEF User, ClickConnect, ClickConnectAgain, ClickLogin, ClickLogout,
      ClickSend, ClickDisconnect, CloseWindow, uiVars, windowVars
  <2>3. CASE HandlerStep
    BY <1>7, <2>3 DEF HandlerStep, Handle, SetSession, Return, appVars, uiVars, windowVars
  <2>4. CASE ChatServer
    BY <2>4, ServerLeavesClient DEF uiVars, windowVars
  <2>5. CASE UNCHANGED app_vars
    BY <2>5 DEF app_vars, appVars, uiVars, windowVars
  <2> QED
    BY <2>1, <2>2, <2>3, <2>4, <2>5 DEF AppNext
<1> QED
  BY <1>0, <1>1, <1>2, <1>3, <1>4, <1>5, <1>6, <1>7 DEF WindowTypes

LEMMA FlagTypesStep ==
  ASSUME AppInv, FlagTypes, [AppNext]_app_vars
  PROVE  FlagTypes'
<1> USE DEF FlagTypes
<1>1. CASE Sent
  BY <1>1 DEF Sent, workVars, windowVars, serverVars
<1>2. ASSUME NEW found \in Resolve, ClickConnect(found) PROVE FlagTypes'
  BY <1>2 DEF ClickConnect, NewConnection, workVars, windowVars
<1>3. CASE CloseWindow
  BY <1>3 DEF CloseWindow, workVars, windowVars, serverVars, histVars
<1>4. CASE UiStep /\ ~Sent
  BY <1>4 DEF UiStep, Hello, SentNot, DisconnectStep, UiOutput, UiReturn, DestroyClient,
    appVars, workVars, windowVars, serverVars, histVars
<1>5. ASSUME User, ~CloseWindow, \A found \in Resolve : ~ClickConnect(found)
      PROVE  FlagTypes'
  BY <1>5 DEF User, ClickConnectFails, ClickConnectAgain, ClickLogin, ClickLogout, ClickSend,
    ClickDisconnect, workVars, windowVars, serverVars, histVars
<1>6. CASE HandlerStep
  <2>1. CASE Receive /\ UNCHANGED appVars
    BY <2>1 DEF appVars, workVars, windowVars, serverVars, histVars
  <2>2. CASE Handle
    BY <2>2 DEF Handle, windowVars, serverVars, histVars
  <2>3. CASE SetSession
    BY <2>3 DEF SetSession, windowVars, serverVars, histVars
  <2>4. CASE Output
    BY <2>4 DEF Output, serverVars
  <2>5. CASE Return
    BY <2>5 DEF Return, windowVars, serverVars
  <2> QED
    BY <1>6, <2>1, <2>2, <2>3, <2>4, <2>5 DEF HandlerStep
<1>7. CASE ChatServer
  <2>1. UNCHANGED <<workVars, windowVars, histVars>>
    BY <1>7, ServerLeavesClient
  <2>2. entry' \in Session \cup {Empty}
    BY <1>7 DEF ChatServer, ServerAnswer, ServerHello, ServerLogin, ServerLogout,
      ServerMessage, ServerReply, ServerGoesOn, ServerRelay, ServerLeaves, appVars,
      serverVars
  <2>3. busy' \in BOOLEAN
    <3>1. CASE ServerMessage
      <4>1. (entry # Empty) \in BOOLEAN
        OBVIOUS
      <4> QED
        BY <3>1, <4>1, Zenon DEF ServerMessage
    <3>2. CASE ~ServerMessage
      BY <1>7, <3>2 DEF ChatServer, ServerAnswer, ServerHello, ServerLogin, ServerLogout,
        ServerReply, ServerGoesOn, ServerRelay, ServerLeaves, appVars, serverVars
    <3> QED
      BY <3>1, <3>2
  <2> QED
    BY <2>1, <2>2, <2>3 DEF workVars, windowVars, histVars
<1>8. CASE UNCHANGED app_vars
  BY <1>8 DEF app_vars, appVars, workVars, windowVars, serverVars, histVars
<1> QED
  BY <1>1, <1>2, <1>3, <1>4, <1>5, <1>6, <1>7, <1>8 DEF AppNext

\* Every variable of the application keeps its type: the counters of logins
\* stay below the logins that the user made, and whatever the server and the
\* user do each call made of the window is one of a widget.
THEOREM AppTypeCorrect == AppSpec => []AppTypeOK
<1>1. AppInit => WindowTypes /\ FlagTypes
  BY TypesInit
<1>2. /\ AppInv /\ WindowInv /\ SessionInv /\ WindowTypes /\ FlagTypes
      /\ [AppNext]_app_vars
      => WindowTypes' /\ FlagTypes'
  BY WindowTypesStep, FlagTypesStep DEF SessionInv, ButtonInv
<1>3. AppInv /\ WindowInv /\ SessionInv /\ WindowTypes /\ FlagTypes => AppTypeOK
  <2> SUFFICES ASSUME AppInv, WindowInv, SessionInv, WindowTypes, FlagTypes
               PROVE  AppTypeOK
    OBVIOUS
  <2>1. ClientTypeOK /\ m_cookie \in Session \cup {Empty, Torn} /\ answer \in Packet \cup {None}
    BY DEF AppInv, ClientInv, DataOK
  <2>2. ui \in {"loop", "connected", "hello", "login", "logout", "message",
                "disconnect", "output"}
    BY DEF WindowInv, OpenInv, Turns, SessionInv, ButtonInv, ClosedLoop
  <2>3. ui_ops \in Seq(Ops) /\ h_ops \in Seq(Ops)
    <3>1. ui_ops \in Seq(Calls) /\ h_ops \in Seq(NoShow)
      BY DEF WindowTypes, SessionInv, ButtonInv, HandlerCalls
    <3>2. Calls \subseteq Ops /\ NoShow \subseteq Ops
      BY DEF Calls, Steady, NoShow
    <3> QED
      BY <3>1, <3>2, SeqMonotonic
  <2>4. /\ logins \in 0 .. MaxLogin /\ asked \in 0 .. MaxLogin /\ issued \in 0 .. MaxLogin
    <3>1. /\ Counted /\ Logins(outbox) \in Nat /\ One(Asking) \in Nat
      <4>1. Logins(outbox) \in Nat /\ One(Asking) \in {0, 1}
        BY Numbers
      <4> QED
        BY <4>1 DEF SessionInv
    <3>2. PICK a \in Nat, i \in Nat, l \in Nat, o \in Nat, n \in Nat, m \in Nat :
            /\ a = asked /\ i = issued /\ l = Logins(outbox) /\ o = One(Asking)
            /\ n = logins /\ m = MaxLogin
      <4>1. logins \in Nat /\ MaxLogin \in Nat /\ asked \in Nat /\ issued \in Nat
        BY <3>1, AppAssumption DEF Counted
      <4> QED
        BY <3>1, <4>1, Zenon
    <3>3. a + o <= n /\ i + l + o <= n /\ n <= m
      BY <3>1, <3>2, AppAssumption DEF Counted
    <3>4. a \in 0 .. m /\ i \in 0 .. m /\ n \in 0 .. m
      BY <3>3
    <3> QED
      BY <3>2, <3>4
  <2>5. {closed, crossed, refused, stale, busy} \subseteq BOOLEAN
    BY DEF FlagTypes
  <2> QED
    BY <2>1, <2>2, <2>3, <2>4, <2>5 DEF AppTypeOK, WindowTypes, FlagTypes
<1> QED
  BY <1>1, <1>2, <1>3, SessionInvariant, PTL DEF AppSpec

-----------------------------------------------------------------------------
(* The window and the server.                                               *)

\* The window is expected to follow the server.
Follow == ~closed /\ Live /\ ~refused /\ ~crossed

\* The answer to a login that succeeded.
Granted(p) == p.cmd = "login" /\ p.status = "ok"

\* No packet of s is a logout.
NoLogout(s) == \A i \in DOMAIN s : s[i].cmd # "logout"

\* Calls that show or hide the buttons of a session, or that enable or disable
\* them, except those that enable the login and the logout button.
Telling ==
  {Show("login"), Hide("login"), Disable("login"), Show("logout"), Hide("logout"),
   Disable("logout"), Enable("send"), Disable("send")}
Neutral == Calls \ Telling

\* What the output of a login, and that of a logout, has done before its k-th
\* call.
LoginTold(k) ==
  /\ k > 1 => "logout" \in shown
  /\ k > 4 => "login" \notin shown
  /\ k > 5 => "send" \in enabled
LogoutTold(k) ==
  /\ k > 1 => "login" \in shown
  /\ k > 3 => "logout" \notin shown
  /\ k > 4 => "send" \notin enabled

\* The window shows that the user is logged in, or that he is not, or is on its
\* way there.
ShowsIn ==
  \/ ui_ops \in Seq(Neutral) /\ LoginTold(8)
  \/ ui = "output" /\ \E k \in 1 .. 8 : ui_ops = From(on_login("success"), k) /\ LoginTold(k)
ShowsOut ==
  \/ ui_ops \in Seq(Neutral) /\ LogoutTold(7)
  \/ ui = "output" /\ \E k \in 1 .. 7 : ui_ops = From(on_logout("success"), k) /\ LogoutTold(k)

\* A login is on its way, or the server has a session and will read no logout.
Entered == asked > 0 \/ ~Free

\* The window shows what the user asked for last, and lets him ask for a login
\* only when the last was answered.
Shows ==
  Follow => /\ IF Entered THEN ShowsIn ELSE ShowsOut
            /\ asked <= 1
            /\ ui = "login" => asked = 0

\* A login's answer is on its way or being handled; so is one that grants it.
Underway == Answering \/ ~NoLogin(inbox) \/ Handling
Grants ==
  \/ Answering /\ Granted(answer)
  \/ \E i \in DOMAIN inbox : Granted(inbox[i])
  \/ Handling /\ Granted(incoming)

\* The server reads no logout between a login and the end of its handler; it
\* has a session while the answer that grants it is on its way.
LogoutLater ==
  Follow =>
    /\ \A i \in DOMAIN outbox : outbox[i].cmd = "login" =>
         \A j \in i + 1 .. Len(outbox) : outbox[j].cmd # "logout"
    /\ Underway => NoLogout(outbox)
    /\ Grants => entry # Empty

\* While it has a session no answer to a logout is the last one on its way: that
\* of a login comes after it.
LogoutBefore ==
  Follow /\ entry # Empty =>
    /\ answer # None => answer.cmd # "logout"
    /\ \A i \in DOMAIN inbox : inbox[i].cmd = "logout" =>
         Answering \/ \E j \in i + 1 .. Len(inbox) : inbox[j].cmd = "login"
    /\ pc \in {"body", "dispatch"} /\ incoming.cmd = "logout" =>
         Answering \/ ~NoLogin(inbox)

\* What the packet handlers have still to tell the window.
Tells ==
  h_pc # "enter" =>
    IF Granted(incoming)
    THEN \E k \in 1 .. 8 : /\ h_ops = From(on_login("success"), k)
                           /\ Follow /\ k > 2 => "logout" \in enabled
    ELSE h_ops \in Seq(IF incoming.cmd = "logout" THEN Neutral \cup {Disable("logout")}
                                                  ELSE Neutral)

\* The logout button is disabled by the answer to a logout alone.
LogoutButton == Follow /\ entry # Empty /\ asked = 0 => "logout" \in enabled

\* The login button is enabled by the answer to a hello and disabled by a
\* disconnect, which has ended when the next connection is made.
LoginEnabled ==
  ~closed /\ Live =>
    /\ ui_ops \in Seq(Steady)
    /\ greeted = "answered" => "login" \in enabled
    /\ Greeting => \E k \in 1 .. 11 : /\ h_ops = From(on_connect("success"), k)
                                      /\ k > 4 => "login" \in enabled

\* Nothing hides the send button.
SendShown == "send" \in shown

FollowInv ==
  Shows /\ LogoutLater /\ LogoutBefore /\ Tells /\ LogoutButton /\ LoginEnabled /\ SendShown

\* What the callbacks and the handlers tell the window about the session.
LEMMA TellKinds ==
  /\ on_connect("success") \in Seq(Neutral) /\ on_connect("pending") \in Seq(Neutral)
  /\ on_login("failed") \in Seq(Neutral) /\ on_logout("failed") \in Seq(Neutral)
  /\ on_logout("pending") \in Seq(Neutral \cup {Disable("logout")})
  /\ \A st \in {"success", "pending", "failed"} : on_send(st) \in Seq(Neutral)
  /\ on_recv \in Seq(Neutral) /\ <<>> \in Seq(Neutral)
<1>0. /\ Text \in Neutral
      /\ \A w \in Widget : IfDisabled(w) \in Neutral
      /\ \A w \in Widget \ {"send"} : Enable(w) \in Neutral
      /\ \A w \in Widget \ {"login", "logout"} : Show(w) \in Neutral
      /\ \A w \in Widget \ {"login", "logout", "send"} :
           Hide(w) \in Neutral /\ Disable(w) \in Neutral
  BY DEF Neutral, Telling, Calls, Ops, Widget, Show, Hide, Enable, Disable, IfDisabled, Text
<1>w. /\ {"login", "logout"} \subseteq Widget
      /\ {"login", "logout", "login_field"} \subseteq Widget \ {"send"}
      /\ {"disconnect"} \subseteq Widget \ {"login", "logout"}
      /\ {"connect", "address"} \subseteq Widget \ {"login", "logout", "send"}
  BY DEF Widget
<1> HIDE DEF Neutral
<1>1. <<Text>> \in Seq(Neutral) /\ <<Text, Text>> \in Seq(Neutral) /\ <<>> \in Seq(Neutral)
  BY <1>0
<1>2. on_connect("success") \in Seq(Neutral)
  <2>1. on_connect("success") =
          <<Show("disconnect"), Disable("address"),
            IfDisabled("login"), Enable("login"), Enable("login_field"),
            IfDisabled("logout"), Enable("logout"), Enable("login_field"),
            Hide("connect"), Text>>
    BY Zenon DEF on_connect
  <2>2. /\ Show("disconnect") \in Neutral /\ Disable("address") \in Neutral
        /\ IfDisabled("login") \in Neutral /\ Enable("login") \in Neutral
        /\ Enable("login_field") \in Neutral /\ IfDisabled("logout") \in Neutral
        /\ Enable("logout") \in Neutral /\ Hide("connect") \in Neutral /\ Text \in Neutral
    BY <1>0, <1>w
  <2>3. <<Show("disconnect"), Disable("address"),
          IfDisabled("login"), Enable("login"), Enable("login_field"),
          IfDisabled("logout"), Enable("logout"), Enable("login_field"),
          Hide("connect"), Text>> \in Seq(Neutral)
    BY <2>2
  <2> QED
    BY <2>1, <2>3, Zenon
<1>3. on_connect("pending") \in Seq(Neutral)
  <2>1. on_connect("pending") = <<Disable("address"), Disable("connect"), Text>>
    BY Zenon DEF on_connect
  <2>2. <<Disable("address"), Disable("connect"), Text>> \in Seq(Neutral)
    BY <1>0, <1>w
  <2> QED
    BY <2>1, <2>2, Zenon
<1>4. on_login("failed") \in Seq(Neutral)
  <2>1. on_login("failed") = <<Text>>
    BY DEF on_login
  <2> QED
    BY <1>1, <2>1, Zenon
<1>5. on_logout("failed") \in Seq(Neutral)
  <2>1. on_logout("failed") = <<Text>>
    BY Zenon DEF on_logout
  <2> QED
    BY <1>1, <2>1, Zenon
<1>6. on_logout("pending") \in Seq(Neutral \cup {Disable("logout")})
  <2>1. on_logout("pending") = <<Disable("logout"), Text>>
    BY Zenon DEF on_logout
  <2>2. <<Disable("logout"), Text>> \in Seq(Neutral \cup {Disable("logout")})
    BY <1>0
  <2> QED
    BY <2>1, <2>2, Zenon
<1>7. \A st \in {"success", "pending", "failed"} : on_send(st) \in Seq(Neutral)
  BY <1>1, Zenon DEF on_send
<1> QED
  BY <1>1, <1>2, <1>3, <1>4, <1>5, <1>6, <1>7 DEF on_recv

\* The calls of a logout, one by one.
LEMMA LogoutCalls ==
  LET s == on_logout("success") IN
  /\ s \in Seq(Steady) /\ Len(s) = 6
  /\ s[1] = Show("login") /\ s[2] = Enable("login_field") /\ s[3] = Hide("logout")
  /\ s[4] = Disable("send") /\ s[5] = Disable("input_field") /\ s[6] = Text
<1> DEFINE s == <<Show("login"), Enable("login_field"), Hide("logout"), Disable("send"),
                  Disable("input_field"), Text>>
<1>1. on_logout("success") = s
  BY Zenon DEF on_logout
<1>2. on_logout("success") \in Seq(Steady)
  BY CallKinds
<1>3. /\ Len(s) = 6
      /\ s[1] = Show("login") /\ s[2] = Enable("login_field") /\ s[3] = Hide("logout")
      /\ s[4] = Disable("send") /\ s[5] = Disable("input_field") /\ s[6] = Text
  OBVIOUS
<1> HIDE DEF s
<1> QED
  BY <1>1, <1>2, <1>3

-----------------------------------------------------------------------------
(* Steps that leave the window open and the connection alive.               *)

\* What a click or the return of a callback changes: where the window's thread
\* is.  Nor does it matter here whether the server is held up by other clients.
Waits ==
  /\ UNCHANGED <<m_socket, handlerVars, netVars, ui_ops, workVars, windowVars, entry, issued,
                 answer, histVars>>
  /\ ui' = ui \/ ui_ops = <<>>
  /\ ui' = "login" => ui = "login" \/ Click("login")

\* The window's thread connects, sends, makes a call of its output or waits.
LEMMA UiWaits ==
  ASSUME AppInv, WindowInv, LinkInv, UiStep \/ User, ~closed', Live'
  PROVE  (\E found \in Resolve : ClickConnect(found)) \/ Sent \/ UiOutput \/ Waits
<1> USE DEF Waits, handlerVars, netVars, serverVars
<1>0. ~closed /\ (ui # "output" => ui_ops = <<>>)
  <2>1. ~closed
    BY ClosedStays DEF AppNext
  <2> QED
    BY <2>1 DEF WindowInv, OpenInv, Turns
<1>1. CASE Hello
  BY <1>0, <1>1 DEF Hello, SendBegin
<1>2. CASE UiReturn
  BY <1>2 DEF UiReturn, vars
<1>3. ASSUME NEW valid \in BOOLEAN, ClickLogin(valid) PROVE Waits
  BY <1>0, <1>3 DEF ClickLogin, SendBegin, Click, InLoop
<1>4. CASE ClickConnectAgain \/ ClickLogout \/ ClickSend
  BY <1>0, <1>4 DEF ClickConnectAgain, ClickLogout, ClickSend, SendBegin, Click, InLoop, vars
<1>5. ~SentNot
  BY DEF SentNot, SendFails, Live
<1>6. ~DisconnectStep
  BY DEF DisconnectStep, CloseSocket, Disconnected, Join, LinkInv, OpenSocket, Live
<1>7. \A e \in ConnectError : ~ClickConnectFails(e)
  BY DEF ClickConnectFails, ConnectFails, Live
<1>8. ~ClickDisconnect
  BY DEF ClickDisconnect, Shutdown, Live
<1>9. ~DestroyClient /\ ~CloseWindow
  BY <1>0 DEF DestroyClient, CloseWindow
<1> HIDE DEF Waits
<1> QED
  BY <1>1, <1>2, <1>3, <1>4, <1>5, <1>6, <1>7, <1>8, <1>9 DEF UiStep, User

\* What else happens while it is expected to follow the server: it was so
\* before, unless the connection is new.
LEMMA LiveSteps ==
  ASSUME AppInv, WindowInv, LinkInv, [AppNext]_app_vars, ~closed', Live'
  PROVE  \/ \E found \in Resolve : ClickConnect(found)
         \/ /\ ~closed /\ Live /\ (Follow' => Follow)
            /\ \/ Sent \/ UiOutput \/ Waits
               \/ HandlerStep
               \/ ServerHello \/ ServerLogin \/ ServerLogout \/ ServerMessage
               \/ ServerReply \/ ServerRelay
<1>0. ~closed
  BY ClosedStays
<1>1. CASE UiStep \/ User
  <2>1. CASE Sent
    <3>1. /\ Live /\ UNCHANGED refused
          /\ crossed' <=> crossed \/ (ui = "logout" /\ asked > 0)
      BY <2>1 DEF Sent, SendOk, Live
    <3> QED
      BY <1>0, <2>1, <3>1 DEF Follow
  <2>2. CASE UiOutput
    BY <1>0, <2>2 DEF UiOutput, vars, netVars, histVars, Live, Follow
  <2>3. CASE Waits
    BY <1>0, <2>3 DEF Waits, netVars, histVars, Live, Follow
  <2> QED
    BY <1>1, <2>1, <2>2, <2>3, UiWaits
<1>2. CASE HandlerStep
  <2>1. Live /\ UNCHANGED crossed /\ (Return \/ UNCHANGED refused)
    BY <1>2, HandlerLeaves DEF Live
  <2>2. CASE Return
    <3>1. refused' <=> refused \/ (incoming.cmd = "login" /\ incoming.status = "failed")
      BY <2>2 DEF Return
    <3> QED
      BY <1>0, <1>2, <2>1, <3>1 DEF Follow
  <2> QED
    BY <1>0, <1>2, <2>1, <2>2 DEF Follow
<1>3. CASE ChatServer
  <2>0. CASE ServerGoesOn
    <3>1. Waits
      BY <2>0 DEF ServerGoesOn, Waits, vars, uiVars
    <3>2. Live /\ (Follow' => Follow)
      BY <3>1 DEF Waits, netVars, histVars, windowVars, Live, Follow
    <3> QED
      BY <1>0, <3>1, <3>2
  <2>1. ~ServerLeaves
    BY DEF ServerLeaves, ServerClose, ServerReset, Live
  <2>2. ServerGoesOn \/ peer = "open"
    BY <1>3, <2>1 DEF ChatServer, ServerAnswer, ServerHello, ServerLogin, ServerLogout,
      ServerMessage, Reply, ServerRead, ServerReply, ServerRelay, ServerSend
  <2>3. UNCHANGED <<m_socket, crossed, refused>>
    BY <1>3, ServerLeavesClient DEF histVars
  <2> QED
    BY <1>0, <1>3, <2>0, <2>1, <2>2, <2>3 DEF ChatServer, ServerAnswer, Live, Follow
<1>4. CASE UNCHANGED app_vars
  <2>1. Waits
    BY <1>4 DEF Waits, app_vars, vars, appVars, uiVars, serverVars
  <2>2. Live /\ (Follow' => Follow)
    BY <2>1 DEF Waits, netVars, histVars, windowVars, Live, Follow
  <2> QED
    BY <1>0, <2>1, <2>2
<1> QED
  BY <1>1, <1>2, <1>3, <1>4 DEF AppNext

-----------------------------------------------------------------------------
(* Calls that tell the window, and calls that do not.                       *)

\* A neutral call leaves what is shown of the session as it is.
LEMMA NeutralKeeps ==
  ASSUME NEW op \in Neutral, Call(op)
  PROVE  /\ "login" \in shown' <=> "login" \in shown
         /\ "logout" \in shown' <=> "logout" \in shown
         /\ "send" \in enabled' <=> "send" \in enabled
         /\ "logout" \in enabled => "logout" \in enabled'
<1>1. /\ op.do = "show" => op.on \notin {"login", "logout"}
      /\ op.do = "hide" => op.on \notin {"login", "logout"}
      /\ op.do = "enable" => op.on # "send"
      /\ op.do = "disable" => op.on \notin {"send", "logout"}
  BY DEF Neutral, Telling, Calls, Ops, Show, Hide, Enable, Disable
<1> QED
  BY <1>1, CallDoes

\* A call of a login's output brings the window one step further, and takes back
\* nothing that a login has told.
LEMMA LoginTellsMore ==
  ASSUME NEW k \in 1 .. 7, Call(on_login("success")[k])
  PROVE  /\ ~Skips(on_login("success")[k])
         /\ LoginTold(k) => LoginTold(k + 1)'
         /\ \A j \in 1 .. 8 : LoginTold(j) => LoginTold(j)'
         /\ k = 2 \/ "logout" \in enabled => "logout" \in enabled'
<1> DEFINE s == on_login("success")
<1>1. /\ s[1] = Show("logout") /\ s[2] = Enable("logout") /\ s[3] = Disable("login_field")
      /\ s[4] = Hide("login") /\ s[5] = Enable("send") /\ s[6] = Enable("input_field")
      /\ s[7] = Text
  BY LoginCalls
<1> HIDE DEF s
<1>2. Call(s[k])
  BY DEF s
<1>3. \/ k = 1 /\ s[k] = Show("logout")
      \/ k = 2 /\ s[k] = Enable("logout")
      \/ k = 3 /\ s[k] = Disable("login_field")
      \/ k = 4 /\ s[k] = Hide("login")
      \/ k = 5 /\ s[k] = Enable("send")
      \/ k = 6 /\ s[k] = Enable("input_field")
      \/ k = 7 /\ s[k] = Text
  <2>1. k = 1 \/ k = 2 \/ k = 3 \/ k = 4 \/ k = 5 \/ k = 6 \/ k = 7
    OBVIOUS
  <2> QED
    BY <1>1, <2>1
<1>4. ~Skips(s[k])
  BY <1>3 DEF Skips, Show, Hide, Enable, Disable, Text
<1>5. /\ k = 1 \/ "logout" \in shown => "logout" \in shown'
      /\ k = 4 \/ "login" \notin shown => "login" \notin shown'
      /\ k = 5 \/ "send" \in enabled => "send" \in enabled'
      /\ k = 2 \/ "logout" \in enabled => "logout" \in enabled'
  BY <1>2, <1>3, CallDoes DEF Show, Hide, Enable, Disable, Text
<1>6. LoginTold(k) => LoginTold(k + 1)'
  BY <1>5 DEF LoginTold
<1>7. \A j \in 1 .. 8 : LoginTold(j) => LoginTold(j)'
  BY <1>5 DEF LoginTold
<1> QED
  BY <1>4, <1>5, <1>6, <1>7 DEF s

\* So does one of a logout's.
LEMMA LogoutTellsMore ==
  ASSUME NEW k \in 1 .. 6, Call(on_logout("success")[k])
  PROVE  /\ ~Skips(on_logout("success")[k])
         /\ LogoutTold(k) => LogoutTold(k + 1)'
         /\ "logout" \in enabled => "logout" \in enabled'
<1> DEFINE s == on_logout("success")
<1>1. /\ s[1] = Show("login") /\ s[2] = Enable("login_field") /\ s[3] = Hide("logout")
      /\ s[4] = Disable("send") /\ s[5] = Disable("input_field") /\ s[6] = Text
  BY LogoutCalls
<1> HIDE DEF s
<1>2. Call(s[k])
  BY DEF s
<1>3. \/ k = 1 /\ s[k] = Show("login")
      \/ k = 2 /\ s[k] = Enable("login_field")
      \/ k = 3 /\ s[k] = Hide("logout")
      \/ k = 4 /\ s[k] = Disable("send")
      \/ k = 5 /\ s[k] = Disable("input_field")
      \/ k = 6 /\ s[k] = Text
  <2>1. k = 1 \/ k = 2 \/ k = 3 \/ k = 4 \/ k = 5 \/ k = 6
    OBVIOUS
  <2> QED
    BY <1>1, <2>1
<1>4. ~Skips(s[k])
  BY <1>3 DEF Skips, Show, Hide, Enable, Disable, Text
<1>5. /\ k = 1 \/ "login" \in shown => "login" \in shown'
      /\ k = 3 \/ "logout" \notin shown => "logout" \notin shown'
      /\ k = 4 \/ "send" \notin enabled => "send" \notin enabled'
      /\ "logout" \in enabled => "logout" \in enabled'
  BY <1>2, <1>3, CallDoes DEF Show, Hide, Enable, Disable, Text
<1>6. LogoutTold(k) => LogoutTold(k + 1)'
  BY <1>5 DEF LogoutTold
<1> QED
  BY <1>4, <1>5, <1>6 DEF s

\* One call of either after the other.
LEMMA FromLogin ==
  LET s == on_login("success") IN
  /\ From(s, 1) = s /\ From(s, 8) = <<>>
  /\ \A k \in 1 .. 7 : /\ From(s, k) # <<>> /\ Head(From(s, k)) = s[k]
                       /\ ~Skips(s[k]) => Rest(From(s, k)) = From(s, k + 1)
<1> DEFINE s == on_login("success")
<1>1. s \in Seq(NoShow) /\ Len(s) = 7
  BY LoginCalls
<1> HIDE DEF s
<1>2. From(s, 1) = s
  BY <1>1, SubSeqFull DEF From
<1>3. From(s, 8) = <<>>
  <2>1. From(s, Len(s) + 1) = <<>>
    BY <1>1, FromLast
  <2>2. Len(s) + 1 = 8
    BY <1>1
  <2> QED
    BY <2>1, <2>2
<1>4. ASSUME NEW k \in 1 .. 7
      PROVE  /\ From(s, k) # <<>> /\ Head(From(s, k)) = s[k]
             /\ ~Skips(s[k]) => Rest(From(s, k)) = From(s, k + 1)
  <2>1. k \in 1 .. Len(s)
    BY <1>1
  <2> QED
    BY <1>1, <2>1, FromNext, RestFrom
<1> QED
  BY <1>2, <1>3, <1>4 DEF s

LEMMA FromLogout ==
  LET s == on_logout("success") IN
  /\ From(s, 1) = s /\ From(s, 7) = <<>>
  /\ \A k \in 1 .. 6 : /\ From(s, k) # <<>> /\ Head(From(s, k)) = s[k]
                       /\ ~Skips(s[k]) => Rest(From(s, k)) = From(s, k + 1)
<1> DEFINE s == on_logout("success")
<1>1. s \in Seq(Steady) /\ Len(s) = 6
  BY LogoutCalls
<1> HIDE DEF s
<1>2. From(s, 1) = s
  BY <1>1, SubSeqFull DEF From
<1>3. From(s, 7) = <<>>
  <2>1. From(s, Len(s) + 1) = <<>>
    BY <1>1, FromLast
  <2>2. Len(s) + 1 = 7
    BY <1>1
  <2> QED
    BY <2>1, <2>2
<1>4. ASSUME NEW k \in 1 .. 6
      PROVE  /\ From(s, k) # <<>> /\ Head(From(s, k)) = s[k]
             /\ ~Skips(s[k]) => Rest(From(s, k)) = From(s, k + 1)
  <2>1. k \in 1 .. Len(s)
    BY <1>1
  <2> QED
    BY <1>1, <2>1, FromNext, RestFrom
<1> QED
  BY <1>2, <1>3, <1>4 DEF s

\* With no call left to make, all is told.
LEMMA AllTold ==
  ASSUME ui_ops = <<>> \/ ui # "output"
  PROVE  /\ ShowsIn => ui_ops \in Seq(Neutral) /\ LoginTold(8)
         /\ ShowsOut => ui_ops \in Seq(Neutral) /\ LogoutTold(7)
<1>1. ASSUME ui_ops = <<>>, NEW k \in 1 .. 8, ui_ops = From(on_login("success"), k) PROVE k = 8
  BY <1>1, FromLogin
<1>2. ASSUME ui_ops = <<>>, NEW k \in 1 .. 7, ui_ops = From(on_logout("success"), k) PROVE k = 7
  BY <1>2, FromLogout
<1>3. <<>> \in Seq(Neutral)
  BY TellKinds
<1>4. ASSUME ShowsIn PROVE ui_ops \in Seq(Neutral) /\ LoginTold(8)
  BY <1>1, <1>3, <1>4 DEF ShowsIn
<1>5. ASSUME ShowsOut PROVE ui_ops \in Seq(Neutral) /\ LogoutTold(7)
  BY <1>2, <1>3, <1>5 DEF ShowsOut
<1> QED
  BY <1>4, <1>5

\* What is told stays told while neither the window nor the calls change.
LEMMA ToldStays ==
  ASSUME UNCHANGED <<shown, enabled, ui_ops>>, ui' = ui \/ ui_ops = <<>> \/ ui # "output"
  PROVE  (ShowsIn => ShowsIn') /\ (ShowsOut => ShowsOut')
<1>1. /\ \A k \in 1 .. 8 : LoginTold(k) => LoginTold(k)'
      /\ \A k \in 1 .. 7 : LogoutTold(k) => LogoutTold(k)'
  BY DEF LoginTold, LogoutTold
<1>2. 8 \in 1 .. 8 /\ 7 \in 1 .. 7
  OBVIOUS
<1>3. CASE ui' = ui
  BY <1>1, <1>2, <1>3 DEF ShowsIn, ShowsOut
<1>4. CASE ui_ops = <<>> \/ ui # "output"
  BY <1>1, <1>2, <1>4, AllTold DEF ShowsIn, ShowsOut
<1> QED
  BY <1>3, <1>4

\* The window's thread makes a call.
LEMMA UiTells ==
  ASSUME UiOutput
  PROVE  /\ ShowsIn => ShowsIn'
         /\ ShowsOut => ShowsOut'
         /\ (ShowsIn \/ ShowsOut) /\ "logout" \in enabled => "logout" \in enabled'
<1>1. /\ ui = "output" /\ ui' = ui /\ ui_ops # <<>> /\ Call(Head(ui_ops))
      /\ ui_ops' = Rest(ui_ops)
  BY DEF UiOutput
<1>2. ASSUME ui_ops \in Seq(Neutral)
      PROVE  /\ ui_ops' \in Seq(Neutral)
             /\ LoginTold(8) => LoginTold(8)'
             /\ LogoutTold(7) => LogoutTold(7)'
             /\ "logout" \in enabled => "logout" \in enabled'
  <2>1. Head(ui_ops) \in Neutral /\ ui_ops' \in Seq(Neutral)
    BY <1>1, <1>2, RestOf
  <2>2. /\ "login" \in shown' <=> "login" \in shown
        /\ "logout" \in shown' <=> "logout" \in shown
        /\ "send" \in enabled' <=> "send" \in enabled
        /\ "logout" \in enabled => "logout" \in enabled'
    BY <1>1, <2>1, NeutralKeeps
  <2> QED
    BY <2>1, <2>2 DEF LoginTold, LogoutTold
<1>3. ASSUME NEW k \in 1 .. 8, ui_ops = From(on_login("success"), k), LoginTold(k)
      PROVE  ShowsIn' /\ ("logout" \in enabled => "logout" \in enabled')
  <2>1. k \in 1 .. 7 /\ Head(ui_ops) = on_login("success")[k]
    <3>1. k # 8
      BY <1>1, <1>3, FromLogin
    <3>2. k \in 1 .. 7
      BY <3>1
    <3> QED
      BY <1>3, <3>2, FromLogin
  <2>2. /\ ~Skips(on_login("success")[k]) /\ LoginTold(k + 1)'
        /\ "logout" \in enabled => "logout" \in enabled'
    BY <1>1, <1>3, <2>1, LoginTellsMore
  <2>3. ui_ops' = From(on_login("success"), k + 1)
    BY <1>1, <1>3, <2>1, <2>2, FromLogin
  <2>4. k + 1 \in 1 .. 8
    BY <2>1
  <2> QED
    BY <1>1, <2>2, <2>3, <2>4 DEF ShowsIn
<1>4. ASSUME NEW k \in 1 .. 7, ui_ops = From(on_logout("success"), k), LogoutTold(k)
      PROVE  ShowsOut' /\ ("logout" \in enabled => "logout" \in enabled')
  <2>1. k \in 1 .. 6 /\ Head(ui_ops) = on_logout("success")[k]
    <3>1. k # 7
      BY <1>1, <1>4, FromLogout
    <3>2. k \in 1 .. 6
      BY <3>1
    <3> QED
      BY <1>4, <3>2, FromLogout
  <2>2. /\ ~Skips(on_logout("success")[k]) /\ LogoutTold(k + 1)'
        /\ "logout" \in enabled => "logout" \in enabled'
    BY <1>1, <1>4, <2>1, LogoutTellsMore
  <2>3. ui_ops' = From(on_logout("success"), k + 1)
    BY <1>1, <1>4, <2>1, <2>2, FromLogout
  <2>4. k + 1 \in 1 .. 7
    BY <2>1
  <2> QED
    BY <1>1, <2>2, <2>3, <2>4 DEF ShowsOut
<1>5. ASSUME ShowsIn PROVE ShowsIn' /\ ("logout" \in enabled => "logout" \in enabled')
  BY <1>2, <1>3, <1>5 DEF ShowsIn
<1>6. ASSUME ShowsOut PROVE ShowsOut' /\ ("logout" \in enabled => "logout" \in enabled')
  BY <1>2, <1>4, <1>6 DEF ShowsOut
<1> QED
  BY <1>5, <1>6

-----------------------------------------------------------------------------
(* The packet handlers.                                                     *)

\* A packet handler makes a call of the window: one of a login's, a neutral one,
\* or that of a logout's answer.
LEMMA HandlerTells ==
  ASSUME Tells, Output, ~closed
  PROVE  \/ /\ Granted(incoming)
            /\ \E k \in 1 .. 7 : /\ Call(on_login("success")[k])
                                 /\ h_ops' = From(on_login("success"), k + 1)
                                 /\ Follow /\ k > 2 => "logout" \in enabled
         \/ /\ ~Granted(incoming)
            /\ \E op \in Neutral : Call(op)
         \/ /\ ~Granted(incoming) /\ incoming.cmd = "logout"
            /\ Call(Disable("logout"))
<1>1. h_pc = "output" /\ h_ops # <<>> /\ Call(Head(h_ops)) /\ h_ops' = Rest(h_ops)
  BY DEF Output
<1>2. CASE Granted(incoming)
  <2>1. PICK k \in 1 .. 8 : /\ h_ops = From(on_login("success"), k)
                            /\ Follow /\ k > 2 => "logout" \in enabled
    BY <1>1, <1>2 DEF Tells
  <2>2. k \in 1 .. 7 /\ Head(h_ops) = on_login("success")[k]
    <3>1. k # 8
      BY <1>1, <2>1, FromLogin
    <3>2. k \in 1 .. 7
      BY <3>1
    <3> QED
      BY <2>1, <3>2, FromLogin
  <2>3. ~Skips(on_login("success")[k])
    BY <1>1, <2>2, LoginTellsMore
  <2>4. h_ops' = From(on_login("success"), k + 1)
    BY <1>1, <2>1, <2>2, <2>3, FromLogin
  <2> QED
    BY <1>1, <1>2, <2>1, <2>2, <2>4
<1>3. CASE ~Granted(incoming)
  <2>1. CASE incoming.cmd = "logout"
    <3>1. h_ops \in Seq(Neutral \cup {Disable("logout")})
      BY <1>1, <1>3, <2>1 DEF Tells
    <3>2. Head(h_ops) \in Neutral \cup {Disable("logout")}
      BY <1>1, <3>1, RestOf
    <3> QED
      BY <1>1, <1>3, <2>1, <3>2
  <2>2. CASE incoming.cmd # "logout"
    <3>1. h_ops \in Seq(Neutral)
      BY <1>1, <1>3, <2>2 DEF Tells
    <3>2. Head(h_ops) \in Neutral
      BY <1>1, <3>1, RestOf
    <3> QED
      BY <1>1, <1>3, <3>2
  <2> QED
    BY <2>1, <2>2
<1> QED
  BY <1>2, <1>3

\* Only that last one disables the logout button.
LEMMA LogoutStays ==
  ASSUME AppInv, WindowInv, LinkInv, Shows, Tells, [AppNext]_app_vars, Follow, Follow',
         "logout" \in enabled
  PROVE  "logout" \in enabled' \/ (Output /\ incoming.cmd = "logout")
<1>0. ~closed' /\ Live' /\ ~closed
  BY DEF Follow
<1>1. CASE UiOutput
  BY <1>1, UiTells DEF Shows
<1>2. CASE Sent \/ Waits \/ \E found \in Resolve : ClickConnect(found)
  BY <1>2 DEF Sent, Waits, ClickConnect, windowVars
<1>3. CASE Output
  <2>1. CASE \E k \in 1 .. 7 : Call(on_login("success")[k])
    BY <2>1, LoginTellsMore
  <2>2. CASE \E op \in Neutral : Call(op)
    BY <2>2, NeutralKeeps
  <2> QED
    BY <1>0, <1>3, <2>1, <2>2, HandlerTells
<1>4. CASE HandlerStep /\ ~Output
  BY <1>4 DEF HandlerStep, Handle, SetSession, Return, appVars, windowVars
<1>5. CASE ChatServer
  BY <1>5, ServerLeavesClient DEF windowVars
<1> QED
  BY <1>0, <1>1, <1>2, <1>3, <1>4, <1>5, LiveSteps DEF ChatServer, ServerAnswer

\* No connection is made while a handler is at work.
LEMMA WorkingFollows ==
  ASSUME AppInv, WindowInv, LinkInv, [AppNext]_app_vars, Follow', h_pc # "enter"
  PROVE  Follow
<1>1. ASSUME NEW found \in Resolve, ClickConnect(found) PROVE FALSE
  <2>1. m_status # "connected" /\ ui = "loop" /\ ~closed
    BY <1>1 DEF ClickConnect, Connected, Click, InLoop
  <2> QED
    BY <2>1, WorksConnected DEF WindowInv
<1> QED
  BY <1>1, LiveSteps DEF Follow

\* What a handler has to tell when it begins.
LEMMA TellsHandle ==
  ASSUME AppInv, Handle
  PROVE  Tells'
<1>1. pc = "dispatch" /\ incoming' = incoming /\ incoming \in Packet
  BY DEF Handle, vars, handlerVars, AppInv, HasPacket
<1> DEFINE ok == "status" \in DOMAIN incoming /\ incoming.status = "ok"
<1>2. /\ incoming.cmd = "hello" => h_ops' = on_connect("success")
      /\ incoming.cmd = "login" => h_ops' = on_login(IF ok THEN "success" ELSE "failed")
      /\ incoming.cmd = "logout" => h_ops' = on_logout(IF ok THEN "pending" ELSE "failed")
      /\ incoming.cmd = "message" => h_ops' = on_recv
      /\ incoming.cmd \notin {"hello", "login", "logout", "message"} =>
           h_ops' = on_send(IF ok THEN "success" ELSE "failed")
  <2>1. /\ "hello" # "login" /\ "hello" # "logout" /\ "hello" # "message"
        /\ "login" # "logout" /\ "login" # "message" /\ "logout" # "message"
    OBVIOUS
  <2>2. h_ops' = CASE incoming.cmd = "hello"   -> on_connect("success")
                   [] incoming.cmd = "login"   -> on_login(IF ok THEN "success" ELSE "failed")
                   [] incoming.cmd = "logout"  -> on_logout(IF ok THEN "pending" ELSE "failed")
                   [] incoming.cmd = "message" -> on_recv
                   [] OTHER -> on_send(IF ok THEN "success" ELSE "failed")
    BY DEF Handle
  <2> HIDE DEF ok
  <2> QED
    BY <2>1, <2>2, Zenon
<1>3. incoming.cmd = "login" => (Granted(incoming) <=> ok)
  BY <1>1, AppAssumption DEF AppPacket, Granted
<1> HIDE DEF ok
<1>4. CASE Granted(incoming)
  <2>1. h_ops' = on_login("success")
    BY <1>2, <1>3, <1>4 DEF Granted
  <2>2. h_ops' = From(on_login("success"), 1)
    BY <2>1, FromLogin
  <2>3. 1 \in 1 .. 8 /\ ~(1 > 2)
    OBVIOUS
  <2> QED
    BY <1>1, <1>4, <2>2, <2>3 DEF Tells
<1>5. CASE ~Granted(incoming)
  <2>1. CASE incoming.cmd = "logout"
    <3>1. h_ops' \in Seq(Neutral \cup {Disable("logout")})
      <4>1. \A q \in Seq(Neutral) : q \in Seq(Neutral \cup {Disable("logout")})
        BY SeqMonotonic
      <4>2. h_ops' = on_logout("pending") \/ h_ops' = on_logout("failed")
        BY <1>2, <2>1
      <4> QED
        BY <4>1, <4>2, TellKinds
    <3> QED
      BY <1>1, <1>5, <2>1, <3>1 DEF Tells
  <2>2. CASE incoming.cmd # "logout"
    <3>1. h_ops' \in Seq(Neutral)
      <4>1. \/ h_ops' = on_connect("success") \/ h_ops' = on_login("failed")
            \/ h_ops' = on_recv \/ h_ops' = on_send("success") \/ h_ops' = on_send("failed")
        BY <1>2, <1>3, <1>5, <2>2
      <4> QED
        BY <4>1, TellKinds
    <3> QED
      BY <1>1, <1>5, <2>2, <3>1 DEF Tells
  <2> QED
    BY <2>1, <2>2
<1> QED
  BY <1>4, <1>5

\* What the handlers have to tell, after any step.
LEMMA TellsStep ==
  ASSUME AppInv, WindowInv, LinkInv, ClosedLoop, Shows, Tells, [AppNext]_app_vars
  PROVE  Tells'
<1>1. CASE h_pc' = "enter"
  BY <1>1 DEF Tells
<1>2. CASE Handle
  BY <1>2, TellsHandle
<1>3. ASSUME h_pc # "enter", Output
      PROVE  Tells'
  <2>1. incoming' = incoming /\ h_pc' = h_pc /\ h_ops # <<>> /\ h_ops' = Rest(h_ops)
    BY <1>3 DEF Output, vars, handlerVars
  <2>2. CASE Granted(incoming)
    <3>1. PICK k \in 1 .. 8 : /\ h_ops = From(on_login("success"), k)
                              /\ Follow /\ k > 2 => "logout" \in enabled
      BY <1>3, <2>2 DEF Tells
    <3>2. k \in 1 .. 7
      <4>1. k # 8
        BY <2>1, <3>1, FromLogin
      <4> QED
        BY <4>1
    <3>3. ~Skips(on_login("success")[k])
      <4>1. k = 1 \/ k = 2 \/ k = 3 \/ k = 4 \/ k = 5 \/ k = 6 \/ k = 7
        BY <3>2
      <4> QED
        BY <4>1, LoginCalls DEF Skips, Show, Hide, Enable, Disable, Text
    <3>4. h_ops' = From(on_login("success"), k + 1) /\ k + 1 \in 1 .. 8
      BY <2>1, <3>1, <3>2, <3>3, FromLogin
    <3>5. ASSUME Follow', k + 1 > 2 PROVE "logout" \in enabled'
      <4>1. Follow /\ ~closed
        BY <1>3, <3>5, WorkingFollows DEF Follow
      <4>2. Call(on_login("success")[k])
        BY <1>3, <2>1, <3>1, <3>2, <4>1, FromLogin DEF Output
      <4>3. k = 2 \/ k > 2
        BY <3>2, <3>5
      <4> QED
        BY <3>1, <3>2, <4>1, <4>2, <4>3, LoginTellsMore
    <3> QED
      BY <2>1, <2>2, <3>4, <3>5 DEF Tells
  <2>3. CASE ~Granted(incoming)
    BY <1>3, <2>1, <2>3, RestOf DEF Tells
  <2> QED
    BY <2>2, <2>3
<1>4. ASSUME UNCHANGED <<h_pc, h_ops, incoming>>, h_pc # "enter", ~Output
      PROVE  Tells'
  <2>1. ASSUME Follow', Follow, "logout" \in enabled PROVE "logout" \in enabled'
    BY <1>4, <2>1, LogoutStays
  <2>2. Follow' => Follow
    BY <1>4, WorkingFollows
  <2> QED
    BY <1>4, <2>1, <2>2 DEF Tells
<1>5. CASE UiStep \/ User
  <2>1. UNCHANGED <<h_pc, h_ops>>
    BY <1>5, UserSteps DEF workVars
  <2>2. UNCHANGED incoming
    BY <1>5, UiNet DEF LeavesNet, Sent, SendOk, ClickConnect, Connected, handlerVars
  <2>3. CASE Output
    BY <1>1, <1>3, <2>1, <2>3
  <2> QED
    BY <1>1, <1>4, <2>1, <2>2, <2>3
<1>6. CASE Receive /\ UNCHANGED appVars
  <2>1. pc # "dispatch" /\ h_pc' = h_pc
    BY <1>6, ReceiveHandsOver DEF AppInv, appVars, workVars
  <2> QED
    BY <1>1, <2>1 DEF AppInv, AtWork
<1>7. CASE SetSession
  <2>1. UNCHANGED <<h_ops, incoming, enabled>> /\ h_pc # "enter"
    BY <1>7 DEF SetSession, vars, handlerVars, windowVars
  <2>2. Follow' => Follow
    BY <2>1, WorkingFollows
  <2> QED
    BY <2>1, <2>2 DEF Tells
<1>8. CASE Return
  BY <1>1, <1>8 DEF Return
<1>9. CASE Output
  BY <1>3, <1>9 DEF Output
<1>10. CASE ChatServer \/ UNCHANGED app_vars
  <2>1. UNCHANGED <<h_pc, h_ops, incoming>>
    BY <1>10, ServerLeavesClient DEF app_vars, vars, appVars, workVars, handlerVars
  <2> QED
    BY <1>1, <1>3, <1>4, <2>1
<1> QED
  BY <1>2, <1>5, <1>6, <1>7, <1>8, <1>9, <1>10 DEF AppNext, HandlerStep

-----------------------------------------------------------------------------
(* What the window shows.                                                   *)

\* The answer of a login that is being handled is counted.
LEMMA HandlingCounts ==
  ASSUME AppInv, Counted, Live, Handling
  PROVE  asked > 0
<1>1. /\ Upstream \in Nat /\ Logins(inbox) \in Nat /\ One(Handling) = 1
      /\ asked = InFlight
  BY Numbers DEF Counted, One
<1>2. PICK u \in Nat, d \in Nat : u = Upstream /\ d = Logins(inbox)
  BY <1>1, Zenon
<1>3. asked = u + (d + 1)
  BY <1>1, <1>2 DEF InFlight, Downstream
<1> QED
  BY <1>2, <1>3

\* The server's reading a packet does not change whether the user is in, once
\* all is done that is on its way.
LEMMA EnteredRead ==
  ASSUME AppInv, Counted, Alternates, asked' = asked,
         ServerHello \/ ServerLogin \/ ServerLogout \/ ServerMessage
  PROVE  Entered' <=> Entered
<1>1. CASE asked > 0
  BY <1>1 DEF Entered
<1>2. CASE ~(asked > 0)
  <2>1. asked = 0
    BY <1>2 DEF Counted
  <2>2. NoLogin(outbox)
    BY <2>1, NoneAsked
  <2>3. /\ outbox # <<>> /\ outbox' = Tail(outbox) /\ outbox \in Seq(Request)
        /\ Head(outbox).cmd = "logout" => entry' = Empty
        /\ Head(outbox).cmd \notin {"login", "logout"} => entry' = entry
    BY ServerReads DEF AppInv, ClientInv, ClientTypeOK
  <2>4. /\ Len(outbox) \in Nat \ {0} /\ Len(outbox') = Len(outbox) - 1
        /\ DOMAIN outbox = 1 .. Len(outbox) /\ Head(outbox) = outbox[1]
    BY <2>3, TailOf
  <2>5. Len(outbox) \in 1 .. Len(outbox) /\ 1 \in 1 .. Len(outbox)
    BY <2>4
  <2>6. Head(outbox).cmd # "login"
    BY <2>2, <2>4, <2>5 DEF NoLogin
  <2>7. LoggedOut(outbox, entry, Len(outbox)) <=> LoggedOut(outbox', entry', Len(outbox) - 1)
    BY <2>3, <2>5, <2>6, LoggedOutTail
  <2>8. Free <=> Free'
    BY <2>4, <2>7 DEF Free
  <2> QED
    BY <1>2, <2>8 DEF Entered
<1> QED
  BY <1>1, <1>2

\* A packet is sent.
LEMMA ShowsSent ==
  ASSUME AppInv, LinkInv, Counted, Shows, Sent, Follow, Follow'
  PROVE  Shows'
<1>1. /\ owner = "send" /\ ui' = "output" /\ UNCHANGED <<shown, enabled>> /\ peer = "open"
      /\ asked' = IF ui = "login" THEN asked + 1 ELSE asked
      /\ ui = "logout" => ~(asked > 0)
  BY DEF Sent, SendOk, windowVars, Follow, Live
<1>2. asked \in Nat /\ ui \in {"hello", "login", "logout", "message"}
  BY <1>1, SendsRequests DEF LinkInv, Counted
<1>3. /\ ui = "hello" => ui_ops' = on_connect("pending")
      /\ ui = "login" => ui_ops' = on_login("success")
      /\ ui = "logout" => ui_ops' = on_logout("success")
      /\ ui = "message" => ui_ops' = on_send("pending")
  <2>1. /\ "hello" # "login" /\ "hello" # "logout" /\ "hello" # "message"
        /\ "login" # "logout" /\ "login" # "message" /\ "logout" # "message"
    OBVIOUS
  <2> QED
    BY <2>1, Zenon DEF Sent
<1>4. CASE ui = "login"
  <2>1. asked = 0 /\ asked' = 1
    BY <1>1, <1>2, <1>4 DEF Shows
  <2>2. ui_ops' = From(on_login("success"), 1) /\ 1 \in 1 .. 8
    BY <1>3, <1>4, FromLogin
  <2>3. ShowsIn'
    BY <1>1, <2>2 DEF ShowsIn, LoginTold
  <2> QED
    BY <1>1, <2>1, <2>3 DEF Shows, Entered
<1>5. CASE ui = "logout"
  <2>1. asked' = 0 /\ Free'
    BY <1>1, <1>2, <1>5, SendFree
  <2>2. ui_ops' = From(on_logout("success"), 1) /\ 1 \in 1 .. 7
    BY <1>3, <1>5, FromLogout
  <2>3. ShowsOut'
    BY <1>1, <2>2 DEF ShowsOut, LogoutTold
  <2> QED
    BY <1>1, <2>1, <2>3 DEF Shows, Entered
<1>6. CASE ui \in {"hello", "message"}
  <2>1. asked' = asked /\ (Free' <=> Free)
    BY <1>1, <1>6, SendFree
  <2>2. ui_ops' \in Seq(Neutral)
    BY <1>3, <1>6, TellKinds
  <2>3. (ShowsIn => ShowsIn') /\ (ShowsOut => ShowsOut')
    <3>1. (ShowsIn => LoginTold(8)) /\ (ShowsOut => LogoutTold(7))
      BY <1>6, AllTold
    <3>2. (LoginTold(8) => LoginTold(8)') /\ (LogoutTold(7) => LogoutTold(7)')
      BY <1>1 DEF LoginTold, LogoutTold
    <3> QED
      BY <2>2, <3>1, <3>2 DEF ShowsIn, ShowsOut
  <2>4. Entered' <=> Entered
    BY <2>1 DEF Entered
  <2> QED
    BY <1>1, <2>1, <2>3, <2>4 DEF Shows
<1> QED
  BY <1>2, <1>4, <1>5, <1>6

\* A handler goes on or returns.
LEMMA ShowsHandler ==
  ASSUME AppInv, LinkInv, Counted, Shows, LogoutLater, Tells, HandlerStep, Follow, Follow'
  PROVE  Shows'
<1>1. UNCHANGED <<outbox, entry, ui, ui_ops>> /\ asked \in Nat /\ Live
  BY HandlerLeaves DEF uiVars, serverVars, Counted, Follow
<1>2. Free' <=> Free
  BY <1>1 DEF Free
<1>3. CASE Output
  <2>1. ~closed /\ asked' = asked
    BY <1>3 DEF Output, Follow
  <2>2. Entered' <=> Entered
    BY <1>2, <2>1 DEF Entered
  <2>3. ASSUME NEW op \in Neutral \cup {Disable("logout")}, Call(op)
        PROVE  (ShowsIn => ShowsIn') /\ (ShowsOut => ShowsOut')
    <3>1. /\ "login" \in shown' <=> "login" \in shown
          /\ "logout" \in shown' <=> "logout" \in shown
          /\ "send" \in enabled' <=> "send" \in enabled
      <4>1. CASE op \in Neutral
        BY <2>3, <4>1, NeutralKeeps
      <4>2. CASE op = Disable("logout")
        BY <2>3, <4>2, CallDoes DEF Disable
      <4> QED
        BY <4>1, <4>2
    <3>2. \A k \in 1 .. 8 : (LoginTold(k) => LoginTold(k)') /\ (LogoutTold(k) => LogoutTold(k)')
      BY <3>1 DEF LoginTold, LogoutTold
    <3>3. 7 \in 1 .. 8 /\ 8 \in 1 .. 8 /\ \A k \in 1 .. 7 : k \in 1 .. 8
      OBVIOUS
    <3> QED
      BY <1>1, <3>2, <3>3 DEF ShowsIn, ShowsOut
  <2>4. CASE Granted(incoming) /\ \E k \in 1 .. 7 : Call(on_login("success")[k])
    <3>1. Handling
      BY <1>3, <2>4 DEF Output, AppInv, AtWork, Handling, Granted
    <3>2. Entered
      BY <1>1, <3>1, HandlingCounts DEF Entered
    <3>3. \A j \in 1 .. 8 : LoginTold(j) => LoginTold(j)'
      BY <2>4, LoginTellsMore
    <3>4. 8 \in 1 .. 8
      OBVIOUS
    <3>5. ShowsIn => ShowsIn'
      BY <1>1, <3>3, <3>4 DEF ShowsIn
    <3> QED
      BY <1>1, <2>1, <2>2, <3>2, <3>5 DEF Shows
  <2>5. CASE \E op \in Neutral \cup {Disable("logout")} : Call(op)
    BY <1>1, <2>1, <2>2, <2>3, <2>5 DEF Shows
  <2> QED
    BY <1>3, <2>1, <2>4, <2>5, HandlerTells
<1>4. CASE Return /\ incoming.cmd = "login"
  <2>1. /\ pc = "dispatch" /\ incoming.status # "failed" /\ asked' = asked - 1
        /\ UNCHANGED <<shown, enabled>>
    BY <1>4 DEF Return, Dispatched, windowVars, Follow
  <2>2. Handling /\ incoming \in Packet
    BY <1>4, <2>1 DEF Handling, AppInv, HasPacket
  <2>3. Granted(incoming)
    BY <1>4, <2>1, <2>2, AppAssumption DEF AppPacket, Granted, Outcome
  <2>4. asked > 0 /\ asked <= 1
    BY <1>1, <2>2, HandlingCounts DEF Shows
  <2>5. asked' = 0
    BY <1>1, <2>1, <2>4
  <2>6. entry # Empty /\ NoLogout(outbox)
    BY <2>2, <2>3 DEF LogoutLater, Underway, Grants
  <2>7. ~Free
    <3>1. DOMAIN outbox = 1 .. Len(outbox)
      BY DEF AppInv, ClientInv, ClientTypeOK
    <3> QED
      BY <2>6, <3>1 DEF Free, LoggedOut, NoLogout
  <2>8. ShowsIn
    BY <2>4 DEF Shows, Entered
  <2>9. ShowsIn'
    BY <1>1, <2>1, <2>8, ToldStays
  <2> QED
    BY <1>2, <2>5, <2>7, <2>9 DEF Shows, Entered
<1>5. CASE ~Output /\ ~(Return /\ incoming.cmd = "login")
  <2>1. asked' = asked
    BY <1>5, HandlerLeaves DEF Return
  <2>2. UNCHANGED <<shown, enabled>>
    BY <1>5 DEF HandlerStep, Handle, SetSession, Return, appVars, windowVars
  <2>3. Entered' <=> Entered
    BY <1>2, <2>1 DEF Entered
  <2>4. (ShowsIn => ShowsIn') /\ (ShowsOut => ShowsOut')
    BY <1>1, <2>2, ToldStays
  <2> QED
    BY <1>1, <2>1, <2>3, <2>4 DEF Shows
<1> QED
  BY <1>3, <1>4, <1>5

\* The window shows what the user asked for last, after any step.
LEMMA ShowsStep ==
  ASSUME AppInv, WindowInv, LinkInv, Counted, ButtonInv, Shows, LogoutLater, Tells,
         [AppNext]_app_vars
  PROVE  Shows'
<1> SUFFICES ASSUME Follow' PROVE Shows'
  BY DEF Shows
<1>0. ~closed' /\ Live' /\ asked \in Nat
  BY DEF Follow, Counted
<1>1. ASSUME NEW found \in Resolve, ClickConnect(found) PROVE Shows'
  <2>1. /\ m_status # "connected" /\ ui = "loop" /\ ~closed /\ ui' = "connected"
        /\ UNCHANGED <<ui_ops, shown, enabled>>
        /\ asked' = 0 /\ outbox' = <<>> /\ entry' = Empty
    BY <1>1 DEF ClickConnect, Connected, NewConnection, Click, InLoop, windowVars
  <2>2. ui_ops = <<>> /\ Undone(15)
    BY <2>1, LoopIsUndone DEF WindowInv, OpenInv, Turns
  <2>3. LogoutTold(7)'
    BY <2>1, <2>2 DEF Undone, LogoutTold
  <2>4. ShowsOut'
    BY <2>1, <2>2, <2>3, TellKinds DEF ShowsOut
  <2>5. Free'
    <3>1. Len(outbox') = 0 /\ 1 .. 0 = {}
      BY <2>1
    <3> QED
      BY <2>1, <3>1 DEF Free, LoggedOut
  <2> QED
    BY <2>1, <2>4, <2>5 DEF Shows, Entered
<1>2. CASE Sent /\ Follow
  BY <1>2, ShowsSent
<1>3. CASE UiOutput /\ Follow
  <2>1. UNCHANGED <<outbox, entry, asked>> /\ ui' = "output"
    BY <1>3 DEF UiOutput, vars, netVars, serverVars, histVars
  <2>2. Entered' <=> Entered
    BY <2>1 DEF Entered, Free
  <2> QED
    BY <1>3, <2>1, <2>2, UiTells DEF Shows
<1>4. CASE Waits /\ Follow
  <2>1. UNCHANGED <<outbox, entry, asked, shown, enabled, ui_ops>> /\ (ui' = ui \/ ui_ops = <<>>)
    BY <1>4 DEF Waits, netVars, serverVars, histVars, windowVars
  <2>2. Entered' <=> Entered
    BY <2>1 DEF Entered, Free
  <2>3. (ShowsIn => ShowsIn') /\ (ShowsOut => ShowsOut')
    BY <2>1, ToldStays
  <2>4. ASSUME Click("login") PROVE asked = 0
    <3>1. ui # "output" /\ "login" \in shown
      BY <2>4 DEF Click, InLoop, Usable
    <3>2. ~ShowsIn
      BY <3>1, AllTold DEF LoginTold
    <3> QED
      BY <1>0, <1>4, <3>2 DEF Shows, Entered
  <2>5. ui' = "login" => asked = 0
    BY <1>4, <2>4 DEF Waits, Shows
  <2> QED
    BY <1>4, <2>1, <2>2, <2>3, <2>5 DEF Shows
<1>5. CASE HandlerStep /\ Follow
  BY <1>5, ShowsHandler
<1>6. CASE /\ ServerHello \/ ServerLogin \/ ServerLogout \/ ServerMessage
           /\ Follow
  <2>1. UNCHANGED <<ui, ui_ops, shown, enabled, asked>>
    BY <1>6, ServerLeavesClient DEF ChatServer, ServerAnswer, uiVars, windowVars, histVars
  <2>2. Entered' <=> Entered
    BY <1>6, <2>1, EnteredRead DEF ButtonInv
  <2>3. (ShowsIn => ShowsIn') /\ (ShowsOut => ShowsOut')
    BY <2>1, ToldStays
  <2> QED
    BY <1>6, <2>1, <2>2, <2>3 DEF Shows
<1>7. CASE (ServerReply \/ ServerRelay) /\ Follow
  <2>1. UNCHANGED <<ui, ui_ops, shown, enabled, asked, outbox, entry>>
    BY <1>7 DEF ServerReply, ServerRelay, ServerSend, appVars, uiVars, windowVars, histVars,
      serverVars
  <2>2. Entered' <=> Entered
    BY <2>1 DEF Entered, Free
  <2>3. (ShowsIn => ShowsIn') /\ (ShowsOut => ShowsOut')
    BY <2>1, ToldStays
  <2> QED
    BY <1>7, <2>1, <2>2, <2>3 DEF Shows
<1> QED
  BY <1>0, <1>1, <1>2, <1>3, <1>4, <1>5, <1>6, <1>7, LiveSteps

-----------------------------------------------------------------------------
(* Logins and logouts on their way.                                         *)

\* What the server sends and the handler thread does moves answers along.
LEMMA MovesAlong ==
  ASSUME AppInv, HandlerStep \/ ServerReply \/ ServerRelay
  PROVE  (Underway' => Underway) /\ (Grants' => Grants)
<1>0. inbox \in Seq(Packet) /\ answer \in Packet \cup {None}
  BY DEF AppInv, ClientInv, ClientTypeOK, DataOK
<1>1. CASE HandlerStep /\ ~RecvHeader
  <2>1. UNCHANGED <<inbox, answer>>
    BY <1>1, HandlerLeaves DEF HandlerStep, Receive, Loop, RecvNothing, RecvGarbage, RecvBody,
      RecvBodyLost, netVars, serverVars, Handle, SetSession, Output, Return, Dispatched, vars
  <2>2. Handling' => Handling /\ incoming' = incoming
    BY <1>1 DEF Handling, HandlerStep, Receive, Loop, RecvNothing, RecvGarbage, RecvBody,
      RecvBodyLost, Handle, SetSession, Output, Return, Dispatched, vars, handlerVars
  <2> QED
    BY <2>1, <2>2 DEF Underway, Grants, Answering, NoLogin
<1>2. CASE HandlerStep /\ RecvHeader
  <2>1. /\ UNCHANGED answer /\ incoming' = Head(inbox)
        /\ inbox # <<>> /\ inbox' = Tail(inbox)
    BY <1>2, HandlerLeaves DEF RecvHeader, serverVars
  <2>2. /\ Len(inbox) \in Nat /\ DOMAIN inbox = 1 .. Len(inbox) /\ 1 \in DOMAIN inbox
        /\ DOMAIN inbox' = 1 .. Len(inbox) - 1 /\ incoming' = inbox[1]
        /\ \A i \in 1 .. Len(inbox) - 1 : inbox'[i] = inbox[i + 1]
    BY <1>0, <2>1, TailOf
  <2>3. \A i \in DOMAIN inbox' : i + 1 \in DOMAIN inbox /\ inbox'[i] = inbox[i + 1]
    BY <2>2
  <2>4. Handling' => ~NoLogin(inbox)
    BY <2>2 DEF Handling, NoLogin
  <2>5. ~NoLogin(inbox)' => ~NoLogin(inbox)
    BY <2>3 DEF NoLogin
  <2>6. Granted(incoming') => \E i \in DOMAIN inbox : Granted(inbox[i])
    BY <2>2
  <2>7. (\E i \in DOMAIN inbox' : Granted(inbox'[i])) => \E i \in DOMAIN inbox : Granted(inbox[i])
    BY <2>3
  <2> QED
    BY <2>1, <2>4, <2>5, <2>6, <2>7 DEF Underway, Grants, Answering
<1>3. CASE ServerReply \/ ServerRelay
  <2>1. PICK p \in Packet : /\ inbox' = Append(inbox, p)
                            /\ \/ p = answer /\ answer # None /\ answer' = None
                               \/ p.cmd = "message" /\ answer' = answer
    <3>1. CASE ServerReply
      BY <1>0, <3>1 DEF ServerReply, ServerSend
    <3>2. CASE ServerRelay
      BY <3>2, Answers DEF ServerRelay, ServerSend, appVars, serverVars
    <3> QED
      BY <1>3, <3>1, <3>2
  <2>2. /\ Len(inbox) \in Nat /\ DOMAIN inbox = 1 .. Len(inbox)
        /\ DOMAIN inbox' = 1 .. Len(inbox) + 1
        /\ \A i \in 1 .. Len(inbox) : inbox'[i] = inbox[i]
        /\ inbox'[Len(inbox) + 1] = p
    BY <1>0, <2>1, AppendOf
  <2>3. \A i \in DOMAIN inbox' : \/ i \in DOMAIN inbox /\ inbox'[i] = inbox[i]
                                 \/ inbox'[i] = p
    BY <2>2
  <2>4. Handling' = Handling /\ incoming' = incoming
    BY <1>3, ServerLeavesClient DEF ChatServer, ServerAnswer, handlerVars, Handling
  <2>5. p.cmd = "login" => Answering /\ p = answer
    BY <2>1 DEF Answering
  <2>6. Answering' => Answering /\ answer' = answer
    BY <2>1 DEF Answering
  <2>7. ~NoLogin(inbox)' => ~NoLogin(inbox) \/ Answering
    BY <2>3, <2>5 DEF NoLogin
  <2>8. (\E i \in DOMAIN inbox' : Granted(inbox'[i])) =>
          (\E i \in DOMAIN inbox : Granted(inbox[i])) \/ (Answering /\ Granted(answer))
    BY <2>3, <2>5 DEF Granted
  <2> QED
    BY <2>4, <2>6, <2>7, <2>8 DEF Underway, Grants
<1> QED
  BY <1>1, <1>2, <1>3

\* A new connection has nothing on its way.
LEMMA NewIsEmpty ==
  ASSUME AppInv, NEW found \in Resolve, ClickConnect(found)
  PROVE  /\ outbox' = <<>> /\ DOMAIN outbox' = {} /\ inbox' = <<>> /\ DOMAIN inbox' = {}
         /\ answer' = None /\ entry' = Empty /\ asked' = 0 /\ greeted' = "none" /\ pc' = "loop"
         /\ UNCHANGED <<ui_ops, h_pc, h_ops, shown, enabled>>
         /\ ~Underway' /\ ~Grants'
<1>1. /\ outbox' = <<>> /\ inbox' = <<>> /\ answer' = None /\ entry' = Empty /\ asked' = 0
      /\ greeted' = "none" /\ pc' = "loop" /\ UNCHANGED <<ui_ops, h_pc, h_ops, shown, enabled>>
  BY DEF ClickConnect, Connected, NewConnection, workVars, windowVars
<1>2. DOMAIN outbox' = {} /\ DOMAIN inbox' = {}
  BY <1>1
<1>3. ~Answering' /\ ~Handling' /\ NoLogin(inbox)'
  BY <1>1, <1>2 DEF Answering, Handling, NoLogin
<1> QED
  BY <1>1, <1>2, <1>3 DEF Underway, Grants

\* What is sent comes after all that is on its way.
LEMMA LogoutLaterSent ==
  ASSUME AppInv, LinkInv, Counted, LogoutLater, Sent, Follow, Follow'
  PROVE  LogoutLater'
<1>1. /\ peer = "open" /\ UNCHANGED <<answer, inbox, entry, pc, incoming>>
      /\ ui = "logout" => ~(asked > 0)
  BY DEF Sent, SendOk, Follow, Live, serverVars, handlerVars
<1>2. /\ outbox' = Append(outbox, sending) /\ sending \in Request /\ ui = sending.cmd
      /\ outbox \in Seq(Request)
  BY <1>1, SendFree DEF AppInv, ClientInv, ClientTypeOK
<1>3. /\ Len(outbox) \in Nat /\ DOMAIN outbox = 1 .. Len(outbox)
      /\ Len(outbox') = Len(outbox) + 1 /\ DOMAIN outbox' = 1 .. Len(outbox) + 1
      /\ \A i \in 1 .. Len(outbox) : outbox'[i] = outbox[i]
      /\ outbox'[Len(outbox) + 1] = sending
  BY <1>2, AppendOf
<1>4. (Underway' <=> Underway) /\ (Grants' <=> Grants)
  BY <1>1 DEF Underway, Grants, Answering, Handling, NoLogin
<1>5. ui = "logout" => NoLogin(outbox) /\ ~Underway
  <2>1. ui = "logout" => asked = 0
    BY <1>1 DEF Counted
  <2> QED
    BY <2>1, NoneAsked DEF Underway
<1>6. ASSUME NEW i \in DOMAIN outbox', outbox'[i].cmd = "login",
             NEW j \in i + 1 .. Len(outbox')
      PROVE  outbox'[j].cmd # "logout"
  <2>1. i \in 1 .. Len(outbox) /\ outbox[i].cmd = "login"
    <3>1. i \in 1 .. Len(outbox)
      BY <1>3
    <3> QED
      BY <1>3, <1>6, <3>1
  <2>2. CASE j = Len(outbox) + 1
    BY <1>2, <1>3, <1>5, <2>1, <2>2 DEF NoLogin
  <2>3. CASE j # Len(outbox) + 1
    <3>1. j \in i + 1 .. Len(outbox) /\ j \in 1 .. Len(outbox)
      BY <1>3, <2>1, <2>3
    <3> QED
      BY <1>3, <2>1, <3>1 DEF LogoutLater
  <2> QED
    BY <2>2, <2>3
<1>7. ASSUME Underway' PROVE NoLogout(outbox')
  <2>1. NoLogout(outbox) /\ sending.cmd # "logout"
    BY <1>2, <1>4, <1>5, <1>7 DEF LogoutLater
  <2>2. \A i \in DOMAIN outbox' : \/ i \in DOMAIN outbox /\ outbox'[i] = outbox[i]
                                  \/ outbox'[i] = sending
    BY <1>3
  <2> QED
    BY <2>1, <2>2 DEF NoLogout
<1>8. Grants' => entry' # Empty
  BY <1>1, <1>4 DEF LogoutLater
<1> QED
  BY <1>6, <1>7, <1>8 DEF LogoutLater

\* What the server reads first it answers first.
LEMMA LogoutLaterRead ==
  ASSUME AppInv, Counted, ButtonInv, LogoutLater, Follow,
         ServerHello \/ ServerLogin \/ ServerLogout \/ ServerMessage
  PROVE  LogoutLater'
<1>1. /\ outbox # <<>> /\ outbox' = Tail(outbox) /\ UNCHANGED inbox /\ ~Answering
      /\ Answering' <=> Head(outbox).cmd = "login"
      /\ outbox \in Seq(Request)
  BY ServerReads DEF AppInv, ClientInv, ClientTypeOK, Answering
<1>2. UNCHANGED <<pc, incoming>>
  BY ServerLeavesClient DEF ChatServer, ServerAnswer, handlerVars
<1>3. /\ Len(outbox) \in Nat /\ DOMAIN outbox = 1 .. Len(outbox) /\ 1 \in DOMAIN outbox
      /\ Head(outbox) = outbox[1] /\ Len(outbox') = Len(outbox) - 1
      /\ DOMAIN outbox' = 1 .. Len(outbox) - 1
      /\ \A i \in 1 .. Len(outbox) - 1 : outbox'[i] = outbox[i + 1]
  BY <1>1, TailOf
<1>4. \A i \in DOMAIN outbox' : /\ i + 1 \in DOMAIN outbox /\ outbox'[i] = outbox[i + 1]
                                /\ i + 1 \in 1 + 1 .. Len(outbox)
  BY <1>3
<1>5. ASSUME NEW i \in DOMAIN outbox', outbox'[i].cmd = "login",
             NEW j \in i + 1 .. Len(outbox')
      PROVE  outbox'[j].cmd # "logout"
  <2>1. i + 1 \in DOMAIN outbox /\ outbox[i + 1].cmd = "login"
    BY <1>4, <1>5
  <2>2. j + 1 \in (i + 1) + 1 .. Len(outbox) /\ j \in DOMAIN outbox'
    BY <1>3
  <2>3. outbox[j + 1].cmd # "logout"
    BY <2>1, <2>2 DEF LogoutLater
  <2> QED
    BY <1>4, <2>2, <2>3
<1>6. ASSUME Underway' PROVE NoLogout(outbox')
  <2>1. CASE Head(outbox).cmd = "login"
    BY <1>3, <1>4, <2>1 DEF LogoutLater, NoLogout
  <2>2. CASE Head(outbox).cmd # "login"
    <3>1. Underway
      BY <1>1, <1>2, <1>6, <2>2 DEF Underway, NoLogin, Handling
    <3> QED
      BY <1>4, <3>1 DEF LogoutLater, NoLogout
  <2> QED
    BY <2>1, <2>2
<1>7. ASSUME Grants' PROVE entry' # Empty
  <2>1. CASE Answering' /\ Granted(answer')
    <3>1. Head(outbox).cmd = "login" /\ ServerLogin
      BY <1>1, <2>1, ServerReads
    <3> DEFINE ok == Head(outbox).valid /\ entry = Empty
               s  == IF ok THEN issued + 1 ELSE Empty
    <3>2. /\ answer' = [cmd |-> "login", status |-> IfOk(ok), session |-> s]
          /\ entry' = IF ok THEN s ELSE entry
          /\ s \in Session \cup {Empty}
      BY <3>1 DEF ServerLogin, Reply
    <3>3. answer'.status = IfOk(ok)
      BY <3>2
    <3>4. ok
      BY <2>1, <3>3 DEF Granted, IfOk
    <3>5. entry' = issued + 1
      BY <3>2, <3>4
    <3>6. issued + 1 # Empty
      <4>1. issued \in Nat
        BY DEF Counted
      <4> QED
        BY <4>1 DEF Empty
    <3> QED
      BY <3>5, <3>6
  <2>2. CASE ~(Answering' /\ Granted(answer'))
    <3>1. Grants /\ Underway
      BY <1>1, <1>2, <1>7, <2>2 DEF Grants, Underway, Handling, Granted, NoLogin
    <3>2. entry # Empty /\ NoLogout(outbox)
      BY <3>1 DEF LogoutLater
    <3>3. Head(outbox).cmd # "logout" /\ Head(outbox).cmd # "login"
      BY <1>1, <1>3, <3>2, LoginsWithout DEF NoLogout
    <3> QED
      BY <3>2, <3>3, ServerReads
  <2> QED
    BY <2>1, <2>2
<1> QED
  BY <1>5, <1>6, <1>7 DEF LogoutLater

\* No logout is read between a login and the end of its handler, after any
\* step.
LEMMA LogoutLaterStep ==
  ASSUME AppInv, WindowInv, LinkInv, Counted, ButtonInv, LogoutLater, [AppNext]_app_vars
  PROVE  LogoutLater'
<1> SUFFICES ASSUME Follow' PROVE LogoutLater'
  BY DEF LogoutLater
<1>0. ~closed' /\ Live'
  BY DEF Follow
<1>1. ASSUME NEW found \in Resolve, ClickConnect(found) PROVE LogoutLater'
  BY <1>1, NewIsEmpty DEF LogoutLater
<1>2. CASE (UiOutput \/ Waits) /\ Follow
  <2>1. UNCHANGED <<outbox, inbox, answer, entry, pc, incoming>>
    BY <1>2 DEF UiOutput, Waits, vars, netVars, handlerVars, serverVars
  <2>2. (Underway' <=> Underway) /\ (Grants' <=> Grants)
    BY <2>1 DEF Underway, Grants, Answering, Handling, NoLogin
  <2> QED
    BY <1>2, <2>1, <2>2 DEF LogoutLater
<1>3. CASE (HandlerStep \/ ServerReply \/ ServerRelay) /\ Follow
  <2>1. UNCHANGED <<outbox, entry>>
    BY <1>3, HandlerLeaves DEF ServerReply, ServerRelay, ServerSend, appVars, serverVars
  <2> QED
    BY <1>3, <2>1, MovesAlong DEF LogoutLater
<1> QED
  BY <1>0, <1>1, <1>2, <1>3, LiveSteps, LogoutLaterSent, LogoutLaterRead

\* While the server has a session the last answer on its way is none to a
\* logout, after any step.
LEMMA LogoutBeforeStep ==
  ASSUME AppInv, WindowInv, LinkInv, ButtonInv, LogoutBefore, [AppNext]_app_vars
  PROVE  LogoutBefore'
<1> SUFFICES ASSUME Follow', entry' # Empty PROVE LogoutBefore'
  BY DEF LogoutBefore
<1>0. /\ ~closed' /\ Live'
      /\ inbox \in Seq(Packet) /\ answer \in Packet \cup {None}
  BY DEF Follow, AppInv, ClientInv, ClientTypeOK, DataOK
<1>1. \A found \in Resolve : ~ClickConnect(found)
  BY NewIsEmpty
<1>2. CASE (Sent \/ UiOutput \/ Waits) /\ Follow
  <2>1. UNCHANGED <<inbox, answer, entry, pc, incoming>>
    BY <1>2 DEF Sent, SendOk, UiOutput, Waits, vars, netVars, handlerVars, serverVars
  <2>2. Answering' <=> Answering
    BY <2>1 DEF Answering
  <2> QED
    BY <1>2, <2>1, <2>2 DEF LogoutBefore, NoLogin
<1>3. CASE HandlerStep /\ ~RecvHeader /\ Follow
  <2>1. UNCHANGED <<inbox, answer, entry>>
    BY <1>3, HandlerLeaves DEF HandlerStep, Receive, Loop, RecvNothing, RecvGarbage, RecvBody,
      RecvBodyLost, netVars, serverVars, Handle, SetSession, Output, Return, Dispatched, vars
  <2>2. pc' \in {"body", "dispatch"} => pc \in {"body", "dispatch"} /\ incoming' = incoming
    BY <1>3 DEF HandlerStep, Receive, Loop, RecvNothing, RecvGarbage, RecvBody,
      RecvBodyLost, Handle, SetSession, Output, Return, Dispatched, vars, handlerVars
  <2>3. Answering' <=> Answering
    BY <2>1 DEF Answering
  <2> QED
    BY <1>3, <2>1, <2>2, <2>3 DEF LogoutBefore, NoLogin
<1>4. CASE HandlerStep /\ RecvHeader /\ Follow
  <2>1. /\ UNCHANGED <<answer, entry>> /\ incoming' = Head(inbox)
        /\ inbox # <<>> /\ inbox' = Tail(inbox)
    BY <1>4, HandlerLeaves DEF RecvHeader, serverVars
  <2>2. /\ Len(inbox) \in Nat /\ DOMAIN inbox = 1 .. Len(inbox) /\ 1 \in DOMAIN inbox
        /\ Len(inbox') = Len(inbox) - 1
        /\ DOMAIN inbox' = 1 .. Len(inbox) - 1 /\ incoming' = inbox[1]
        /\ \A i \in 1 .. Len(inbox) - 1 : inbox'[i] = inbox[i + 1]
    BY <1>0, <2>1, TailOf
  <2>3. Answering' <=> Answering
    BY <2>1 DEF Answering
  <2>4. \A i \in DOMAIN inbox : inbox[i].cmd = "logout" =>
          Answering \/ \E j \in i + 1 .. Len(inbox) : inbox[j].cmd = "login"
    BY <1>4, <2>1 DEF LogoutBefore
  <2>5. ASSUME NEW i \in DOMAIN inbox', inbox'[i].cmd = "logout", ~Answering
        PROVE  \E j \in i + 1 .. Len(inbox') : inbox'[j].cmd = "login"
    <3>1. i + 1 \in DOMAIN inbox /\ inbox[i + 1].cmd = "logout"
      <4>1. i + 1 \in DOMAIN inbox /\ inbox'[i] = inbox[i + 1]
        BY <2>2
      <4> QED
        BY <2>5, <4>1
    <3>2. PICK j \in (i + 1) + 1 .. Len(inbox) : inbox[j].cmd = "login"
      BY <2>4, <2>5, <3>1
    <3>3. j - 1 \in i + 1 .. Len(inbox') /\ j - 1 \in 1 .. Len(inbox) - 1 /\ (j - 1) + 1 = j
      BY <2>2
    <3>4. inbox'[j - 1] = inbox[j]
      BY <2>2, <3>3
    <3> QED
      BY <3>2, <3>3, <3>4
  <2>6. ASSUME incoming'.cmd = "logout", ~Answering PROVE ~NoLogin(inbox')
    <3>1. PICK j \in 1 + 1 .. Len(inbox) : inbox[j].cmd = "login"
      BY <2>2, <2>4, <2>6
    <3>2. j - 1 \in DOMAIN inbox' /\ j - 1 \in 1 .. Len(inbox) - 1 /\ (j - 1) + 1 = j
      BY <2>2
    <3>3. inbox'[j - 1] = inbox[j]
      BY <2>2, <3>2
    <3> QED
      BY <3>1, <3>2, <3>3 DEF NoLogin
  <2> QED
    BY <1>4, <2>1, <2>3, <2>5, <2>6 DEF LogoutBefore
<1>5. CASE /\ ServerHello \/ ServerLogin \/ ServerLogout \/ ServerMessage
           /\ Follow
  <2>1. /\ UNCHANGED inbox /\ answer = None
        /\ Answering' <=> Head(outbox).cmd = "login"
        /\ Head(outbox).cmd = "login" <=> ServerLogin
        /\ Head(outbox).cmd # "logout"
        /\ Head(outbox).cmd \notin {"login", "logout"} => entry' = entry
    BY <1>5, ServerReads
  <2>2. UNCHANGED <<pc, incoming>>
    BY <1>5, ServerLeavesClient DEF ChatServer, ServerAnswer, handlerVars
  <2>3. CASE ServerLogin
    BY <2>1, <2>3 DEF LogoutBefore, Answering
  <2>4. CASE ServerHello \/ ServerMessage
    <3>1. answer' # None => answer'.cmd # "logout"
      <4>1. CASE ServerHello
        BY <4>1 DEF ServerHello, Reply
      <4>2. CASE ServerMessage
        BY <4>2 DEF ServerMessage, Reply
      <4> QED
        BY <2>4, <4>1, <4>2
    <3>2. entry' = entry
      BY <2>4 DEF ServerHello, ServerMessage
    <3> QED
      BY <1>5, <2>1, <2>2, <3>1, <3>2 DEF LogoutBefore, Answering, NoLogin
  <2>5. ~ServerLogout
    BY <2>1 DEF ServerLogout
  <2> QED
    BY <1>5, <2>3, <2>4, <2>5
<1>6. CASE (ServerReply \/ ServerRelay) /\ Follow
  <2>1. PICK p \in Packet : /\ inbox' = Append(inbox, p) /\ entry' = entry
                            /\ \/ p = answer /\ answer # None /\ answer' = None
                               \/ p.cmd = "message" /\ answer' = answer
    <3>1. CASE ServerReply
      BY <1>0, <3>1 DEF ServerReply, ServerSend
    <3>2. CASE ServerRelay
      BY <3>2, Answers DEF ServerRelay, ServerSend, appVars, serverVars
    <3> QED
      BY <1>6, <3>1, <3>2
  <2>2. /\ Len(inbox) \in Nat /\ DOMAIN inbox = 1 .. Len(inbox)
        /\ Len(inbox') = Len(inbox) + 1 /\ DOMAIN inbox' = 1 .. Len(inbox) + 1
        /\ \A i \in 1 .. Len(inbox) : inbox'[i] = inbox[i]
        /\ inbox'[Len(inbox) + 1] = p
    BY <1>0, <2>1, AppendOf
  <2>3. UNCHANGED <<pc, incoming>>
    BY <1>6, ServerLeavesClient DEF ChatServer, ServerAnswer, handlerVars
  <2>4. /\ answer # None => answer.cmd # "logout"
        /\ \A i \in DOMAIN inbox : inbox[i].cmd = "logout" =>
             Answering \/ \E j \in i + 1 .. Len(inbox) : inbox[j].cmd = "login"
        /\ pc \in {"body", "dispatch"} /\ incoming.cmd = "logout" => Answering \/ ~NoLogin(inbox)
    BY <1>6, <2>1 DEF LogoutBefore
  <2>5. p.cmd # "logout" /\ (answer' # None => answer'.cmd # "logout")
    BY <2>1, <2>4
  <2>6. Answering => Answering' \/ p.cmd = "login"
    BY <2>1 DEF Answering
  <2>7. ASSUME NEW i \in DOMAIN inbox', inbox'[i].cmd = "logout", ~Answering'
        PROVE  \E j \in i + 1 .. Len(inbox') : inbox'[j].cmd = "login"
    <3>1. i # Len(inbox) + 1
      BY <2>2, <2>5, <2>7
    <3>2. i \in 1 .. Len(inbox)
      BY <2>2, <3>1
    <3>3. inbox[i].cmd = "logout"
      BY <2>2, <2>7, <3>2
    <3>4. CASE Answering
      <4>1. Len(inbox) + 1 \in i + 1 .. Len(inbox')
        BY <2>2, <3>2
      <4> QED
        BY <2>2, <2>6, <2>7, <3>4, <4>1
    <3>5. CASE ~Answering
      <4>1. PICK j \in i + 1 .. Len(inbox) : inbox[j].cmd = "login"
        BY <2>2, <2>4, <3>2, <3>3, <3>5
      <4>2. j \in i + 1 .. Len(inbox') /\ j \in 1 .. Len(inbox)
        BY <2>2, <3>2
      <4> QED
        BY <2>2, <4>1, <4>2
    <3> QED
      BY <3>4, <3>5
  <2>8. ~NoLogin(inbox) \/ (Answering /\ ~Answering') => ~NoLogin(inbox')
    <3>1. \A i \in DOMAIN inbox : i \in DOMAIN inbox' /\ inbox'[i] = inbox[i]
      BY <2>2
    <3>2. Len(inbox) + 1 \in DOMAIN inbox'
      BY <2>2
    <3> QED
      BY <2>2, <2>6, <3>1, <3>2 DEF NoLogin
  <2> QED
    BY <2>3, <2>4, <2>5, <2>7, <2>8 DEF LogoutBefore
<1> QED
  BY <1>0, <1>1, <1>2, <1>3, <1>4, <1>5, <1>6, LiveSteps

-----------------------------------------------------------------------------
(* The buttons for logging in and out.                                      *)

\* The logout button, after any step.
LEMMA LogoutButtonStep ==
  ASSUME AppInv, WindowInv, LinkInv, Counted, Shows, Tells, LogoutBefore, LogoutButton,
         [AppNext]_app_vars
  PROVE  LogoutButton'
<1> SUFFICES ASSUME Follow', entry' # Empty, asked' = 0 PROVE "logout" \in enabled'
  BY DEF LogoutButton
<1>0. ~closed' /\ Live' /\ asked \in Nat
  BY DEF Follow, Counted
<1>1. \A found \in Resolve : ~ClickConnect(found)
  BY NewIsEmpty
<1>2. Follow
  BY <1>0, <1>1, LiveSteps
<1>3. CASE entry # Empty /\ asked = 0
  <2>1. "logout" \in enabled
    BY <1>2, <1>3 DEF LogoutButton
  <2>2. ~(Output /\ incoming.cmd = "logout")
    <3>1. ASSUME Output, incoming.cmd = "logout" PROVE FALSE
      <4>1. pc = "dispatch"
        BY <3>1 DEF Output, AppInv, AtWork
      <4>2. Answering \/ ~NoLogin(inbox)
        BY <1>2, <1>3, <3>1, <4>1 DEF LogoutBefore
      <4> QED
        BY <1>3, <4>2, NoneAsked
    <3> QED
      BY <3>1
  <2> QED
    BY <1>2, <2>1, <2>2, LogoutStays
<1>4. CASE asked # 0
  <2>1. asked' # asked
    BY <1>4
  <2>2. CASE Return
    <3>1. /\ pc = "dispatch" /\ incoming.cmd = "login" /\ incoming.status # "failed"
          /\ h_pc = "output" /\ h_ops = <<>> /\ enabled' = enabled
      BY <2>1, <2>2 DEF Return, Dispatched, windowVars, Follow
    <3>2. incoming \in Packet
      BY <3>1 DEF AppInv, HasPacket
    <3>3. Granted(incoming)
      BY <3>1, <3>2, AppAssumption DEF AppPacket, Granted, Outcome
    <3>4. PICK k \in 1 .. 8 : /\ h_ops = From(on_login("success"), k)
                              /\ k > 2 => "logout" \in enabled
      BY <1>2, <3>1, <3>3 DEF Tells
    <3>5. k = 8
      BY <3>1, <3>4, FromLogin
    <3> QED
      BY <3>1, <3>4, <3>5
  <2>3. CASE Sent
    BY <1>0, <1>4, <2>3 DEF Sent
  <2>4. ~UiOutput /\ ~Waits
    BY <2>1 DEF UiOutput, Waits, histVars
  <2>5. ~(HandlerStep /\ ~Return)
    BY <2>1, HandlerLeaves
  <2>6. ~ChatServer
    BY <2>1, ServerLeavesClient DEF histVars
  <2> QED
    BY <1>0, <1>1, <2>2, <2>3, <2>4, <2>5, <2>6, LiveSteps DEF ChatServer, ServerAnswer
<1>5. CASE entry = Empty /\ asked = 0
  <2>1. entry' # entry
    BY <1>5
  <2>2. ~Sent /\ ~UiOutput /\ ~Waits
    BY <2>1 DEF Sent, UiOutput, Waits, serverVars
  <2>3. ~HandlerStep
    BY <2>1, HandlerLeaves DEF serverVars
  <2>4. ~ServerReply /\ ~ServerRelay
    BY <2>1 DEF ServerReply, ServerRelay, appVars, serverVars
  <2>5. ~(ServerHello \/ ServerLogin \/ ServerLogout \/ ServerMessage)
    <3>1. ASSUME ServerHello \/ ServerLogin \/ ServerLogout \/ ServerMessage PROVE FALSE
      <4>1. outbox # <<>> /\ Head(outbox).cmd = "login"
        BY <2>1, <3>1, ServerReads
      <4>2. 1 \in DOMAIN outbox /\ outbox[1].cmd = "login"
        BY <4>1, TailOf DEF AppInv, ClientInv, ClientTypeOK
      <4> QED
        BY <1>5, <4>2, NoneAsked DEF NoLogin
    <3> QED
      BY <3>1
  <2> QED
    BY <1>0, <1>1, <2>2, <2>3, <2>4, <2>5, LiveSteps
<1> QED
  BY <1>3, <1>4, <1>5

\* A call that is no disconnect's leaves the login button enabled.
LEMMA SteadyKeeps ==
  ASSUME NEW op \in Steady, Call(op), "login" \in enabled
  PROVE  "login" \in enabled'
<1>1. op.do # "disable" \/ op.on # "login"
  BY DEF Steady, Calls, Ops, Disable
<1> QED
  BY <1>1, CallDoes

\* The handler of a hello's answer enables the login button unless it is
\* enabled.
LEMMA GreetEnables ==
  ASSUME NEW k \in 1 .. 11, h_ops = From(on_connect("success"), k), h_ops # <<>>,
         Call(Head(h_ops)), k > 4 => "login" \in enabled
  PROVE  \E j \in 1 .. 11 : /\ Rest(h_ops) = From(on_connect("success"), j)
                            /\ j > 4 => "login" \in enabled'
<1> DEFINE s == on_connect("success")
<1>1. /\ s \in Seq(Ops) /\ Len(s) = 10
      /\ s[1] = Show("disconnect") /\ s[2] = Disable("address") /\ s[3] = IfDisabled("login")
      /\ s[4] = Enable("login") /\ s[5] = Enable("login_field")
      /\ s[6] = IfDisabled("logout") /\ s[7] = Enable("logout")
      /\ s[8] = Enable("login_field") /\ s[9] = Hide("connect") /\ s[10] = Text
  BY GreetingCalls
<1>2. h_ops = From(s, k)
  OBVIOUS
<1> HIDE DEF s
<1>3. k \in 1 .. 10
  <2>1. From(s, Len(s) + 1) = <<>>
    BY <1>1, FromLast
  <2>2. Len(s) + 1 = 11
    BY <1>1
  <2>3. k # 11
    BY <1>2, <2>1, <2>2
  <2> QED
    BY <2>3
<1>4. k \in 1 .. Len(s)
  BY <1>1, <1>3
<1>5. /\ Head(h_ops) = s[k]
      /\ ~Skips(s[k]) => Rest(h_ops) = From(s, k + 1)
      /\ Skips(s[k]) /\ k + 3 <= Len(s) + 1 => Rest(h_ops) = From(s, k + 3)
  BY <1>1, <1>2, <1>4, FromNext, RestFrom
<1>6. k = 1 \/ k = 2 \/ k = 3 \/ k = 4 \/ k = 5 \/ k = 6 \/ k = 7 \/ k = 8 \/ k = 9 \/ k = 10
  BY <1>3
<1>7. /\ k = 3 /\ Skips(s[k]) => "login" \in enabled
      /\ Skips(s[k]) => k = 3 \/ k = 6
      /\ s[k].do = "disable" => s[k].on # "login"
      /\ k = 4 => s[k].do = "enable" /\ s[k].on = "login"
  BY <1>1, <1>6 DEF Skips, Show, Hide, Enable, Disable, IfDisabled, Text
<1>8. k = 4 \/ "login" \in enabled => "login" \in enabled'
  BY <1>5, <1>7, CallDoes
<1>9. CASE Skips(s[k])
  <2>1. k + 3 <= Len(s) + 1 /\ k + 3 \in 1 .. 11
    BY <1>1, <1>7, <1>9
  <2>2. "login" \in enabled'
    BY <1>7, <1>8, <1>9
  <2> QED
    BY <1>5, <1>9, <2>1, <2>2 DEF s
<1>10. CASE ~Skips(s[k])
  <2>1. k + 1 \in 1 .. 11 /\ (k + 1 > 4 => k = 4 \/ k > 4)
    BY <1>3
  <2> QED
    BY <1>5, <1>8, <1>10, <2>1 DEF s
<1> QED
  BY <1>9, <1>10

\* The calls that the window's thread has to make, with a connection.
LEMMA SteadyCalls ==
  ASSUME AppInv, WindowInv, LinkInv, LoginEnabled, [AppNext]_app_vars, ~closed', Live'
  PROVE  ui_ops' \in Seq(Steady)
<1>n. \A q \in Seq(NoShow) : q \in Seq(Steady)
  BY SeqMonotonic DEF NoShow
<1>1. ASSUME NEW found \in Resolve, ClickConnect(found) PROVE ui_ops' = <<>>
  BY <1>1 DEF ClickConnect, Click, InLoop, WindowInv, OpenInv, Turns
<1>2. <<>> \in Seq(Steady)
  BY <1>n, CallKinds
<1>3. CASE Sent
  <2>1. ui \in {"hello", "login", "logout", "message"}
    BY <1>3, SendsRequests DEF LinkInv, Sent, SendOk
  <2>2. \/ ui_ops' = on_connect("pending") \/ ui_ops' = on_login("success")
        \/ ui_ops' = on_logout("success") \/ ui_ops' = on_send("pending")
    BY <1>3, <2>1, Zenon DEF Sent
  <2> QED
    BY <1>n, <2>2, CallKinds
<1>4. CASE UiOutput /\ ~closed /\ Live
  <2>1. ui_ops # <<>> /\ ui_ops' = Rest(ui_ops) /\ ui_ops \in Seq(Steady)
    BY <1>4 DEF UiOutput, LoginEnabled
  <2> QED
    BY <2>1, RestOf
<1>5. CASE /\ ~closed /\ Live
           /\ \/ Waits \/ HandlerStep \/ ServerReply \/ ServerRelay
              \/ ServerHello \/ ServerLogin \/ ServerLogout \/ ServerMessage
  <2>1. ui_ops' = ui_ops
    BY <1>5, HandlerLeaves, ServerLeavesClient DEF Waits, uiVars, ChatServer, ServerAnswer
  <2> QED
    BY <1>5, <2>1 DEF LoginEnabled
<1> QED
  BY <1>1, <1>2, <1>3, <1>4, <1>5, LiveSteps

\* The login button, after any step.
LEMMA LoginEnabledStep ==
  ASSUME AppInv, WindowInv, LinkInv, HandlerCalls, LoginEnabled, [AppNext]_app_vars
  PROVE  LoginEnabled'
<1> SUFFICES ASSUME ~closed', Live'
             PROVE  /\ ui_ops' \in Seq(Steady)
                    /\ greeted' = "answered" => "login" \in enabled'
                    /\ Greeting' => \E k \in 1 .. 11 :
                                      /\ h_ops' = From(on_connect("success"), k)
                                      /\ k > 4 => "login" \in enabled'
  BY DEF LoginEnabled
<1>1. ui_ops' \in Seq(Steady)
  BY SteadyCalls
<1>2. ASSUME NEW found \in Resolve, ClickConnect(found)
      PROVE  greeted' # "answered" /\ ~Greeting'
  <2>1. m_status # "connected" /\ ui = "loop" /\ ~closed
    BY <1>2 DEF ClickConnect, Connected, Click, InLoop
  <2>2. h_pc = "enter"
    BY <2>1, WorksConnected DEF WindowInv
  <2> QED
    BY <1>2, <2>2, NewIsEmpty DEF Greeting
<1>3. ASSUME ~closed, Live
      PROVE  /\ ui_ops \in Seq(Steady)
             /\ greeted = "answered" => "login" \in enabled
             /\ Greeting => \E k \in 1 .. 11 : /\ h_ops = From(on_connect("success"), k)
                                               /\ k > 4 => "login" \in enabled
  BY <1>3 DEF LoginEnabled
<1>4. CASE /\ ~closed /\ Live
           /\ \/ Sent \/ UiOutput \/ Waits \/ ServerReply \/ ServerRelay
              \/ ServerHello \/ ServerLogin \/ ServerLogout \/ ServerMessage
  <2>1. UNCHANGED <<h_pc, h_ops, incoming>> /\ (greeted' = "answered" => greeted = "answered")
    BY <1>4, ServerLeavesClient DEF ChatServer, ServerAnswer, Sent, SendOk, UiOutput, Waits,
      vars, handlerVars, workVars, histVars
  <2>2. "login" \in enabled => "login" \in enabled'
    <3>1. CASE UiOutput
      <4>1. ui_ops # <<>> /\ Call(Head(ui_ops))
        BY <3>1 DEF UiOutput
      <4>2. Head(ui_ops) \in Steady
        BY <1>3, <1>4, <4>1, RestOf
      <4> QED
        BY <4>1, <4>2, SteadyKeeps
    <3>2. CASE ~UiOutput
      BY <1>4, <3>2, ServerLeavesClient DEF ChatServer, ServerAnswer, Sent, Waits, windowVars
    <3> QED
      BY <3>1, <3>2
  <2>3. Greeting' <=> Greeting
    BY <2>1 DEF Greeting
  <2> QED
    BY <1>1, <1>3, <1>4, <2>1, <2>2, <2>3
<1>5. CASE HandlerStep /\ ~closed /\ Live
  <2>1. CASE Receive /\ UNCHANGED appVars
    <3>1. pc # "dispatch"
      BY <2>1, ReceiveHandsOver DEF AppInv
    <3>2. h_pc' = "enter" /\ UNCHANGED <<greeted, enabled>>
      BY <2>1, <3>1 DEF AppInv, AtWork, appVars, workVars, windowVars, histVars
    <3> QED
      BY <1>1, <1>3, <1>5, <3>2 DEF Greeting
  <2>2. CASE Handle
    <3>1. UNCHANGED <<greeted, enabled, incoming>>
      BY <2>2 DEF Handle, vars, handlerVars, windowVars, histVars
    <3>2. incoming.cmd = "hello" => h_ops' = on_connect("success")
      BY <2>2, Zenon DEF Handle
    <3>3. From(on_connect("success"), 1) = on_connect("success")
      BY GreetingCalls, SubSeqFull DEF From
    <3>4. 1 \in 1 .. 11 /\ ~(1 > 4)
      OBVIOUS
    <3>5. Greeting' => h_ops' = From(on_connect("success"), 1)
      BY <3>1, <3>2, <3>3 DEF Greeting
    <3> QED
      BY <1>1, <1>3, <1>5, <3>1, <3>4, <3>5
  <2>3. CASE SetSession
    <3>1. UNCHANGED <<greeted, enabled, incoming>> /\ incoming.cmd = "login"
      BY <2>3 DEF SetSession, vars, handlerVars, windowVars, histVars, AppInv, AtWork
    <3> QED
      BY <1>1, <1>3, <1>5, <3>1 DEF Greeting
  <2>4. CASE Output
    <3>1. /\ UNCHANGED <<greeted, incoming, h_pc>> /\ h_ops # <<>> /\ Call(Head(h_ops))
          /\ h_ops' = Rest(h_ops)
      BY <1>5, <2>4 DEF Output, vars, handlerVars
    <3>2. Head(h_ops) \in Steady
      BY <3>1, RestOf DEF HandlerCalls, NoShow
    <3>3. "login" \in enabled => "login" \in enabled'
      BY <3>1, <3>2, SteadyKeeps
    <3>4. ASSUME Greeting
          PROVE  \E k \in 1 .. 11 : /\ h_ops' = From(on_connect("success"), k)
                                    /\ k > 4 => "login" \in enabled'
      <4>1. PICK k \in 1 .. 11 : /\ h_ops = From(on_connect("success"), k)
                                 /\ k > 4 => "login" \in enabled
        BY <1>3, <1>5, <3>4
      <4> QED
        BY <3>1, <4>1, GreetEnables
    <3> QED
      BY <1>1, <1>3, <1>5, <3>1, <3>3, <3>4 DEF Greeting
  <2>5. CASE Return
    <3>1. /\ h_pc = "output" /\ h_ops = <<>> /\ h_pc' = "enter" /\ UNCHANGED enabled
          /\ greeted' = IF incoming.cmd = "hello" THEN "answered" ELSE greeted
      BY <2>5 DEF Return, windowVars
    <3>2. incoming.cmd = "hello" => "login" \in enabled
      <4>1. ASSUME incoming.cmd = "hello" PROVE "login" \in enabled
        <5>1. PICK k \in 1 .. 11 : /\ <<>> = From(on_connect("success"), k)
                                   /\ k > 4 => "login" \in enabled
          BY <1>3, <1>5, <3>1, <4>1 DEF Greeting
        <5>2. k > 4
          <6>1. on_connect("success") \in Seq(Ops) /\ Len(on_connect("success")) = 10
            BY GreetingCalls
          <6>2. \A j \in 1 .. Len(on_connect("success")) : From(on_connect("success"), j) # <<>>
            BY <6>1, FromNext
          <6>3. k \notin 1 .. 10
            BY <5>1, <6>1, <6>2
          <6> QED
            BY <6>3
        <5> QED
          BY <5>1, <5>2
      <4> QED
        BY <4>1
    <3> QED
      BY <1>1, <1>3, <1>5, <3>1, <3>2 DEF Greeting
  <2> QED
    BY <1>5, <2>1, <2>2, <2>3, <2>4, <2>5 DEF HandlerStep
<1> QED
  BY <1>1, <1>2, <1>4, <1>5, LiveSteps

\* The send button, after any step.
LEMMA SendShownStep ==
  ASSUME AppInv, HandlerCalls, WindowTypes, SendShown, [AppNext]_app_vars
  PROVE  SendShown'
<1>1. ASSUME NEW op \in Calls, Call(op) PROVE SendShown'
  <2>1. op.do # "hide" \/ op.on # "send"
    BY DEF Calls, Ops, Hide
  <2> QED
    BY <1>1, <2>1, CallDoes DEF SendShown
<1>2. CASE UiOutput
  BY <1>1, <1>2, RestOf DEF UiOutput, WindowTypes
<1>3. CASE Output
  <2>1. h_ops # <<>> /\ (Call(Head(h_ops)) \/ UNCHANGED shown)
    BY <1>3 DEF Output
  <2>2. Head(h_ops) \in Calls
    BY <2>1, RestOf DEF HandlerCalls, NoShow, Steady
  <2> QED
    BY <1>1, <2>1, <2>2 DEF SendShown
<1>4. ASSUME ~UiOutput, ~Output PROVE shown' = shown
  <2>1. CASE UiStep
    BY <1>4, <2>1 DEF UiStep, Hello, Sent, SentNot, DisconnectStep, UiReturn, DestroyClient,
      appVars, windowVars
  <2>2. CASE User
    BY <1>4, <2>2 DEF User, ClickConnectFails, ClickConnect, ClickConnectAgain, ClickLogin,
      ClickLogout, ClickSend, ClickDisconnect, CloseWindow, windowVars
  <2>3. CASE HandlerStep
    BY <1>4, <2>3 DEF HandlerStep, Handle, SetSession, Return, appVars, windowVars
  <2>4. CASE ChatServer
    BY <2>4, ServerLeavesClient DEF windowVars
  <2>5. CASE UNCHANGED app_vars
    BY <2>5 DEF app_vars, appVars, windowVars
  <2> QED
    BY <2>1, <2>2, <2>3, <2>4, <2>5 DEF AppNext
<1> QED
  BY <1>2, <1>3, <1>4 DEF SendShown

-----------------------------------------------------------------------------
(* The theorem.                                                             *)

LEMMA FollowInit == AppInit => FollowInv
<1> SUFFICES ASSUME AppInit PROVE FollowInv
  OBVIOUS
<1>1. ~Live /\ h_pc = "enter" /\ "send" \in shown
  BY DEF AppInit, ClientInit, Live, Widget
<1>2. ~Follow
  BY <1>1 DEF Follow
<1> QED
  BY <1>1, <1>2 DEF FollowInv, Shows, LogoutLater, LogoutBefore, Tells, LogoutButton,
    LoginEnabled, SendShown

LEMMA FollowInvariant ==
  AppSpec => [](AppInv /\ WindowInv /\ SessionInv /\ WindowTypes /\ FollowInv)
<1>1. AppInit => WindowTypes /\ FollowInv
  BY TypesInit, FollowInit
<1>2. /\ AppInv /\ WindowInv /\ SessionInv /\ WindowTypes /\ FollowInv
      /\ [AppNext]_app_vars
      => WindowTypes' /\ FollowInv'
  <2> SUFFICES ASSUME AppInv, WindowInv, SessionInv, WindowTypes, FollowInv,
                      [AppNext]_app_vars
               PROVE  WindowTypes' /\ FollowInv'
    OBVIOUS
  <2>1. LinkInv /\ Counted /\ ButtonInv /\ HandlerCalls /\ ClosedLoop
    BY DEF SessionInv, ButtonInv
  <2>2. /\ Shows /\ LogoutLater /\ LogoutBefore /\ Tells /\ LogoutButton /\ LoginEnabled
        /\ SendShown
    BY DEF FollowInv
  <2>3. Shows' /\ LogoutLater' /\ Tells'
    BY <2>1, <2>2, ShowsStep, LogoutLaterStep, TellsStep
  <2>4. LogoutBefore' /\ LogoutButton'
    BY <2>1, <2>2, LogoutBeforeStep, LogoutButtonStep
  <2>5. WindowTypes' /\ LoginEnabled' /\ SendShown'
    BY <2>1, <2>2, WindowTypesStep, LoginEnabledStep, SendShownStep
  <2> QED
    BY <2>3, <2>4, <2>5 DEF FollowInv
<1> QED
  BY <1>1, <1>2, SessionInvariant, PTL DEF AppSpec

\* Once all answers are in, the window agrees with the server, although
\* on_login and on_logout tell it that the request was done when it was sent and
\* the handlers of the answers tell it again, each from its own thread: unless a
\* login of the connection was refused or the user logged out before a login was
\* answered, exactly one login is on its way at a time, its answer is handled
\* before another logout is read, and the answer to an earlier logout before it.
THEOREM WindowAgrees == AppSpec => []WindowFollowsServer
<1>1. AppInv /\ SessionInv /\ FollowInv => WindowFollowsServer
  <2> SUFFICES ASSUME AppInv, SessionInv, FollowInv, Settled, ~refused, ~crossed
               PROVE  IF entry # Empty
                      THEN Usable("logout") /\ Usable("send") /\ ~Usable("login")
                      ELSE Usable("login") /\ ~Usable("logout") /\ ~Usable("send")
    BY DEF WindowFollowsServer
  <2>1. /\ ~closed /\ Live /\ ui = "loop" /\ greeted = "answered"
        /\ inbox = <<>> /\ outbox = <<>> /\ answer = None /\ pc \in {"loop", "header"}
    BY DEF Settled, Quiet, InLoop, Live
  <2>2. Follow
    BY <2>1 DEF Follow
  <2>3. asked = 0
    <3>1. Logins(outbox) = 0 /\ Logins(inbox) = 0
      BY <2>1, LoginsEmpty
    <3>2. One(Answering) = 0 /\ One(Handling) = 0
      BY <2>1 DEF Answering, Handling, One
    <3>3. asked = (0 + 0) + (0 + 0)
      BY <2>1, <3>1, <3>2 DEF SessionInv, Counted, InFlight, Upstream, Downstream
    <3> QED
      BY <3>3
  <2>4. Free <=> entry = Empty
    <3>1. Len(outbox) = 0 /\ 1 .. 0 = {}
      BY <2>1
    <3> QED
      BY <3>1 DEF Free, LoggedOut
  <2>5. Entered <=> entry # Empty
    BY <2>3, <2>4 DEF Entered
  <2>6. IF entry # Empty THEN LoginTold(8) ELSE LogoutTold(7)
    <3>1. IF entry # Empty THEN ShowsIn ELSE ShowsOut
      BY <2>2, <2>5 DEF FollowInv, Shows
    <3> QED
      BY <2>1, <3>1, AllTold
  <2>7. /\ "send" \in shown /\ "login" \in enabled
        /\ entry # Empty => "logout" \in enabled
    BY <2>1, <2>2, <2>3 DEF FollowInv, SendShown, LoginEnabled, LogoutButton
  <2> QED
    BY <2>6, <2>7 DEF LoginTold, LogoutTold, Usable
<1> QED
  BY <1>1, FollowInvariant, PTL
=============================================================================
