------------------------------ MODULE ClientApp ------------------------------
(***************************************************************************)
(* The chat client: gologin::gui::app (src/client/app.cpp) and             *)
(* gologin::gui::frame (src/client/frame.cpp) over TcpClient.              *)
(*                                                                         *)
(* The owner of the tcp::client is the window's thread.  It runs one        *)
(* callback at a time (ui); a packet handler runs on the client's handler   *)
(* thread and changes the window from there.  Each call of a widget by      *)
(* another thread is a message the window's thread must take, so it waits   *)
(* until that thread is back in its message loop; IsEnabled() is read       *)
(* directly.  The server is an environment that answers as the server       *)
(* application does, at its own pace, and may go away at any time.          *)
(*                                                                         *)
(* The server's handler thread of this connection may also be held up by    *)
(* other clients (busy): a relayed message is sent to one after another, and *)
(* each ::send waits for its client to read (tcp::server::send_to); to list  *)
(* a new connection it waits for the lock that these hold.                   *)
(*                                                                         *)
(* The client's id is drawn anew for each connection, so what the server    *)
(* knows of it (entry) starts empty with each connection.                   *)
(***************************************************************************)
EXTENDS TcpClient

CONSTANTS
  Session,   \* bound: the sessions the server issues, numbers from 1
  Torn,      \* a string read while another thread assigns to it
  MaxLogin   \* bound: login requests the user makes

Empty == 0
Widget == {"connect", "disconnect", "login", "logout", "send",
           "address", "login_field", "input_field"}
Outcome == {"ok", "failed"}

\* What the client sends.  asked is a history field: a login of this
\* connection was not answered yet.
AppRequest ==
  [cmd : {"hello"}] \cup [cmd : {"login"}, valid : BOOLEAN]
    \cup [cmd : {"logout", "message"}, session : Session \cup {Empty, Torn},
          asked : BOOLEAN]

\* What the server sends.
AppPacket ==
  [cmd : {"hello", "message"}]
    \cup [cmd : {"logout", "message_reply"}, status : Outcome]
    \cup [cmd : {"login"}, status : Outcome, session : Session \cup {Empty}]

ASSUME AppAssumption ==
  /\ Session \subseteq Nat \ {Empty}
  /\ Torn \notin Nat
  /\ MaxLogin \in Nat
  /\ Request = AppRequest
  /\ Packet = AppPacket

VARIABLES
  ui,       \* the callback the window's thread is in, or its message loop
  ui_ops,   \* the calls its output handler has still to make
  h_pc,     \* where the packet handler on the handler thread is
  h_ops,    \* the calls its output handler has still to make
  shown,    \* the widgets that are shown
  enabled,  \* the widgets that are enabled
  closed,   \* the window was closed and destroyed
  m_cookie, \* m_cookie._client_session
  entry,    \* the session of this client in the server, or Empty
  issued,   \* sessions the server has issued so far
  answer,   \* the server's answer, not yet sent
  busy,     \* the server's handler thread waits for other clients
  logins,   \* login requests made so far
  greeted,  \* history: hello on this connection, "none", "sent", "answered"
  asked,    \* history: logins of this connection not yet answered
  crossed,  \* history: it logged out before its login was answered
  refused,  \* history: a login of this connection was refused
  stale     \* history: a widget or the logger was used after it was destroyed

windowVars == <<shown, enabled, closed>>
uiVars     == <<ui, ui_ops>>
workVars   == <<h_pc, h_ops>>
serverVars == <<entry, issued, answer, busy>>
histVars   == <<greeted, asked, crossed, refused, stale>>
appVars  == <<uiVars, workVars, windowVars, m_cookie, serverVars, logins, histVars>>
app_vars == <<vars, appVars>>

AppInit ==
  /\ ClientInit
  /\ ui = "loop"
  /\ ui_ops = <<>>
  /\ h_pc = "enter"
  /\ h_ops = <<>>
  /\ shown = Widget \ {"disconnect", "logout"}
  /\ enabled = Widget \ {"send", "login", "login_field", "input_field"}
  /\ closed = FALSE
  /\ m_cookie = Empty
  /\ entry = Empty
  /\ issued = 0
  /\ answer = None
  /\ busy = FALSE
  /\ logins = 0
  /\ greeted = "none"
  /\ asked = 0
  /\ crossed = FALSE
  /\ refused = FALSE
  /\ stale = FALSE

-----------------------------------------------------------------------------
(* The window's output handlers: the calls they make, in order.             *)

Show(w)    == [do |-> "show", on |-> w]
Hide(w)    == [do |-> "hide", on |-> w]
Enable(w)  == [do |-> "enable", on |-> w]
Disable(w) == [do |-> "disable", on |-> w]
\* The next two calls are made only if w is enabled, or only if it is not.
IfEnabled(w)  == [do |-> "if", on |-> w]
IfDisabled(w) == [do |-> "unless", on |-> w]
\* Text in a field or in the status bar, and the layout that follows it.
Text == [do |-> "text", on |-> "status"]

on_connect(st) ==
  CASE st = "success" ->
         <<Show("disconnect"), Disable("address"),
           IfDisabled("login"), Enable("login"), Enable("login_field"),
           IfDisabled("logout"), Enable("logout"), Enable("login_field"),
           Hide("connect"), Text>>
    [] st = "pending" -> <<Disable("address"), Disable("connect"), Text>>
    [] st = "failed"  -> <<Text>>

\* MUTANT of on_disconnect: the connect button is not enabled again.
on_disconnect_disabled ==
  <<Show("connect"), Enable("address"), Hide("disconnect"),
    IfEnabled("send"), Disable("send"), Disable("input_field"),
    IfEnabled("login"), Disable("login"), Disable("login_field"),
    Hide("logout"), Show("login"), Disable("login_field"), Text>>

\* MUTANT of on_disconnect: the login button stays enabled.
on_disconnect_login ==
  <<Show("connect"), Enable("connect"), Enable("address"), Hide("disconnect"),
    IfEnabled("send"), Disable("send"), Disable("input_field"),
    Hide("logout"), Show("login"), Disable("login_field"), Text>>

on_disconnect ==
  <<Show("connect"), Enable("connect"), Enable("address"), Hide("disconnect"),
    IfEnabled("send"), Disable("send"), Disable("input_field"),
    IfEnabled("login"), Disable("login"), Disable("login_field"),
    Hide("logout"), Show("login"), Disable("login_field"), Text>>

on_login(st) ==
  IF st = "success"
  THEN <<Show("logout"), Enable("logout"), Disable("login_field"), Hide("login"),
         Enable("send"), Enable("input_field"), Text>>
  ELSE <<Text>>

\* MUTANT of on_logout: a pending logout disables the wrong button.
on_logout_wrong(st) ==
  CASE st = "success" ->
         <<Show("login"), Enable("login_field"), Hide("logout"),
           Disable("send"), Disable("input_field"), Text>>
    [] st = "pending" -> <<Disable("login"), Text>>
    [] st = "failed"  -> <<Text>>

on_logout(st) ==
  CASE st = "success" ->
         <<Show("login"), Enable("login_field"), Hide("logout"),
           Disable("send"), Disable("input_field"), Text>>
    [] st = "pending" -> <<Disable("logout"), Text>>
    [] st = "failed"  -> <<Text>>

on_send(st) == IF st = "pending" THEN <<Text, Text>> ELSE <<>>

on_recv == <<Text>>

\* What remains of the calls ops once the first one is made.
Rest(ops) ==
  LET op == Head(ops)
      skip == \/ op.do = "if" /\ op.on \notin enabled
              \/ op.do = "unless" /\ op.on \in enabled
  IN  IF skip THEN SubSeq(ops, 4, Len(ops)) ELSE Tail(ops)

\* The widgets after the call op.
Call(op) ==
  /\ shown' = CASE op.do = "show" -> shown \cup {op.on}
                [] op.do = "hide" -> shown \ {op.on}
                [] OTHER -> shown
  /\ enabled' = CASE op.do = "enable"  -> enabled \cup {op.on}
                  [] op.do = "disable" -> enabled \ {op.on}
                  [] OTHER -> enabled

-----------------------------------------------------------------------------
(* The window's thread: button clicks and the callbacks behind them.        *)

InLoop == Alive /\ ui = "loop" /\ ~closed

\* The user can press b.
Usable(b) == b \in shown \cap enabled

Click(b) == InLoop /\ Usable(b)

\* A connection starts: nothing is known of it on either side.
NewConnection ==
  /\ entry' = Empty
  /\ answer' = None
  /\ busy' = TRUE
  /\ greeted' = "none"
  /\ asked' = 0
  /\ crossed' = FALSE
  /\ refused' = FALSE

ClickConnectFails(e) ==
  /\ Click("connect")
  /\ ConnectFails(e)
  /\ ui' = "output"
  /\ ui_ops' = on_connect("failed")
  /\ UNCHANGED <<workVars, windowVars, m_cookie, serverVars, logins, histVars>>

ClickConnect(found) ==
  /\ Click("connect")
  /\ Connected(found)
  /\ NewConnection
  /\ ui' = "connected"
  /\ UNCHANGED <<ui_ops, workVars, windowVars, m_cookie, issued, logins, stale>>

\* connect() on a client that is connected returns at once.  The id is drawn
\* anew; the button is there only if no hello was sent on this connection, so
\* the server knows of no id yet.
ClickConnectAgain ==
  /\ Click("connect")
  /\ m_status = "connected"
  /\ ui' = "connected"
  /\ UNCHANGED <<vars, ui_ops, workVars, windowVars, m_cookie, serverVars, logins,
                 histVars>>

Hello ==
  /\ ui = "connected"
  /\ SendBegin([cmd |-> "hello"])
  /\ ui' = "hello"
  /\ UNCHANGED <<ui_ops, workVars, windowVars, m_cookie, serverVars, logins, histVars>>

ClickLogin(valid) ==
  /\ Click("login")
  /\ logins < MaxLogin
  /\ SendBegin([cmd |-> "login", valid |-> valid])
  /\ logins' = logins + 1
  /\ ui' = "login"
  /\ UNCHANGED <<ui_ops, workVars, windowVars, m_cookie, serverVars, histVars>>

\* The session is read while the handler thread may be assigning it.
WithSession(cmd) == [cmd |-> cmd, session |-> m_cookie, asked |-> asked > 0]

ClickLogout ==
  /\ Click("logout")
  /\ SendBegin(WithSession("logout"))
  /\ ui' = "logout"
  /\ UNCHANGED <<ui_ops, workVars, windowVars, m_cookie, serverVars, logins, histVars>>

ClickSend ==
  /\ Click("send")
  /\ SendBegin(WithSession("message"))
  /\ ui' = "message"
  /\ UNCHANGED <<ui_ops, workVars, windowVars, m_cookie, serverVars, logins, histVars>>

\* What a callback tells the window once send() has returned true: the login
\* and the logout callbacks take that for their success.
Sent ==
  /\ SendOk
  /\ ui' = "output"
  /\ ui_ops' = CASE ui = "hello"   -> on_connect("pending")
                 [] ui = "login"   -> on_login("success")
                 [] ui = "logout"  -> on_logout("success")
                 [] ui = "message" -> on_send("pending")
  /\ greeted' = IF ui = "hello" THEN "sent" ELSE greeted
  /\ asked' = IF ui = "login" THEN asked + 1 ELSE asked
  /\ crossed' = (crossed \/ (ui = "logout" /\ asked > 0))
  /\ UNCHANGED <<workVars, windowVars, m_cookie, serverVars, logins, refused, stale>>

SentNot ==
  /\ SendFails
  /\ ui' = "output"
  /\ ui_ops' = IF ui = "message" THEN on_send("failed") ELSE <<Text>>
  /\ UNCHANGED <<workVars, windowVars, m_cookie, serverVars, logins, histVars>>

ClickDisconnect ==
  /\ Click("disconnect")
  /\ Shutdown(FALSE)
  /\ ui' = "disconnect"
  /\ UNCHANGED <<ui_ops, workVars, windowVars, m_cookie, serverVars, logins, histVars>>

DisconnectStep ==
  /\ CloseSocket \/ Disconnected \/ Join
  /\ ui' = IF owner = "join" /\ ~destroying THEN "output" ELSE ui
  /\ ui_ops' = IF owner = "join" /\ ~destroying THEN on_disconnect ELSE ui_ops
  /\ UNCHANGED <<workVars, windowVars, m_cookie, serverVars, logins, histVars>>

\* The window's thread makes the next call of its output handler.
UiOutput ==
  /\ Alive
  /\ ui = "output"
  /\ ui_ops # <<>>
  /\ Call(Head(ui_ops))
  /\ ui_ops' = Rest(ui_ops)
  /\ UNCHANGED <<vars, ui, workVars, closed, m_cookie, serverVars, logins, histVars>>

UiReturn ==
  /\ Alive
  /\ ui = "output"
  /\ ui_ops = <<>>
  /\ ui' = "loop"
  /\ UNCHANGED <<vars, ui_ops, workVars, windowVars, m_cookie, serverVars, logins,
                 histVars>>

\* MUTANT of CloseWindow: also while disconnect() waits for the handler thread.
CloseWindowEarly ==
  /\ Alive /\ ~closed
  /\ ui \in {"loop", "disconnect"}
  /\ ui' = "loop"
  /\ closed' = TRUE
  /\ UNCHANGED <<vars, ui_ops, workVars, shown, enabled, m_cookie, serverVars, logins,
                 histVars>>

\* The user closes the window: it is destroyed, the message loop ends ...
CloseWindow ==
  /\ InLoop
  /\ closed' = TRUE
  /\ UNCHANGED <<vars, uiVars, workVars, shown, enabled, m_cookie, serverVars, logins,
                 histVars>>

\* ... and the application is destroyed: m_logger, then its tcp::client.
DestroyClient ==
  /\ closed
  /\ Shutdown(TRUE) \/ Destroy
  /\ UNCHANGED appVars

-----------------------------------------------------------------------------
(* The handler thread: the handlers of the server's packets.                *)

\* m_logger is destroyed.
LoggerGone == destroying \/ owner = "gone"

\* MUTANT of Handle: the login's answer does not set the session.
HandleNoSession ==
  /\ pc = "dispatch"
  /\ h_pc = "enter"
  /\ h_pc' = "output"
  /\ h_ops' = LET ok == "status" \in DOMAIN incoming /\ incoming.status = "ok" IN
       CASE incoming.cmd = "hello"   -> on_connect("success")
         [] incoming.cmd = "login"   -> on_login(IF ok THEN "success" ELSE "failed")
         [] incoming.cmd = "logout"  -> on_logout(IF ok THEN "pending" ELSE "failed")
         [] incoming.cmd = "message" -> on_recv
         [] OTHER -> on_send(IF ok THEN "success" ELSE "failed")
  /\ stale' = (stale \/ LoggerGone)
  /\ UNCHANGED <<vars, uiVars, windowVars, m_cookie, serverVars, logins, greeted, asked,
                 crossed, refused>>

\* server_*_packet_handler: a login's answer sets the session first, whatever
\* its status; then the logger is told, and the window.  The reply to a message
\* is filled in and discarded.
Handle ==
  LET ok == "status" \in DOMAIN incoming /\ incoming.status = "ok" IN
  /\ pc = "dispatch"
  /\ h_pc = "enter"
  /\ h_pc' = IF incoming.cmd = "login" THEN "session" ELSE "output"
  /\ m_cookie' = IF incoming.cmd = "login" THEN Torn ELSE m_cookie
  /\ h_ops' =
       CASE incoming.cmd = "hello"   -> on_connect("success")
         [] incoming.cmd = "login"   -> on_login(IF ok THEN "success" ELSE "failed")
         [] incoming.cmd = "logout"  -> on_logout(IF ok THEN "pending" ELSE "failed")
         [] incoming.cmd = "message" -> on_recv
         [] OTHER -> on_send(IF ok THEN "success" ELSE "failed")
  /\ stale' = (stale \/ (incoming.cmd # "login" /\ LoggerGone))
  /\ UNCHANGED <<vars, uiVars, windowVars, serverVars, logins, greeted, asked, crossed,
                 refused>>

SetSession ==
  /\ Alive
  /\ h_pc = "session"
  /\ m_cookie' = incoming.session
  /\ h_pc' = "output"
  /\ stale' = (stale \/ LoggerGone)
  /\ UNCHANGED <<vars, uiVars, h_ops, windowVars, serverVars, logins, greeted, asked,
                 crossed, refused>>

Condition(op) == op.do \in {"if", "unless"}

\* A call of a widget returns when the window's thread is in its message loop.
\* After the window is destroyed it returns at once, from memory that was
\* freed.
Output ==
  /\ h_pc = "output"
  /\ h_ops # <<>>
  /\ Condition(Head(h_ops)) \/ ui = "loop"
  /\ IF closed THEN UNCHANGED <<shown, enabled>> ELSE Call(Head(h_ops))
  /\ stale' = (stale \/ closed)
  /\ h_ops' = Rest(h_ops)
  /\ UNCHANGED <<vars, uiVars, h_pc, closed, m_cookie, serverVars, logins,
                 greeted, asked, crossed, refused>>

\* MUTANT of Return: the handler thread ends with a handler that failed.
ReturnEnds ==
  /\ h_pc = "output"
  /\ h_ops = <<>>
  /\ pc' = IF incoming.cmd = "message_reply" THEN "done" ELSE "loop"
  /\ incoming' = None
  /\ h_pc' = "enter"
  /\ UNCHANGED <<m_status, m_socket, ownerVars, netVars, unresolved, uiVars, h_ops,
                 windowVars, m_cookie, serverVars, logins, histVars>>

Return ==
  /\ h_pc = "output"
  /\ h_ops = <<>>
  /\ Dispatched
  /\ h_pc' = "enter"
  /\ greeted' = IF incoming.cmd = "hello" THEN "answered" ELSE greeted
  /\ asked' = IF incoming.cmd = "login" THEN asked - 1 ELSE asked
  /\ refused' = (refused \/ (incoming.cmd = "login" /\ incoming.status = "failed"))
  /\ UNCHANGED <<uiVars, h_ops, windowVars, m_cookie, serverVars, logins, crossed,
                 stale>>

-----------------------------------------------------------------------------
(* The server: the handlers of ChatServer, seen by one client.              *)

Reply(p) ==
  /\ ServerRead
  /\ answer' = p
  /\ UNCHANGED <<uiVars, workVars, windowVars, m_cookie, logins, histVars>>

IfOk(b) == IF b THEN "ok" ELSE "failed"

ServerHello ==
  /\ answer = None /\ ~busy
  /\ outbox # <<>> /\ Head(outbox).cmd = "hello"
  /\ Reply([cmd |-> "hello"])
  /\ UNCHANGED <<entry, issued, busy>>

\* A login that is valid and the first one gets a new session.
ServerLogin ==
  LET ok == Head(outbox).valid /\ entry = Empty
      s  == IF ok THEN issued + 1 ELSE Empty
  IN
  /\ answer = None /\ ~busy
  /\ outbox # <<>> /\ Head(outbox).cmd = "login"
  /\ s \in Session \cup {Empty}
  /\ Reply([cmd |-> "login", status |-> IfOk(ok), session |-> s])
  /\ entry' = IF ok THEN s ELSE entry
  /\ issued' = IF ok THEN s ELSE issued
  /\ UNCHANGED busy

ServerLogout ==
  /\ answer = None /\ ~busy
  /\ outbox # <<>> /\ Head(outbox).cmd = "logout"
  /\ Reply([cmd |-> "logout", status |-> IfOk(entry # Empty)])
  /\ entry' = Empty
  /\ UNCHANGED <<issued, busy>>

\* A message of a registered client is relayed before it is answered.  The
\* answer may be lost, see ChatServer!AnswerMessage.
ServerMessage ==
  /\ answer = None /\ ~busy
  /\ outbox # <<>> /\ Head(outbox).cmd = "message"
  /\ \/ Reply([cmd |-> "message_reply", status |-> IfOk(entry # Empty)])
     \/ Reply(None)
  /\ busy' = (entry # Empty)
  /\ UNCHANGED <<entry, issued>>

ServerReply ==
  /\ answer # None /\ ~busy
  /\ ServerSend(answer)
  /\ answer' = None
  /\ UNCHANGED <<uiVars, workVars, windowVars, m_cookie, entry, issued, busy, logins,
                 histVars>>

\* The others have read, or the lock was free.
ServerGoesOn ==
  /\ busy
  /\ busy' = FALSE
  /\ UNCHANGED <<vars, uiVars, workVars, windowVars, m_cookie, entry, issued, answer,
                 logins, histVars>>

\* A message, of this or of another client, relayed to this one; through a
\* snapshot or a cookie of before also when it is not registered.
ServerRelay ==
  /\ ServerSend([cmd |-> "message"])
  /\ UNCHANGED appVars

ServerLeaves ==
  /\ ServerClose \/ ServerReset
  /\ answer' = None
  /\ busy' = FALSE
  /\ UNCHANGED <<uiVars, workVars, windowVars, m_cookie, entry, issued, logins, histVars>>

-----------------------------------------------------------------------------
\* The window's thread, once a button is pressed.
UiStep ==
  \/ Hello
  \/ Sent
  \/ SentNot
  \/ DisconnectStep
  \/ UiOutput
  \/ UiReturn
  \/ DestroyClient

User ==
  \/ \E e \in ConnectError : ClickConnectFails(e)
  \/ \E found \in Resolve : ClickConnect(found)
  \/ ClickConnectAgain
  \/ \E valid \in BOOLEAN : ClickLogin(valid)
  \/ ClickLogout
  \/ ClickSend
  \/ ClickDisconnect
  \/ CloseWindow

HandlerStep ==
  \/ Receive /\ UNCHANGED appVars
  \/ Handle
  \/ SetSession
  \/ Output
  \/ Return

\* The server's handler thread of this connection.
ServerAnswer ==
  \/ ServerHello
  \/ ServerLogin
  \/ ServerLogout
  \/ ServerMessage
  \/ ServerReply

ChatServer == ServerAnswer \/ ServerGoesOn \/ ServerRelay \/ ServerLeaves

AppNext == UiStep \/ User \/ HandlerStep \/ ChatServer

AppSpec == AppInit /\ [][AppNext]_app_vars

\* Both threads are scheduled, and so is the server's, but nothing makes the
\* other clients read, which ServerGoesOn stands for; a message to a window is
\* taken before the user's input, hence each time the window's thread is in
\* its loop.
AppFairSpec ==
  /\ AppSpec
  /\ WF_app_vars(UiStep)
  /\ WF_app_vars(HandlerStep)
  /\ SF_app_vars(Output)
  /\ SF_app_vars(ServerAnswer)

-----------------------------------------------------------------------------
(* Properties.                                                              *)

Ops == [do : {"show", "hide", "enable", "disable", "if", "unless", "text"},
        on : Widget \cup {"status"}]

\* The type invariant.
AppTypeOK ==
  /\ ClientTypeOK
  /\ ui \in {"loop", "connected", "hello", "login", "logout", "message",
             "disconnect", "output"}
  /\ ui_ops \in Seq(Ops) /\ h_ops \in Seq(Ops)
  /\ h_pc \in {"enter", "session", "output"}
  /\ shown \subseteq Widget /\ enabled \subseteq Widget
  /\ m_cookie \in Session \cup {Empty, Torn}
  /\ entry \in Session \cup {Empty} /\ issued \in 0 .. MaxLogin
  /\ answer \in Packet \cup {None}
  /\ logins \in 0 .. MaxLogin /\ asked \in 0 .. MaxLogin
  /\ greeted \in {"none", "sent", "answered"}
  /\ {closed, crossed, refused, stale, busy} \subseteq BOOLEAN

\* The window's thread waits for the user and no handler is at work.
Quiet == InLoop /\ h_pc = "enter" /\ pc # "dispatch"

\* Whatever was pressed and answered, in whatever order, the user can connect
\* or disconnect, except while a hello that was sent is not answered: that
\* leaves the connect button disabled and no other in its place, for good if
\* the server is gone.
WayOut ==
  Quiet => Usable("connect") \/ Usable("disconnect") \/ greeted = "sent"

\* The buttons that need a connection can be pressed only on a client that is
\* connected, and no call of an old connection reaches the window later.
ConnectionButtons ==
  InLoop /\ m_status # "connected" =>
    /\ \A b \in {"disconnect", "login", "logout", "send"} : ~Usable(b)
    /\ h_ops = <<>>

\* Nothing is under way on a connection whose hello was answered.
Settled ==
  /\ Quiet
  /\ pc \in {"loop", "header"}
  /\ m_socket = "open" /\ peer = "open"
  /\ inbox = <<>> /\ outbox = <<>> /\ answer = None
  /\ greeted = "answered"

\* The window takes a login or a logout for done when its request was sent.
\* Once all answers are in it agrees with the server nevertheless, unless a
\* login of this connection was refused or the user logged out before the
\* answer to a login had come.
WindowFollowsServer ==
  Settled /\ ~refused /\ ~crossed =>
    IF entry # Empty THEN Usable("logout") /\ Usable("send") /\ ~Usable("login")
                     ELSE Usable("login") /\ ~Usable("logout") /\ ~Usable("send")

\* The session in a message that reaches the server is the one the server
\* issued, although each login's answer overwrites it from another thread,
\* unless the message was written while a login was not yet answered.
SessionCarried ==
  answer = None /\ outbox # <<>> /\ Head(outbox).cmd = "message" =>
    LET r == Head(outbox) IN
    entry # Empty /\ ~r.asked => r.session = entry

\* The window is destroyed before the tcp::client whose handler thread calls its
\* widgets, and so is the logger.  Nothing of them is used after that unless the
\* user closed the window of a client that was connected: once disconnect() has
\* returned, no packet of the connection is handled any more.
StaleOnlyIfConnected == stale => closed /\ (destroying \/ m_status = "connected")

\* The application uses the TCP client as TcpClient allows any user to.
ImplementsTcpClient == ClientSpec

\* The handler thread waits for the window's thread, which is in disconnect().
OutputBlocked == h_pc = "output" /\ ui = "disconnect"

\* A disconnect that does not return waits for a handler that waits for the
\* window, for nothing else.
HangOnlyInOutput == []<>(owner # "join" \/ OutputBlocked \/ pc = "crashed")

\* Each waits for the next: the window's thread, in send(), for the server to
\* read; the server, sending, for the handler thread to read; the handler
\* thread for the window's thread.
Ring ==
  /\ owner = "send" /\ Len(outbox) = Window
  /\ answer # None /\ Len(inbox) = Window
  /\ h_pc = "output"

\* A send() that does not return is one in that ring, or the server's handler
\* thread never comes back from other clients that do not read.
SendHangOnlyInRing ==
  []<>(owner # "send" \/ Ring \/ pc = "crashed") \/ <>[]busy
=============================================================================
