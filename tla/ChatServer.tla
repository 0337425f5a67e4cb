------------------------------ MODULE ChatServer ------------------------------
(***************************************************************************)
(* The server application (src/server/app.cpp) on top of the TCP server:    *)
(* the dispatcher (src/tcp/core/dispatcher.hpp) and the packet handlers,    *)
(* run by the handler threads of TcpServer in place of its arbitrary        *)
(* dispatching, and the auth provider they share.  It covers the life of    *)
(* the application from main() to its destruction.                          *)
(*                                                                          *)
(* A client chooses its id at random when it connects (src/client/app.cpp:  *)
(* a generator of 64 bits seeded with one 32-bit value) and uses it for all *)
(* its requests on that connection: IdOf.  That two clients do not come by   *)
(* the same id is an assumption, IdAssumption; nothing in the code sees to   *)
(* it.                                                                      *)
(***************************************************************************)
EXTENDS TcpServer

CONSTANTS
  IdOf,     \* the id the client of each connection chose
  Session,  \* the sessions the provider can generate
  Sends,    \* the requests clients send, a subset of Request
  MaxLogin  \* bound: login requests sent by all clients

ClientId == {IdOf[c] : c \in Conn}

\* Requests: "unknown" has no handler or does not parse; valid tells whether
\* the credentials of a login are right.  The body of a message is told apart
\* by its sender only.  The server reads the session of no request.
Command == {"hello", "login", "logout", "message", "message_reply", "ping",
            "unknown"}
Request == [cmd : Command, id : ClientId, valid : BOOLEAN]

\* Answers: session is None in a login that failed.
Outcome == {"ok", "failed"}
HelloAnswer   == [cmd : {"hello"}, id : ClientId]
StatusAnswer  == [cmd : {"logout", "ping_reply"}, id : ClientId, status : Outcome]
LoginAnswer   == [cmd : {"login"}, id : ClientId, status : Outcome,
                  session : Session \cup {None}]
MessageAnswer == [cmd : {"message_reply"}, id : ClientId, status : Outcome,
                  client_id : {id % 256 : id \in ClientId}]

\* A message relayed to a registered client: its own id and session.
Relay == [cmd : {"message"}, id : ClientId, session : Session, body : ClientId]

ASSUME IdAssumption ==
  /\ IdOf \in [Conn -> Nat]
  /\ \A c, d \in Conn : IdOf[c] = IdOf[d] => c = d
ASSUME PacketAssumption ==
  /\ Session \subseteq Nat
  /\ None \notin Session
  /\ Sends \subseteq Request
  /\ Packet = Request \cup HelloAnswer \cup StatusAnswer \cup LoginAnswer
                \cup MessageAnswer \cup Relay
ASSUME LoginAssumption == MaxLogin \in Nat

VARIABLES
  m_clients, issued,  \* the provider's, see AuthProvider
  h_pc,    \* where the handler of a message is
  todo,    \* its _auth_clients: the entries not yet sent to
  snap,    \* history: the whole of _auth_clients
  got,     \* history: the connections a copy arrived on
  logins   \* login requests sent so far

authVars  == <<m_clients, issued>>
msgVars   == <<h_pc, todo, snap, got>>
chatVars  == <<authVars, msgVars, logins>>
chat_vars == <<vars, chatVars>>

INSTANCE AuthProvider WITH Cookie <- Handle

ChatInit ==
  /\ Init
  /\ AuthInit
  /\ h_pc = [c \in Conn |-> "enter"]
  /\ todo = [c \in Conn |-> {}]
  /\ snap = [c \in Conn |-> {}]
  /\ got = [c \in Conn |-> {}]
  /\ logins = 0

-----------------------------------------------------------------------------
(* The packet handlers.                                                     *)

\* dispatch() finds the handler of the packet's command and enters it.
Handles(c, cmd) ==
  /\ pc[c] = "dispatch"
  /\ h_pc[c] = "enter"
  /\ request[c].cmd = cmd

IfOk(b) == IF b THEN "ok" ELSE "failed"

client_hello_packet_handler(c) ==
  /\ Handles(c, "hello")
  /\ Reply(c, [cmd |-> "hello", id |-> request[c].id])
  /\ UNCHANGED chatVars

client_ping_packet_handler(c) ==
  /\ Handles(c, "ping")
  /\ Reply(c, [cmd |-> "ping_reply", id |-> request[c].id,
               status |-> IfOk(status_client(request[c].id) = "accepted")])
  /\ UNCHANGED chatVars

client_login_packet_handler(c, s) ==
  LET r  == request[c]
      ok == AddStatus(r.id, r.valid) = "accepted"
  IN
  /\ Handles(c, "login")
  /\ AddClient(r.id, client_id[c], r.valid, s)
  /\ Reply(c, [cmd |-> "login", id |-> r.id, status |-> IfOk(ok),
               session |-> IF ok THEN s ELSE None])
  /\ UNCHANGED <<msgVars, logins>>

client_logout_packet_handler(c) ==
  LET r == request[c] IN
  /\ Handles(c, "logout")
  /\ RemClient(r.id)
  /\ Reply(c, [cmd |-> "logout", id |-> r.id, status |-> IfOk(Registered(r.id))])
  /\ UNCHANGED <<msgVars, logins>>

\* MUTANT of NoResponse: the handler thread ends when dispatch() fails.
NoResponseEnds(c) ==
  /\ \E cmd \in {"message_reply", "unknown"} : Handles(c, cmd)
  /\ request' = [request EXCEPT ![c] = None]
  /\ GoTo(c, "exit")
  /\ UNCHANGED <<serverVars, m_client_list, ownerVars, acceptVars, client_id,
                 m_socket, sendop, os_socket, peerVars, histVars, chatVars>>

\* The two-argument handler has no response, and an unknown command or a
\* body that does not parse reaches no handler.
NoResponse(c) ==
  /\ \E cmd \in {"message_reply", "unknown"} : Handles(c, cmd)
  /\ NoReply(c)
  /\ UNCHANGED chatVars

\* client_id = _id: a std::string assigned from an integer takes it as a char.
CharOf(id) == id % 256

\* The answer to a message: dump() throws on a char that is not UTF-8 by
\* itself; dispatch() catches it and nothing is sent.
AnswerMessage(c, status) ==
  LET id == request[c].id IN
  IF CharOf(id) < 128
  THEN Reply(c, [cmd |-> "message_reply", id |-> id, status |-> status,
                 client_id |-> CharOf(id)])
  ELSE NoReply(c)

\* client_message_packet_handler: status_client ...
MessageStatus(c) ==
  /\ Handles(c, "message")
  /\ status_client(request[c].id) = "accepted"
  /\ h_pc' = [h_pc EXCEPT ![c] = "snapshot"]
  /\ UNCHANGED <<vars, authVars, todo, snap, got, logins>>

MessageRefused(c) ==
  /\ Handles(c, "message")
  /\ status_client(request[c].id) # "accepted"
  /\ AnswerMessage(c, "failed")
  /\ UNCHANGED chatVars

\* ... then get_clients, under the lock again ...
MessageSnapshot(c) ==
  /\ h_pc[c] = "snapshot"
  /\ h_pc' = [h_pc EXCEPT ![c] = "relay"]
  /\ todo' = [todo EXCEPT ![c] = get_clients]
  /\ snap' = [snap EXCEPT ![c] = get_clients]
  /\ UNCHANGED <<vars, authVars, got, logins>>

RelayTo(c, e) == [cmd |-> "message", id |-> e.id, session |-> e.session,
                  body |-> request[c].id]

\* MUTANT of MessageRelay: _cookies, the sender's, for _cid._cookie.
MessageRelaySender(c, e) ==
  /\ h_pc[c] = "relay"
  /\ SendTo(c, client_id[c], RelayTo(c, e))
  /\ todo' = [todo EXCEPT ![c] = @ \ {e}]
  /\ UNCHANGED <<authVars, h_pc, snap, got, logins>>

\* ... then send_to for each of them, which finds a connection under the
\* entry's cookie ...
MessageRelay(c, e) ==
  /\ h_pc[c] = "relay"
  /\ SendTo(c, e.cookie, RelayTo(c, e))
  /\ todo' = [todo EXCEPT ![c] = @ \ {e}]
  /\ UNCHANGED <<authVars, h_pc, snap, got, logins>>

\* MUTANT of MessageRelayMiss: break when send_to returns false.
MessageRelayBreak(c, e) ==
  /\ h_pc[c] = "relay"
  /\ pc[c] = "dispatch"
  /\ m_client_list[e.cookie] = None
  /\ todo' = [todo EXCEPT ![c] = {}]
  /\ UNCHANGED <<vars, authVars, h_pc, snap, got, logins>>

\* MUTANT of MessageRelayMiss: send_to is tried until it returns true.
MessageRelayRetry(c, e) ==
  /\ h_pc[c] = "relay"
  /\ pc[c] = "dispatch"
  /\ m_client_list[e.cookie] = None
  /\ UNCHANGED <<vars, chatVars>>

\* ... or returns false, which is ignored ...
MessageRelayMiss(c, e) ==
  /\ h_pc[c] = "relay"
  /\ pc[c] = "dispatch"
  /\ m_client_list[e.cookie] = None
  /\ todo' = [todo EXCEPT ![c] = @ \ {e}]
  /\ UNCHANGED <<vars, authVars, h_pc, snap, got, logins>>

\* ... and at last the answer.
MessageDone(c) ==
  /\ h_pc[c] = "relay"
  /\ todo[c] = {}
  /\ AnswerMessage(c, "ok")
  /\ h_pc' = [h_pc EXCEPT ![c] = "enter"]
  /\ snap' = [snap EXCEPT ![c] = {}]
  /\ got' = [got EXCEPT ![c] = {}]
  /\ UNCHANGED <<authVars, todo, logins>>

\* ::send of a relayed message or of an answer.
Send(c) ==
  LET d == At(sendop[c].sock) IN
  /\ SysSend(c)
  /\ got' = IF pc[c] = "sending" /\ d # None
            THEN [got EXCEPT ![c] = @ \cup {d}] ELSE got
  /\ UNCHANGED <<authVars, h_pc, todo, snap, logins>>

-----------------------------------------------------------------------------
\* A client sends a request; in this build every request carries its own id.
ClientSend(c, r) ==
  /\ r.id = IdOf[c]
  /\ r.cmd = "login" => logins < MaxLogin
  /\ PeerSend(c, r)
  /\ logins' = IF r.cmd = "login" THEN logins + 1 ELSE logins
  /\ UNCHANGED <<authVars, msgVars>>

\* app::main() calls start() once and ignores what it returns.
AppMain ==
  /\ m_status = "close"
  /\ StartUp \/ \E e \in StartError : StartFails(e)
  /\ UNCHANGED chatVars

Handler(c) ==
  \/ client_hello_packet_handler(c)
  \/ client_ping_packet_handler(c)
  \/ \E s \in Session : client_login_packet_handler(c, s)
  \/ client_logout_packet_handler(c)
  \/ NoResponse(c)
  \/ MessageStatus(c)
  \/ MessageRefused(c)
  \/ MessageSnapshot(c)
  \/ \E e \in todo[c] : MessageRelay(c, e) \/ MessageRelayMiss(c, e)
  \/ MessageDone(c)
  \/ Send(c)

Client(c) ==
  \/ \E r \in Sends : ClientSend(c, r)
  \/ (PeerConnect(c) \/ PeerRead(c) \/ PeerClose(c) \/ PeerReset(c))
       /\ UNCHANGED chatVars

ChatNext ==
  \/ AppMain
  \/ AcceptThread /\ UNCHANGED chatVars
  \/ \E c \in Conn : \/ Serve(c) /\ UNCHANGED chatVars
                     \/ Handler(c)
                     \/ Client(c)

ChatSpec == ChatInit /\ [][ChatNext]_chat_vars

\* Handler threads run, a blocked ::send is served some day, and clients
\* read what they are sent.
ChatFairness ==
  \A c \in Conn : /\ WF_chat_vars(Handler(c))
                  /\ SF_chat_vars(Send(c))
                  /\ WF_chat_vars(PeerRead(c) /\ UNCHANGED chatVars)

ChatFairSpec == ChatSpec /\ ChatFairness

-----------------------------------------------------------------------------
(* Properties.                                                              *)

\* The type invariant.
ChatTypeOK ==
  /\ TypeOK
  /\ DOMAIN m_clients \subseteq ClientId
  /\ \A id \in DOMAIN m_clients : m_clients[id] \in AuthClient
  /\ issued \subseteq Session
  /\ h_pc \in [Conn -> {"enter", "snapshot", "relay"}]
  /\ todo \in [Conn -> SUBSET AuthClient]
  /\ snap \in [Conn -> SUBSET AuthClient]
  /\ got \in [Conn -> SUBSET Conn]
  /\ logins \in 0 .. MaxLogin

\* When client_message_packet_handler has been through its list, a copy has
\* arrived on the connection of every client of that list that is still in
\* m_client_list and still reads, whatever connected, dropped or logged out
\* meanwhile.
ReachesAll ==
  \A c \in Conn :
    h_pc[c] = "relay" /\ todo[c] = {} /\ pc[c] = "dispatch" =>
      \A e \in snap[c], d \in Conn :
        IdOf[d] = e.id /\ m_client_list[client_id[d]] = d /\ peer[d] = "open"
          => d \in got[c]

\* The provider's cookie of a client that dropped without a logout stays and
\* names a handle that is issued again: a relayed message with another
\* client's id and session arrives only on a connection that has the handle
\* of that client, and only once that client has disconnected.
RelayReachesOwner ==
  \A d \in Conn : \A i \in DOMAIN outbox[d] :
    LET p == outbox[d][i].pkt IN
    p.cmd = "message" /\ p.id # IdOf[d] =>
      \E t \in Conn : /\ IdOf[t] = p.id
                      /\ client_id[t] = client_id[d]
                      /\ pc[t] \in Departed

\* A registered client's session and cookie do not change, even when it logs
\* in again: the session it was told stays the one messages carry.
EntryStable ==
  [][\A id \in DOMAIN m_clients \cap DOMAIN m_clients' :
       m_clients'[id] = m_clients[id]]_chat_vars

\* The application uses the TCP server as TcpServer allows any user to.
ImplementsTcpServer == Spec

\* Every dispatch() returns and so does the ::send of its answer: no handler
\* thread stays for ever between two packets, although messages are relayed
\* under the lock of the client list into windows that others must empty.
DispatchTerminates ==
  \A c \in Conn : []<>(pc[c] \notin {"dispatch", "sending", "replying"})

\* messages.json:47-53, "server message success response": a message that was
\* relayed is answered with status "ok".  When client_message_packet_handler has
\* been through its list and the dispatcher is done with the message, an answer
\* is on its way to a client that is still there.
MessageAnswered ==
  [][\A c \in Conn :
       (/\ pc[c] = "dispatch" /\ h_pc[c] = "relay"
        /\ request[c].cmd = "message" /\ request'[c] = None
        /\ peer[c] = "open")
         => sendop'[c] # None]_chat_vars

\* client/app.cpp:271: a message the server sends carries the session of the
\* client it arrives at.
RelaySession ==
  \A d \in Conn : \A i \in DOMAIN outbox[d] :
    outbox[d][i].pkt.cmd = "message" => outbox[d][i].pkt.id = IdOf[d]
=============================================================================
