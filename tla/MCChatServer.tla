----------------------------- MODULE MCChatServer -----------------------------
(* ChatServer for TLC: two clients; the low byte of the first one's id is a   *)
(* UTF-8 character by itself, that of the second is not.                      *)
EXTENDS ChatServer, TLC

CONSTANTS c1, c2

MCConn == {c1, c2}
MCIdOf == c1 :> 257 @@ c2 :> 456

Plain(cmds) == [cmd : cmds, id : ClientId, valid : {TRUE}]

\* What the clients send in a conversation; the first one also pings ...
Talk == Plain({"login", "message", "logout"})
Conversation == Talk \cup [cmd : {"ping"}, id : {257}, valid : {TRUE}]
\* ... and where the dispatcher is the question: messages among the other
\* packets, one without an answer and a refused login included.
Chatter == Plain({"login", "message"})
             \cup [cmd : {"hello", "unknown"}, id : {257}, valid : {TRUE}]
             \cup [cmd : {"login"}, id : {456}, valid : {FALSE}]

MCPacket == Request \cup HelloAnswer \cup StatusAnswer \cup LoginAnswer
              \cup MessageAnswer \cup Relay

Symmetry == Permutations(Handle)
=============================================================================
