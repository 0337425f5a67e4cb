------------------------------- MODULE Framing -------------------------------
(***************************************************************************)
(* Packets over a byte stream: create_packet() and ::send of client_base    *)
(* (src/tcp/core/core.cpp) at one end, recv() of server_client or of client *)
(* (src/tcp/server/server.cpp, src/tcp/client/client.cpp) at the other, one *)
(* direction of one connection.                                             *)
(*                                                                         *)
(* The stream is made of units: the three fields of packet_header_t and the *)
(* parts of a body.  ::recv returns any part of what was asked for, 0 at    *)
(* the end of the stream and -1 when the connection was reset.  A field     *)
(* that is read from another place of the stream, or not written at all,    *)
(* holds any of the values of Garbage.                                      *)
(***************************************************************************)
EXTENDS FiniteSetsExt, SequencesExt

CONSTANTS
  Sender,      \* threads that send on this connection
  Command,     \* commands, by their length
  BodyLen,     \* lengths of bodies, in units
  Huge,        \* a size that memory may not be found for
  Garbage,     \* sizes that a field read by mistake may hold
  Side,        \* receiving ends: "server", "client"
  Window,      \* units the connection holds before a sender blocks
  MaxPackets   \* bound: packets sent

TypeSize == 16    \* sizeof(packet_header_t::type)
HeaderLen == 3    \* its fields

ASSUME FramingAssumption ==
  /\ Command \subseteq Nat
  /\ BodyLen \subseteq Nat
  /\ Huge \in Nat /\ \A n \in BodyLen : n < Huge
  /\ Garbage \subseteq 0 .. Huge
  /\ Side \subseteq {"server", "client"}
  /\ Window \in Nat \ {0}
  /\ MaxPackets \in Nat

VARIABLES
  side,     \* the receiving end
  reset,    \* "no", or the connection was reset, which ::recv is to tell "once"
            \* or "always", or has "told" (it depends on the platform)
  writing,  \* the packet a thread is sending, its units not yet written
  wire,     \* units written and not yet received
  begun,    \* packets handed to ::send, by number
  sent,     \* packets written to the last unit, in that order
  open,     \* the sending end has not closed
  pc,       \* where the receiver is
  size,     \* _header.size
  type,     \* _header.type, or 0 for what is no command
  buff,     \* _buff
  got,      \* packets dispatched
  short,    \* history: ::recv returned less than it was asked for
  failed,   \* history: an error of ::recv was taken for a header
  mixed     \* history: units were written amid another thread's packet

sendVars == <<writing, begun, sent, open, mixed>>
recvVars == <<pc, size, type, buff, got, short, failed>>
ends == <<side, reset>>
vars == <<ends, sendVars, wire, recvVars>>

\* What identifies a packet: its place in the stream and what is in it.
Packet == [id : 1 .. MaxPackets, cmd : Command, len : BodyLen]

Body(p) == [i \in 1 .. p.len |-> [field |-> "body", of |-> p.id, value |-> i]]

\* MUTANT of create_packet: the size counts the header too.
create_packet_total(p) ==
  IF p.len = 0 \/ p.cmd >= TypeSize THEN <<>> ELSE
    <<[field |-> "sign", of |-> p.id, value |-> 0],
      [field |-> "size", of |-> p.id, value |-> p.len + HeaderLen],
      [field |-> "type", of |-> p.id, value |-> p.cmd]>> \o Body(p)

\* MUTANT of create_packet: the last part of the body is not counted.
create_packet_less(p) ==
  IF p.len = 0 \/ p.cmd >= TypeSize THEN <<>> ELSE
    <<[field |-> "sign", of |-> p.id, value |-> 0],
      [field |-> "size", of |-> p.id, value |-> p.len - 1],
      [field |-> "type", of |-> p.id, value |-> p.cmd]>> \o Body(p)

\* MUTANT of create_packet: a command that fills the field is let through.
create_packet_full(p) ==
  IF p.len = 0 \/ p.cmd > TypeSize THEN <<>> ELSE
    <<[field |-> "sign", of |-> p.id, value |-> 0],
      [field |-> "size", of |-> p.id, value |-> p.len],
      [field |-> "type", of |-> p.id, value |-> p.cmd]>> \o Body(p)

\* The packet in the stream; none for an empty body or a long command.
create_packet(p) ==
  IF p.len = 0 \/ p.cmd >= TypeSize THEN <<>> ELSE
    <<[field |-> "sign", of |-> p.id, value |-> 0],
      [field |-> "size", of |-> p.id, value |-> p.len],
      [field |-> "type", of |-> p.id, value |-> p.cmd]>> \o Body(p)

Init ==
  /\ side \in Side
  /\ reset = "no"
  /\ writing = [s \in Sender |-> <<>>]
  /\ wire = <<>>
  /\ begun = <<>>
  /\ sent = <<>>
  /\ open = TRUE
  /\ pc = "header"
  /\ size = 0
  /\ type = 0
  /\ buff = <<>>
  /\ got = <<>>
  /\ short = FALSE
  /\ failed = FALSE
  /\ mixed = FALSE

-----------------------------------------------------------------------------
(* The sending end.                                                         *)

Sending == {s \in Sender : writing[s] # <<>>}

\* client_base::send up to ::send.
SendBegin(s, cmd, n) ==
  LET p == [id |-> Len(begun) + 1, cmd |-> cmd, len |-> n] IN
  /\ open
  /\ writing[s] = <<>>
  /\ Len(begun) < MaxPackets
  /\ create_packet(p) # <<>>
  /\ writing' = [writing EXCEPT ![s] = create_packet(p)]
  /\ begun' = Append(begun, p)
  /\ UNCHANGED <<ends, wire, sent, open, mixed, recvVars>>

\* ::send hands over what fits and waits with the rest.  Another thread's
\* ::send on this socket may come in between: no lock is held.
Write(s) ==
  LET all == writing[s]
      n   == Min({Len(all), Window - Len(wire)})
  IN
  /\ open
  /\ all # <<>>
  /\ n > 0
  /\ wire' = wire \o SubSeq(all, 1, n)
  /\ writing' = [writing EXCEPT ![s] = SubSeq(all, n + 1, Len(all))]
  /\ sent' = IF n = Len(all) THEN Append(sent, begun[Head(all).of]) ELSE sent
  /\ mixed' = (mixed \/ \E t \in Sending \ {s} : Head(writing[t]).field # "sign")
  /\ UNCHANGED <<ends, begun, open, recvVars>>

\* The sending end closes or its process dies, with a packet half written or
\* not; what was written arrives.
Close ==
  /\ open
  /\ open' = FALSE
  /\ writing' = [s \in Sender |-> <<>>]
  /\ UNCHANGED <<ends, wire, begun, sent, mixed, recvVars>>

\* The connection is reset: every ::send on it fails, and what was written and
\* not received is lost, all of it or from some unit on.
Reset ==
  /\ reset = "no"
  /\ reset' \in {"once", "always"}
  /\ open' = FALSE
  /\ writing' = [s \in Sender |-> <<>>]
  /\ \E k \in 0 .. Len(wire) : wire' = SubSeq(wire, 1, k)
  /\ UNCHANGED <<side, begun, sent, mixed, recvVars>>

-----------------------------------------------------------------------------
(* The receiving end.                                                       *)

\* How many units ::recv may return when it is asked for n.
Parts(n) == 1 .. Min({n, Len(wire)})

\* ::recv returns 0; it returns -1.
AtEnd == wire = <<>> /\ ~open /\ reset \in {"no", "told"}
AtError == wire = <<>> /\ reset \in {"once", "always"}

Told == IF reset = "once" THEN "told" ELSE reset

\* The values of a field when unit u was read into its place, or no unit.
FieldValue(k, i, field, garbage) ==
  IF k >= i /\ wire[i].field = field THEN {wire[i].value} ELSE garbage

\* The second part of recv() is skipped when the size is 0: then server_client
\* ends and client goes round its loop.
RecvHeader(k) ==
  /\ pc = "header"
  /\ k \in Parts(HeaderLen)
  /\ wire' = SubSeq(wire, k + 1, Len(wire))
  /\ size' \in FieldValue(k, 2, "size", Garbage)
  /\ type' \in FieldValue(k, 3, "type", {0})
  /\ buff' = <<>>
  /\ short' = (short \/ k < HeaderLen)
  /\ pc' = IF size' # 0 THEN "body" ELSE IF side = "server" THEN "done" ELSE "header"
  /\ UNCHANGED <<ends, sendVars, got, failed>>

\* ::recv of a header fails: server_client disconnects.
RecvHeaderError ==
  /\ pc = "header" /\ side = "server"
  /\ AtError
  /\ reset' = Told
  /\ pc' = "done"
  /\ UNCHANGED <<side, sendVars, wire, size, type, buff, got, short, failed>>

\* client takes the -1 for a header, whose fields nobody has written.
RecvNoHeader ==
  /\ pc = "header" /\ side = "client"
  /\ AtError
  /\ reset' = Told
  /\ failed' = TRUE
  /\ size' \in Garbage
  /\ type' = 0
  /\ pc' = IF size' # 0 THEN "body" ELSE "header"
  /\ UNCHANGED <<side, sendVars, wire, buff, got, short>>

\* _buff.resize(_header.size) finds no memory: the thread ends with bad_alloc,
\* and with it the process.
ResizeFails ==
  /\ pc = "body"
  /\ size = Huge
  /\ pc' = "crashed"
  /\ UNCHANGED <<ends, sendVars, wire, size, type, buff, got, short, failed>>

\* Any part of the body counts as the body.
RecvBody(k) ==
  /\ pc = "body"
  /\ k \in Parts(size)
  /\ wire' = SubSeq(wire, k + 1, Len(wire))
  /\ buff' = SubSeq(wire, 1, k)
  /\ short' = (short \/ k < size)
  /\ pc' = "dispatch"
  /\ UNCHANGED <<ends, sendVars, size, type, got, failed>>

\* ::recv of a body returns 0 at the end of the stream, which counts as a body
\* too.
RecvBodyEnd ==
  /\ pc = "body"
  /\ AtEnd
  /\ short' = TRUE
  /\ pc' = "dispatch"
  /\ UNCHANGED <<ends, sendVars, wire, size, type, buff, got, failed>>

\* ::recv of a body fails: recv() returns false, at which server_client's thread
\* ends and client's goes round its loop.
RecvBodyError ==
  /\ pc = "body"
  /\ AtError
  /\ reset' = Told
  /\ size' = 0 /\ type' = 0 /\ buff' = <<>>
  /\ pc' = IF side = "server" THEN "done" ELSE "header"
  /\ UNCHANGED <<side, sendVars, wire, got, short, failed>>

\* MUTANT of Dispatch: what arrived before the sender closed is thrown away.
DispatchIfOpen ==
  /\ pc = "dispatch"
  /\ got' = IF open THEN Append(got, [cmd |-> type, body |-> buff]) ELSE got
  /\ size' = 0 /\ type' = 0 /\ buff' = <<>>
  /\ pc' = IF open THEN "header" ELSE "done"
  /\ UNCHANGED <<ends, sendVars, wire, short, failed>>

\* dispatch(), whatever it makes of the packet; the loop's locals end.
Dispatch ==
  /\ pc = "dispatch"
  /\ got' = Append(got, [cmd |-> type, body |-> buff])
  /\ size' = 0 /\ type' = 0 /\ buff' = <<>>
  /\ pc' = "header"
  /\ UNCHANGED <<ends, sendVars, wire, short, failed>>

\* MUTANT of RecvEnd: the end of the stream is taken for an empty read.
RecvEndNot ==
  /\ pc = "header"
  /\ AtEnd
  /\ pc' = "header"
  /\ UNCHANGED <<ends, sendVars, wire, size, type, buff, got, short, failed>>

\* ::recv of a header returns 0: server_client disconnects.  A client goes
\* round its loop until disconnect() is called.
RecvEnd ==
  /\ pc = "header"
  /\ AtEnd
  /\ side = "server"
  /\ pc' = "done"
  /\ UNCHANGED <<ends, sendVars, wire, size, type, buff, got, short, failed>>

-----------------------------------------------------------------------------
Send(s) == \E cmd \in Command, n \in BodyLen : SendBegin(s, cmd, n)

Receive ==
  \/ \E k \in 1 .. HeaderLen : RecvHeader(k)
  \/ RecvHeaderError \/ RecvNoHeader
  \/ ResizeFails
  \/ \E k \in 1 .. Window : RecvBody(k)
  \/ RecvBodyEnd \/ RecvBodyError
  \/ Dispatch
  \/ RecvEnd

Next == (\E s \in Sender : Send(s) \/ Write(s)) \/ Close \/ Reset \/ Receive

Spec == Init /\ [][Next]_vars

\* The receiver's thread and the senders' are scheduled.
FairSpec ==
  /\ Spec
  /\ WF_vars(Receive)
  /\ \A s \in Sender : WF_vars(Write(s))

-----------------------------------------------------------------------------
(* Properties.                                                              *)

Unit == [field : {"sign", "size", "type", "body"}, of : 1 .. MaxPackets, value : Nat]

\* The type invariant.
FramingTypeOK ==
  /\ writing \in [Sender -> Seq(Unit)]
  /\ wire \in Seq(Unit) /\ Len(wire) <= Window
  /\ begun \in Seq(Packet) /\ Len(begun) <= MaxPackets
  /\ sent \in Seq(Packet)
  /\ pc \in {"header", "body", "dispatch", "done", "crashed"}
  /\ size \in 0 .. Huge /\ type \in Command \cup {0}
  /\ buff \in Seq(Unit)
  /\ got \in Seq([cmd : Command \cup {0}, body : Seq(Unit)])
  /\ {open, short, failed, mixed} \subseteq BOOLEAN /\ side \in Side
  /\ reset \in {"no", "once", "always", "told"} /\ (reset # "no" => ~open)

\* The receiver took off the stream what was put on it so far: every ::recv
\* returned what was asked for, no ::send was written into the midst of another,
\* and no error was taken for a header.
Whole == ~short /\ ~mixed /\ ~failed

\* As long as the stream is cut in the right places the receiver dispatches
\* the packets that were sent, in that order, each with its own command and
\* all of its body, however many threads send and wherever a reset cuts it off.
DispatchedIsSent ==
  Whole =>
    /\ Len(got) <= Len(sent)
    /\ \A i \in DOMAIN got : got[i] = [cmd |-> sent[i].cmd, body |-> Body(sent[i])]

\* A size that nobody sent and memory is not found for, and a command without
\* its terminator within the 16 characters of the field, from which the receiver
\* makes a std::string, are met only after a cut in a wrong place or, by a
\* client, after an error that was taken for a header.
HeaderSafe ==
  Whole =>
    /\ pc # "crashed"
    /\ pc \in {"body", "dispatch"} => type \in Command /\ type < TypeSize

\* When the sending end has closed or the connection was reset, the receiving
\* thread of the server ends, cut in the right places or not, and that of a
\* client reads the rest of what was sent before it goes round for disconnect().
\* The handlers that dispatch() calls are taken to return.
ReceiverEnds ==
  ~open ~> \/ pc \in {"done", "crashed"}
           \/ side = "client" /\ pc = "header" /\ wire = <<>>

\* Nothing of the stream was lost either.
Intact == Whole /\ reset = "no"

\* What was dispatched, as packets.
Delivered == [i \in DOMAIN got |-> [id  |-> Head(got[i].body).of,
                                    cmd |-> got[i].cmd,
                                    len |-> Len(got[i].body)]]

Channel == INSTANCE PacketChannel WITH
  Packet <- [id : 1 .. MaxPackets, cmd : Command, len : BodyLen],
  whole <- Intact,
  sent <- IF Intact THEN sent ELSE <<>>,
  got <- IF Intact THEN Delivered ELSE <<>>

\* The code is the channel that the other modules take a connection for, until
\* the stream is cut in a wrong place or reset: nothing is lost, doubled or
\* overtaken, and what was sent arrives.
ImplementsChannel == Channel!Spec
=============================================================================
