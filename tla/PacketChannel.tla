---------------------------- MODULE PacketChannel ----------------------------
(***************************************************************************)
(* What a connection promises to the handlers at its ends: packets arrive   *)
(* whole, in the order they were sent, none of them twice, until the stream  *)
(* is cut in a wrong place or the connection reset; then nothing is         *)
(* promised.  TcpServer and TcpClient rest on it; Framing shows when the     *)
(* code keeps it.                                                          *)
(***************************************************************************)
EXTENDS Naturals, Sequences

CONSTANTS
  Packet,     \* packets that can be sent
  MaxPackets  \* bound: packets sent

VARIABLES
  whole,  \* the stream was neither cut in a wrong place nor reset
  sent,   \* packets sent so far
  got     \* packets dispatched so far

vars == <<whole, sent, got>>

Init == whole = TRUE /\ sent = <<>> /\ got = <<>>

Send(p) ==
  /\ whole
  /\ Len(sent) < MaxPackets
  /\ sent' = Append(sent, p)
  /\ UNCHANGED <<whole, got>>

Deliver ==
  /\ whole
  /\ Len(got) < Len(sent)
  /\ got' = Append(got, sent[Len(got) + 1])
  /\ UNCHANGED <<whole, sent>>

Cut ==
  /\ whole
  /\ whole' = FALSE
  /\ sent' = <<>> /\ got' = <<>>

Next == (\E p \in Packet : Send(p)) \/ Deliver \/ Cut

\* A packet that was sent arrives.
Spec == Init /\ [][Next]_vars /\ WF_vars(Deliver)
=============================================================================
