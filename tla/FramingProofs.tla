---------------------------- MODULE FramingProofs ----------------------------
(***************************************************************************)
(* Proofs about Framing, for any threads, commands, lengths of bodies and   *)
(* any size of the connection's buffer.                                    *)
(***************************************************************************)
EXTENDS Framing, FiniteSetTheorems, SequenceTheorems, TLAPS

\* Units of packet p in the stream.
Units(p) == HeaderLen + p.len

\* A packet that is being sent, or was, has a body and a short command.
BegunInOrder ==
  \A q \in DOMAIN begun :
    begun[q].id = q /\ begun[q].len # 0 /\ begun[q].cmd < TypeSize

\* Unit u is one of the given packets.
Known(u, packets) ==
  /\ u \in Unit
  /\ u.of \in DOMAIN packets
  /\ u.field = "size" => u.value \in BodyLen
  /\ u.field = "type" => u.value \in Command

KnownUnits ==
  /\ \A i \in DOMAIN wire : Known(wire[i], begun)
  /\ \A s \in Sender : \A i \in DOMAIN writing[s] :
       Known(writing[s][i], begun) /\ writing[s][i].of = writing[s][1].of

\* What the type invariant needs to hold again after a step.
FramingTypeInv == FramingTypeOK /\ BegunInOrder /\ KnownUnits

\* Thread s has not written the first unit of its packet; it has.
Fresh(s) == writing[s] # <<>> /\ writing[s][1].field = "sign"
Midway(s) == writing[s] # <<>> /\ writing[s][1].field # "sign"

\* line is the packets in the order of the stream: those sent, and perhaps one
\* of which only the first units were written.
LineOf(line) ==
  /\ line \in Seq(Packet)
  /\ Len(line) \in {Len(sent), Len(sent) + 1}
  /\ \A i \in 1 .. Len(sent) : line[i] = sent[i]
  /\ \A i \in 1 .. Len(line) :
       line[i].id \in DOMAIN begun /\ begun[line[i].id] = line[i]

\* cut[i] is where packet i of line ends in the stream.
CutsOf(line, cut) ==
  /\ cut \in [0 .. Len(line) -> Nat]
  /\ cut[0] = 0
  /\ \A i \in 1 .. Len(line) : cut[i] = cut[i - 1] + Units(line[i])
  /\ \A i, j \in 0 .. Len(line) : i <= j => cut[i] <= cut[j]

\* Units the receiver has taken off the stream.
Taken(cut) ==
  cut[Len(got)] + (IF pc = "body" THEN HeaderLen
                   ELSE IF pc = "dispatch" THEN HeaderLen + size ELSE 0)

\* Units written to the stream.
Written(cut) == Taken(cut) + Len(wire)

\* The wire holds the units of line from where the receiver is.
WireHolds(line, cut) ==
  \A i \in 1 .. Len(line) : \A j \in 1 .. Units(line[i]) :
    cut[i - 1] + j - Taken(cut) \in 1 .. Len(wire)
      => wire[cut[i - 1] + j - Taken(cut)] = create_packet(line[i])[j]

\* The last packet of line is the one that is not written to its end.  Of what
\* was written a reset leaves less.
WrittenTo(line, cut) ==
  IF Len(line) = Len(sent)
    THEN IF reset = "no" THEN Written(cut) = cut[Len(line)]
                         ELSE Written(cut) <= cut[Len(line)]
    ELSE /\ reset = "no" => cut[Len(sent)] < Written(cut)
         /\ Written(cut) < cut[Len(line)]

\* What thread s has not written of the last packet of line.
Rest(line, cut) ==
  SubSeq(create_packet(line[Len(line)]), Written(cut) - cut[Len(sent)] + 1,
         Units(line[Len(line)]))

\* A thread that is midway through a packet has the rest of the last of line,
\* and only a sending end that closed leaves a packet without such a thread.
Writers(line, cut) ==
  reset = "no" =>
    /\ \A s \in Sender : Fresh(s) =>
         \E q \in DOMAIN begun : writing[s] = create_packet(begun[q])
    /\ \A s \in Sender : Midway(s) =>
         Len(line) # Len(sent) /\ writing[s] = Rest(line, cut)
    /\ open /\ Len(line) # Len(sent) => \E s \in Sender : Midway(s)

\* What the receiver holds of the packet it is at.
Receiving(line) ==
  /\ pc # "crashed"
  /\ Len(got) <= Len(sent)
  /\ \A i \in 1 .. Len(got) :
       got[i] = [cmd |-> sent[i].cmd, body |-> Body(sent[i])]
  /\ pc \in {"body", "dispatch"} =>
       /\ Len(got) < Len(line)
       /\ size = line[Len(got) + 1].len
       /\ type = line[Len(got) + 1].cmd
  /\ pc = "dispatch" => buff = Body(line[Len(got) + 1])

\* One stream explains what is written, on the wire and received.
Explains(line, cut) ==
  /\ LineOf(line)
  /\ CutsOf(line, cut)
  /\ WireHolds(line, cut)
  /\ WrittenTo(line, cut)
  /\ Writers(line, cut)
  /\ Receiving(line)

\* Thread s is the one to write next: it is at the start of the last packet of
\* line, or midway through it, and every other thread is at the start of its own.
Turn(line, cut, s) ==
  /\ LineOf(line) /\ Len(line) = Len(sent) + 1
  /\ CutsOf(line, cut)
  /\ WireHolds(line, cut)
  /\ cut[Len(sent)] <= Written(cut) /\ Written(cut) < cut[Len(line)]
  /\ writing[s] = Rest(line, cut)
  /\ \A t \in Sender \ {s} : writing[t] # <<>> =>
       \E q \in DOMAIN begun : writing[t] = create_packet(begun[q])
  /\ Receiving(line)

\* The inductive invariant: as long as the stream was cut in the right places
\* there is a line of packets that explains the state.
WholeInv ==
  Whole => \E line \in Seq(Packet) : \E cut \in [0 .. Len(line) -> Nat] :
             Explains(line, cut)

-----------------------------------------------------------------------------
(* The operators of the model.                                              *)

\* The smaller of two numbers.
LEMMA MinOfTwo ==
  ASSUME NEW a \in Int, NEW b \in Int
  PROVE  Min({a, b}) = IF a <= b THEN a ELSE b
<1> DEFINE m == IF a <= b THEN a ELSE b
<1>1. m \in {a, b} /\ \A y \in {a, b} : m <= y
  OBVIOUS
<1>2. \A x \in {a, b} : (\A y \in {a, b} : x <= y) => x = m
  OBVIOUS
<1> QED
  BY <1>1, <1>2 DEF Min

\* A function on 1 .. n is a sequence.
LEMMA FunctionIsSeq ==
  ASSUME NEW S, NEW n \in Nat, NEW f \in [1 .. n -> S]
  PROVE  f \in Seq(S) /\ Len(f) = n
<1>1. f \in Seq(S)
  BY SMT
<1> QED
  BY <1>1, LenProperties

\* The body of a packet, unit by unit.
LEMMA BodyUnits ==
  ASSUME NEW p \in Packet
  PROVE  /\ Body(p) \in Seq([field : {"body"}, of : {p.id}, value : Nat])
         /\ Len(Body(p)) = p.len
         /\ \A i \in 1 .. p.len :
              Body(p)[i] = [field |-> "body", of |-> p.id, value |-> i]
<1>1. p.len \in Nat
  BY FramingAssumption DEF Packet
<1>2. Body(p) \in [1 .. p.len -> [field : {"body"}, of : {p.id}, value : Nat]]
  BY <1>1 DEF Body
<1>3. Body(p) \in Seq([field : {"body"}, of : {p.id}, value : Nat])
      /\ Len(Body(p)) = p.len
  BY <1>1, <1>2, FunctionIsSeq, Zenon
<1> QED
  BY <1>3 DEF Body

\* A packet in the stream: the three fields, then the body.
LEMMA PacketUnits ==
  ASSUME NEW p \in Packet, p.len # 0, p.cmd < TypeSize
  PROVE  /\ p.len \in Nat \ {0} /\ p.cmd \in Nat /\ p.id \in 1 .. MaxPackets
         /\ Units(p) \in Nat /\ Units(p) = p.len + 3
         /\ create_packet(p) \in Seq(Unit)
         /\ Len(create_packet(p)) = Units(p)
         /\ create_packet(p)[1] = [field |-> "sign", of |-> p.id, value |-> 0]
         /\ create_packet(p)[2] = [field |-> "size", of |-> p.id, value |-> p.len]
         /\ create_packet(p)[3] = [field |-> "type", of |-> p.id, value |-> p.cmd]
         /\ \A i \in 1 .. p.len : create_packet(p)[i + 3] = Body(p)[i]
<1> DEFINE head == <<[field |-> "sign", of |-> p.id, value |-> 0],
                     [field |-> "size", of |-> p.id, value |-> p.len],
                     [field |-> "type", of |-> p.id, value |-> p.cmd]>>
<1>1. p.len \in Nat \ {0} /\ p.cmd \in Nat /\ p.id \in 1 .. MaxPackets
  BY FramingAssumption DEF Packet
<1>2. create_packet(p) = head \o Body(p)
  <2>1. ~(p.len = 0 \/ p.cmd >= TypeSize)
    BY <1>1 DEF TypeSize
  <2> QED
    BY <2>1 DEF create_packet
<1>3. head \in Seq(Unit) /\ Len(head) = 3
  <2>1. /\ [field |-> "sign", of |-> p.id, value |-> 0] \in Unit
        /\ [field |-> "size", of |-> p.id, value |-> p.len] \in Unit
        /\ [field |-> "type", of |-> p.id, value |-> p.cmd] \in Unit
    BY <1>1 DEF Unit
  <2> QED
    BY <2>1
<1>4. Body(p) \in Seq(Unit) /\ Len(Body(p)) = p.len
  <2>1. [field : {"body"}, of : {p.id}, value : Nat] \subseteq Unit
    BY <1>1 DEF Unit
  <2> QED
    BY <2>1, BodyUnits, SeqMonotonic
<1>5. /\ head[1] = [field |-> "sign", of |-> p.id, value |-> 0]
      /\ head[2] = [field |-> "size", of |-> p.id, value |-> p.len]
      /\ head[3] = [field |-> "type", of |-> p.id, value |-> p.cmd]
  OBVIOUS
<1> HIDE DEF head
<1>6. /\ head \o Body(p) \in Seq(Unit)
      /\ Len(head \o Body(p)) = p.len + 3
      /\ \A i \in 1 .. p.len + 3 : (head \o Body(p))[i] =
           IF i <= 3 THEN head[i] ELSE Body(p)[i - 3]
  <2>1. /\ head \o Body(p) \in Seq(Unit)
        /\ Len(head \o Body(p)) = Len(head) + Len(Body(p))
        /\ \A i \in 1 .. Len(head) + Len(Body(p)) : (head \o Body(p))[i] =
             IF i <= Len(head) THEN head[i] ELSE Body(p)[i - Len(head)]
    BY <1>3, <1>4, ConcatProperties
  <2>2. Len(head) + Len(Body(p)) = p.len + 3
    BY <1>1, <1>3, <1>4
  <2> QED
    BY <2>1, <2>2, <1>3, Zenon
<1>7. Units(p) = p.len + 3
  BY <1>1 DEF Units, HeaderLen
<1>8. \A i \in 1 .. p.len : (head \o Body(p))[i + 3] = Body(p)[i]
  <2> SUFFICES ASSUME NEW i \in 1 .. p.len
               PROVE  (head \o Body(p))[i + 3] = Body(p)[i]
    OBVIOUS
  <2>1. i + 3 \in 1 .. p.len + 3 /\ ~(i + 3 <= 3) /\ (i + 3) - 3 = i
    BY <1>1
  <2> QED
    BY <2>1, <1>6
<1>9. /\ (head \o Body(p))[1] = head[1]
      /\ (head \o Body(p))[2] = head[2]
      /\ (head \o Body(p))[3] = head[3]
  <2>1. 1 \in 1 .. p.len + 3 /\ 2 \in 1 .. p.len + 3 /\ 3 \in 1 .. p.len + 3
    BY <1>1
  <2> QED
    BY <2>1, <1>6
<1>10. Units(p) \in Nat
  BY <1>1, <1>7
<1> QED
  BY <1>1, <1>2, <1>5, <1>6, <1>7, <1>8, <1>9, <1>10, Zenon

\* Each unit of a packet names the packet, and only the first one is a sign.
LEMMA PacketUnit ==
  ASSUME NEW p \in Packet, p.len # 0, p.cmd < TypeSize, NEW i \in 1 .. Units(p)
  PROVE  /\ create_packet(p)[i] \in Unit
         /\ create_packet(p)[i].of = p.id
         /\ create_packet(p)[i].field = "sign" <=> i = 1
         /\ create_packet(p)[i].field = "size" => create_packet(p)[i].value = p.len
         /\ create_packet(p)[i].field = "type" => create_packet(p)[i].value = p.cmd
<1> SUFFICES ASSUME NEW u, u = create_packet(p)[i]
             PROVE  /\ u \in Unit /\ u.of = p.id
                    /\ u.field = "sign" <=> i = 1
                    /\ u.field = "size" => u.value = p.len
                    /\ u.field = "type" => u.value = p.cmd
  BY Zenon
<1>1. /\ Units(p) = p.len + 3 /\ p.len \in Nat \ {0} /\ p.id \in 1 .. MaxPackets
      /\ i \in Nat
  <2>1. /\ Units(p) = p.len + 3 /\ p.len \in Nat \ {0}
        /\ p.id \in 1 .. MaxPackets /\ Units(p) \in Nat
    BY PacketUnits
  <2> QED
    BY <2>1
<1>2. u \in Unit
  BY PacketUnits, ElementOfSeq
<1>3. CASE i = 1
  <2>1. u = [field |-> "sign", of |-> p.id, value |-> 0]
    BY <1>3, PacketUnits
  <2>2. u.field = "sign" /\ u.of = p.id
    BY <2>1
  <2> QED
    BY <2>2, <1>2, <1>3
<1>4. CASE i = 2
  <2>1. u = [field |-> "size", of |-> p.id, value |-> p.len]
    BY <1>4, PacketUnits
  <2>2. u.field = "size" /\ u.of = p.id /\ u.value = p.len
    BY <2>1
  <2> QED
    BY <2>2, <1>2, <1>4
<1>5. CASE i = 3
  <2>1. u = [field |-> "type", of |-> p.id, value |-> p.cmd]
    BY <1>5, PacketUnits
  <2>2. u.field = "type" /\ u.of = p.id /\ u.value = p.cmd
    BY <2>1
  <2> QED
    BY <2>2, <1>2, <1>5
<1>6. CASE i > 3
  <2>1. i - 3 \in 1 .. p.len /\ (i - 3) + 3 = i
    BY <1>1, <1>6
  <2>2. create_packet(p)[(i - 3) + 3] = Body(p)[i - 3]
    BY <2>1, PacketUnits
  <2>3. u = [field |-> "body", of |-> p.id, value |-> i - 3]
    BY <2>1, <2>2, BodyUnits
  <2>4. u.field = "body" /\ u.of = p.id
    BY <2>3
  <2> QED
    BY <2>4, <1>2, <1>6
<1> QED
  BY <1>1, <1>3, <1>4, <1>5, <1>6

\* The two parts of a sequence cut after n of its elements.
LEMMA CutSeq ==
  ASSUME NEW S, NEW q \in Seq(S), NEW n \in 0 .. Len(q)
  PROVE  /\ Len(q) \in Nat /\ DOMAIN q = 1 .. Len(q)
         /\ SubSeq(q, 1, n) \in Seq(S) /\ Len(SubSeq(q, 1, n)) = n
         /\ \A i \in 1 .. n : SubSeq(q, 1, n)[i] = q[i]
         /\ SubSeq(q, n + 1, Len(q)) \in Seq(S)
         /\ Len(SubSeq(q, n + 1, Len(q))) = Len(q) - n
         /\ \A i \in 1 .. Len(q) - n : SubSeq(q, n + 1, Len(q))[i] = q[n + i]
<1>1. Len(q) \in Nat /\ DOMAIN q = 1 .. Len(q) /\ \A i \in 1 .. Len(q) : q[i] \in S
  BY LenProperties, ElementOfSeq
<1>2. /\ SubSeq(q, 1, n) \in Seq(S)
      /\ Len(SubSeq(q, 1, n)) = n
      /\ \A i \in 1 .. n : SubSeq(q, 1, n)[i] = q[i]
  <2>1. \A i \in 1 .. n : q[i] \in S
    BY <1>1
  <2>2. /\ SubSeq(q, 1, n) \in Seq(S)
        /\ Len(SubSeq(q, 1, n)) = IF 1 <= n THEN n - 1 + 1 ELSE 0
        /\ \A i \in 1 .. n - 1 + 1 : SubSeq(q, 1, n)[i] = q[1 + i - 1]
    BY <1>1, <2>1, SubSeqProperties
  <2> QED
    BY <1>1, <2>2
<1>3. /\ SubSeq(q, n + 1, Len(q)) \in Seq(S)
      /\ Len(SubSeq(q, n + 1, Len(q))) = Len(q) - n
      /\ \A i \in 1 .. Len(q) - n : SubSeq(q, n + 1, Len(q))[i] = q[n + i]
  <2> DEFINE r == SubSeq(q, n + 1, Len(q))
  <2>1. n + 1 \in Int /\ Len(q) \in Int /\ \A i \in n + 1 .. Len(q) : q[i] \in S
    BY <1>1
  <2>2. /\ r \in Seq(S)
        /\ Len(r) = IF n + 1 <= Len(q) THEN Len(q) - (n + 1) + 1 ELSE 0
        /\ \A i \in 1 .. Len(q) - (n + 1) + 1 : r[i] = q[(n + 1) + i - 1]
    BY <2>1, SubSeqProperties
  <2> HIDE DEF r
  <2>3. /\ Len(r) = Len(q) - n
        /\ Len(q) - (n + 1) + 1 = Len(q) - n
    <3>1. \A a \in Nat : \A b \in 0 .. a :
            /\ a - (b + 1) + 1 = a - b
            /\ (IF b + 1 <= a THEN a - (b + 1) + 1 ELSE 0) = a - b
      OBVIOUS
    <3> QED
      BY <1>1, <2>2, <3>1, Zenon
  <2>4. \A i \in 1 .. Len(q) - n : r[i] = q[n + i]
    <3> SUFFICES ASSUME NEW i \in 1 .. Len(q) - n PROVE r[i] = q[n + i]
      OBVIOUS
    <3>1. (n + 1) + i - 1 = n + i
      BY <1>1
    <3>2. r[i] = q[(n + 1) + i - 1]
      BY <2>2, <2>3
    <3> QED
      BY <3>1, <3>2
  <2> QED
    BY <2>2, <2>3, <2>4 DEF r
<1> QED
  BY <1>1, <1>2, <1>3

-----------------------------------------------------------------------------
(* The actions.                                                             *)

\* How many units ::recv may return: no more than it was asked for, no more
\* than there are.
LEMMA PartsBound ==
  ASSUME FramingTypeOK, NEW n \in Nat, NEW k \in Parts(n)
  PROVE  k \in 0 .. Len(wire) /\ k <= n
<1>1. Len(wire) \in Nat
  BY LenProperties DEF FramingTypeOK
<1>2. Min({n, Len(wire)}) = IF n <= Len(wire) THEN n ELSE Len(wire)
  BY <1>1, MinOfTwo
<1> QED
  BY <1>1, <1>2 DEF Parts

\* What one ::send writes.
LEMMA WriteStep ==
  ASSUME FramingTypeInv, NEW s \in Sender, Write(s)
  PROVE  \E n \in 1 .. Len(writing[s]) :
           /\ Len(wire) + n <= Window
           /\ wire' = wire \o SubSeq(writing[s], 1, n)
           /\ writing' = [writing EXCEPT ![s] = SubSeq(writing[s], n + 1, Len(writing[s]))]
           /\ sent' = IF n = Len(writing[s])
                        THEN Append(sent, begun[writing[s][1].of]) ELSE sent
           /\ mixed' = (mixed \/ \E t \in Sending \ {s} : writing[t][1].field # "sign")
           /\ open
           /\ UNCHANGED <<side, reset, begun, open, pc, size, type, buff, got, short, failed>>
<1> DEFINE all == writing[s]
           n   == Min({Len(all), Window - Len(wire)})
<1>1. Len(wire) \in Nat /\ Len(all) \in Nat /\ Window - Len(wire) \in Int
  <2>1. wire \in Seq(Unit) /\ all \in Seq(Unit)
    BY DEF FramingTypeInv, FramingTypeOK
  <2> QED
    BY <2>1, LenProperties, FramingAssumption
<1>2. n = IF Len(all) <= Window - Len(wire) THEN Len(all) ELSE Window - Len(wire)
  BY <1>1, MinOfTwo
<1>3. n > 0
  BY DEF Write
<1>4. n \in 1 .. Len(all) /\ Len(wire) + n <= Window
  BY <1>1, <1>2, <1>3, FramingAssumption
<1>5. \A t \in Sender : writing[t] # <<>> => Head(writing[t]) = writing[t][1]
  BY DEF FramingTypeInv, FramingTypeOK
<1>6. all # <<>> /\ Head(all) = all[1]
  BY <1>5 DEF Write
<1>7. /\ wire' = wire \o SubSeq(all, 1, n)
      /\ writing' = [writing EXCEPT ![s] = SubSeq(all, n + 1, Len(all))]
      /\ sent' = IF n = Len(all) THEN Append(sent, begun[all[1].of]) ELSE sent
      /\ mixed' = (mixed \/ \E t \in Sending \ {s} : writing[t][1].field # "sign")
      /\ open
      /\ UNCHANGED <<side, reset, begun, open, pc, size, type, buff, got, short, failed>>
  <2>1. (\E t \in Sending \ {s} : Head(writing[t]).field # "sign")
          = (\E t \in Sending \ {s} : writing[t][1].field # "sign")
    BY <1>5, Zenon DEF Sending
  <2> QED
    BY <1>6, <2>1, Zenon DEF Write, ends, recvVars
<1> HIDE DEF n
<1> QED
  BY <1>4, <1>7

-----------------------------------------------------------------------------
(* The type invariant.                                                      *)

\* The packet that a thread hands to ::send keeps the type invariant.
LEMMA SendBeginTypes ==
  ASSUME FramingTypeInv, NEW s \in Sender, NEW cmd \in Command, NEW n \in BodyLen,
         SendBegin(s, cmd, n)
  PROVE  FramingTypeInv'
<1> DEFINE p == [id |-> Len(begun) + 1, cmd |-> cmd, len |-> n]
<1>1. /\ Len(begun) < MaxPackets
      /\ create_packet(p) # <<>>
      /\ writing' = [writing EXCEPT ![s] = create_packet(p)]
      /\ begun' = Append(begun, p)
      /\ UNCHANGED <<side, reset, wire, sent, open, mixed, pc, size, type, buff, got, short, failed>>
  BY DEF SendBegin, ends, recvVars
<1>2. begun \in Seq(Packet) /\ Len(begun) \in Nat /\ DOMAIN begun = 1 .. Len(begun)
  BY LenProperties DEF FramingTypeInv, FramingTypeOK
<1>3. p \in Packet /\ p.id = Len(begun) + 1 /\ p.cmd = cmd /\ p.len = n
  <2>1. Len(begun) + 1 \in 1 .. MaxPackets
    BY <1>1, <1>2, FramingAssumption
  <2> QED
    BY <2>1 DEF Packet
<1> HIDE DEF p
<1>4. p.len # 0 /\ p.cmd < TypeSize
  BY <1>1, <1>3, FramingAssumption DEF create_packet, TypeSize
<1>5. /\ begun' \in Seq(Packet)
      /\ Len(begun') = Len(begun) + 1
      /\ \A i \in 1 .. Len(begun) : begun'[i] = begun[i]
      /\ begun'[Len(begun) + 1] = p
  BY <1>1, <1>2, <1>3, AppendProperties
<1>6. DOMAIN begun' = 1 .. Len(begun) + 1 /\ Len(begun') <= MaxPackets
  BY <1>1, <1>2, <1>5, LenProperties, FramingAssumption
<1>7. create_packet(p) \in Seq(Unit)
  BY <1>3, <1>4, PacketUnits
<1>8. FramingTypeOK'
  <2>1. writing' \in [Sender -> Seq(Unit)]
    BY <1>1, <1>7 DEF FramingTypeInv, FramingTypeOK
  <2> QED
    BY <2>1, <1>1, <1>5, <1>6 DEF FramingTypeInv, FramingTypeOK
<1>9. BegunInOrder'
  BY <1>2, <1>3, <1>4, <1>5, <1>6 DEF BegunInOrder, FramingTypeInv
<1>10. \A u : Known(u, begun) => Known(u, begun')
  BY <1>2, <1>6 DEF Known, Unit
<1>11. \A i \in 1 .. Units(p) :
         Known(create_packet(p)[i], begun') /\ create_packet(p)[i].of = create_packet(p)[1].of
  <2> SUFFICES ASSUME NEW i \in 1 .. Units(p)
               PROVE  Known(create_packet(p)[i], begun')
                      /\ create_packet(p)[i].of = create_packet(p)[1].of
    OBVIOUS
  <2>1. 1 \in 1 .. Units(p)
    <3>1. Units(p) \in Nat /\ Units(p) = p.len + 3 /\ p.len \in Nat
      BY <1>3, <1>4, PacketUnits
    <3> QED
      BY <3>1
  <2>2. create_packet(p)[i].of = p.id /\ create_packet(p)[1].of = p.id
    BY <2>1, <1>3, <1>4, PacketUnit
  <2>3. /\ create_packet(p)[i] \in Unit
        /\ create_packet(p)[i].field = "size" => create_packet(p)[i].value = n
        /\ create_packet(p)[i].field = "type" => create_packet(p)[i].value = cmd
    BY <1>3, <1>4, PacketUnit
  <2>4. p.id \in DOMAIN begun'
    BY <1>2, <1>3, <1>6
  <2> QED
    BY <2>2, <2>3, <2>4 DEF Known
<1>12. KnownUnits'
  <2>1. DOMAIN create_packet(p) = 1 .. Units(p)
    BY <1>3, <1>4, <1>7, PacketUnits, LenProperties
  <2>2. \A i \in DOMAIN wire' : Known(wire'[i], begun')
    BY <1>1, <1>10 DEF FramingTypeInv, KnownUnits
  <2>3. ASSUME NEW t \in Sender, NEW i \in DOMAIN writing'[t]
        PROVE  Known(writing'[t][i], begun') /\ writing'[t][i].of = writing'[t][1].of
    <3>1. CASE t = s
      <4>1. writing'[t] = create_packet(p)
        BY <3>1, <1>1 DEF FramingTypeInv, FramingTypeOK
      <4> QED
        BY <4>1, <2>1, <2>3, <1>11
    <3>2. CASE t # s
      <4>1. writing'[t] = writing[t]
        BY <3>2, <1>1 DEF FramingTypeInv, FramingTypeOK
      <4> QED
        BY <4>1, <2>3, <1>10 DEF FramingTypeInv, KnownUnits
    <3> QED
      BY <3>1, <3>2
  <2> QED
    BY <2>2, <2>3 DEF KnownUnits
<1> QED
  BY <1>8, <1>9, <1>12 DEF FramingTypeInv

\* What a ::send of n units leaves on the wire and to be written.
LEMMA WriteUnits ==
  ASSUME FramingTypeOK, NEW s \in Sender, NEW n \in 1 .. Len(writing[s]),
         wire' = wire \o SubSeq(writing[s], 1, n),
         writing' = [writing EXCEPT ![s] = SubSeq(writing[s], n + 1, Len(writing[s]))]
  PROVE  /\ Len(wire) \in Nat /\ Len(writing[s]) \in Nat
         /\ wire' \in Seq(Unit) /\ Len(wire') = Len(wire) + n
         /\ \A i \in 1 .. Len(wire) : wire'[i] = wire[i]
         /\ \A i \in 1 .. n : wire'[Len(wire) + i] = writing[s][i]
         /\ writing' \in [Sender -> Seq(Unit)]
         /\ writing'[s] = SubSeq(writing[s], n + 1, Len(writing[s]))
         /\ Len(writing'[s]) = Len(writing[s]) - n
         /\ \A i \in 1 .. Len(writing[s]) - n : writing'[s][i] = writing[s][n + i]
         /\ \A t \in Sender \ {s} : writing'[t] = writing[t]
<1>1. wire \in Seq(Unit) /\ writing[s] \in Seq(Unit) /\ writing \in [Sender -> Seq(Unit)]
  BY DEF FramingTypeOK
<1>2. n \in 0 .. Len(writing[s]) /\ Len(writing[s]) \in Nat /\ Len(wire) \in Nat /\ n \in Nat
  BY <1>1, LenProperties
<1> DEFINE new == SubSeq(writing[s], 1, n)
           rest == SubSeq(writing[s], n + 1, Len(writing[s]))
<1>3. /\ new \in Seq(Unit) /\ Len(new) = n
      /\ \A i \in 1 .. n : new[i] = writing[s][i]
      /\ rest \in Seq(Unit) /\ Len(rest) = Len(writing[s]) - n
      /\ \A i \in 1 .. Len(writing[s]) - n : rest[i] = writing[s][n + i]
  <2>1. ASSUME NEW q \in Seq(Unit), NEW m \in 0 .. Len(q)
        PROVE  /\ SubSeq(q, 1, m) \in Seq(Unit) /\ Len(SubSeq(q, 1, m)) = m
               /\ \A i \in 1 .. m : SubSeq(q, 1, m)[i] = q[i]
               /\ SubSeq(q, m + 1, Len(q)) \in Seq(Unit)
               /\ Len(SubSeq(q, m + 1, Len(q))) = Len(q) - m
               /\ \A i \in 1 .. Len(q) - m : SubSeq(q, m + 1, Len(q))[i] = q[m + i]
    BY CutSeq
  <2> QED
    BY <1>1, <1>2, <2>1, Zenon
<1>4. wire' = wire \o new /\ writing' = [writing EXCEPT ![s] = rest]
  OBVIOUS
<1> HIDE DEF new, rest
<1>5. /\ wire' \in Seq(Unit)
      /\ Len(wire') = Len(wire) + n
      /\ \A i \in 1 .. Len(wire) + n :
           wire'[i] = IF i <= Len(wire) THEN wire[i] ELSE new[i - Len(wire)]
  <2>1. /\ wire \o new \in Seq(Unit)
        /\ Len(wire \o new) = Len(wire) + Len(new)
        /\ \A i \in 1 .. Len(wire) + Len(new) :
             (wire \o new)[i] = IF i <= Len(wire) THEN wire[i] ELSE new[i - Len(wire)]
    BY <1>1, <1>3, ConcatProperties
  <2> QED
    BY <2>1, <1>3, <1>4, Zenon
<1>6. \A i \in 1 .. Len(wire) : wire'[i] = wire[i]
  BY <1>2, <1>5
<1>7. \A i \in 1 .. n : wire'[Len(wire) + i] = writing[s][i]
  <2> SUFFICES ASSUME NEW i \in 1 .. n PROVE wire'[Len(wire) + i] = writing[s][i]
    OBVIOUS
  <2>1. /\ Len(wire) + i \in 1 .. Len(wire) + n
        /\ ~(Len(wire) + i <= Len(wire))
        /\ (Len(wire) + i) - Len(wire) = i
    BY <1>2
  <2> QED
    BY <2>1, <1>3, <1>5
<1>8. writing' \in [Sender -> Seq(Unit)] /\ writing'[s] = rest
      /\ \A t \in Sender \ {s} : writing'[t] = writing[t]
  BY <1>1, <1>3, <1>4
<1> QED
  BY <1>2, <1>3, <1>5, <1>6, <1>7, <1>8 DEF rest

\* A ::send keeps the type invariant.
LEMMA WriteTypes ==
  ASSUME FramingTypeInv, NEW s \in Sender, Write(s)
  PROVE  FramingTypeInv'
<1>1. PICK n \in 1 .. Len(writing[s]) :
        /\ Len(wire) + n <= Window
        /\ wire' = wire \o SubSeq(writing[s], 1, n)
        /\ writing' = [writing EXCEPT ![s] = SubSeq(writing[s], n + 1, Len(writing[s]))]
        /\ sent' = IF n = Len(writing[s])
                     THEN Append(sent, begun[writing[s][1].of]) ELSE sent
        /\ mixed' = (mixed \/ \E t \in Sending \ {s} : writing[t][1].field # "sign")
        /\ UNCHANGED <<side, reset, begun, open, pc, size, type, buff, got, short, failed>>
  BY WriteStep, Zenon
<1>2. FramingTypeOK
  BY DEF FramingTypeInv
<1>3. /\ Len(wire) \in Nat /\ Len(writing[s]) \in Nat
      /\ wire' \in Seq(Unit) /\ Len(wire') = Len(wire) + n
      /\ \A i \in 1 .. Len(wire) : wire'[i] = wire[i]
      /\ \A i \in 1 .. n : wire'[Len(wire) + i] = writing[s][i]
      /\ writing' \in [Sender -> Seq(Unit)]
      /\ Len(writing'[s]) = Len(writing[s]) - n
      /\ \A i \in 1 .. Len(writing[s]) - n : writing'[s][i] = writing[s][n + i]
      /\ \A t \in Sender \ {s} : writing'[t] = writing[t]
  BY <1>1, <1>2, WriteUnits
<1>4. DOMAIN wire = 1 .. Len(wire) /\ DOMAIN writing[s] = 1 .. Len(writing[s])
      /\ DOMAIN wire' = 1 .. Len(wire) + n
      /\ DOMAIN writing'[s] = 1 .. Len(writing[s]) - n
  <2>1. wire \in Seq(Unit) /\ writing[s] \in Seq(Unit) /\ writing'[s] \in Seq(Unit)
    BY <1>2, <1>3 DEF FramingTypeOK
  <2> QED
    BY <2>1, <1>3, LenProperties
<1>5. /\ \A i \in 1 .. Len(wire) : Known(wire[i], begun)
      /\ \A i \in 1 .. Len(writing[s]) :
           Known(writing[s][i], begun) /\ writing[s][i].of = writing[s][1].of
  BY <1>4 DEF FramingTypeInv, KnownUnits
<1>6. begun[writing[s][1].of] \in Packet
  <2>1. 1 \in 1 .. Len(writing[s])
    BY <1>3
  <2>2. writing[s][1].of \in DOMAIN begun
    BY <1>5, <2>1 DEF Known
  <2> QED
    BY <2>2, <1>2, LenProperties, ElementOfSeq DEF FramingTypeOK
<1>7. FramingTypeOK'
  <2>1. mixed' \in BOOLEAN
    BY <1>1, <1>2, Zenon DEF FramingTypeOK
  <2>2. sent' \in Seq(Packet)
    BY <1>1, <1>2, <1>6, AppendProperties DEF FramingTypeOK
  <2>3. Len(wire') <= Window
    BY <1>1, <1>3
  <2> QED
    BY <2>1, <2>2, <2>3, <1>1, <1>2, <1>3 DEF FramingTypeOK
<1>8. BegunInOrder'
  BY <1>1 DEF FramingTypeInv, BegunInOrder
<1>9. \A i \in DOMAIN wire' : Known(wire'[i], begun')
  <2> SUFFICES ASSUME NEW i \in 1 .. Len(wire) + n PROVE Known(wire'[i], begun)
    BY <1>1, <1>4
  <2>1. CASE i <= Len(wire)
    <3>1. i \in 1 .. Len(wire)
      BY <2>1, <1>3
    <3> QED
      BY <3>1, <1>3, <1>5
  <2>2. CASE i > Len(wire)
    <3>1. i - Len(wire) \in 1 .. n /\ i - Len(wire) \in 1 .. Len(writing[s])
          /\ Len(wire) + (i - Len(wire)) = i
      BY <2>2, <1>3
    <3> QED
      BY <3>1, <1>3, <1>5
  <2> QED
    BY <2>1, <2>2, <1>3
<1>10. ASSUME NEW t \in Sender, NEW i \in DOMAIN writing'[t]
       PROVE  Known(writing'[t][i], begun') /\ writing'[t][i].of = writing'[t][1].of
  <2>1. CASE t = s
    <3>1. i \in 1 .. Len(writing[s]) - n /\ 1 \in 1 .. Len(writing[s]) - n
      BY <1>3, <1>4, <1>10, <2>1
    <3>2. n + i \in 1 .. Len(writing[s]) /\ n + 1 \in 1 .. Len(writing[s])
      BY <1>3, <3>1
    <3>3. writing'[s][i] = writing[s][n + i] /\ writing'[s][1] = writing[s][n + 1]
      BY <1>3, <3>1
    <3> QED
      BY <3>2, <3>3, <2>1, <1>1, <1>5
  <2>2. CASE t # s
    <3>1. writing'[t] = writing[t]
      BY <2>2, <1>3
    <3> QED
      BY <3>1, <1>1, <1>10 DEF FramingTypeInv, KnownUnits
  <2> QED
    BY <2>1, <2>2
<1> QED
  BY <1>7, <1>8, <1>9, <1>10 DEF FramingTypeInv, KnownUnits

\* What is left on the wire when k units were received.
LEMMA ReceiveUnits ==
  ASSUME FramingTypeInv, NEW k \in 0 .. Len(wire), wire' = SubSeq(wire, k + 1, Len(wire)),
         UNCHANGED <<writing, begun>>
  PROVE  /\ Len(wire) \in Nat
         /\ wire' \in Seq(Unit) /\ Len(wire') = Len(wire) - k /\ Len(wire') <= Window
         /\ \A i \in 1 .. Len(wire) - k : wire'[i] = wire[k + i]
         /\ SubSeq(wire, 1, k) \in Seq(Unit) /\ Len(SubSeq(wire, 1, k)) = k
         /\ \A i \in 1 .. k : SubSeq(wire, 1, k)[i] = wire[i]
         /\ BegunInOrder' /\ KnownUnits'
<1>1. wire \in Seq(Unit) /\ Len(wire) <= Window
  BY DEF FramingTypeInv, FramingTypeOK
<1>2. Len(wire) \in Nat
  BY <1>1, LenProperties
<1>3. /\ DOMAIN wire = 1 .. Len(wire)
      /\ wire' \in Seq(Unit) /\ Len(wire') = Len(wire) - k
      /\ \A i \in 1 .. Len(wire) - k : wire'[i] = wire[k + i]
      /\ SubSeq(wire, 1, k) \in Seq(Unit) /\ Len(SubSeq(wire, 1, k)) = k
      /\ \A i \in 1 .. k : SubSeq(wire, 1, k)[i] = wire[i]
  BY <1>1, CutSeq
<1>4. Len(wire') <= Window
  <2>1. Len(wire') = Len(wire) - k
    BY <1>3, Zenon
  <2> QED
    BY <2>1, <1>1, <1>2, FramingAssumption
<1>5. \A i \in DOMAIN wire' : Known(wire'[i], begun')
  <2> SUFFICES ASSUME NEW i \in 1 .. Len(wire) - k PROVE Known(wire'[i], begun)
    BY <1>3, LenProperties
  <2>1. k + i \in 1 .. Len(wire)
    BY <1>2
  <2> QED
    BY <2>1, <1>3 DEF FramingTypeInv, KnownUnits
<1> QED
  BY <1>2, <1>3, <1>4, <1>5 DEF FramingTypeInv, KnownUnits, BegunInOrder

\* A ::recv of a header keeps the type invariant, wherever the header is cut.
LEMMA RecvHeaderTypes ==
  ASSUME FramingTypeInv, NEW k \in 1 .. HeaderLen, RecvHeader(k)
  PROVE  FramingTypeInv' /\ k \in 0 .. Len(wire)
<1>1. FramingTypeOK
  BY DEF FramingTypeInv
<1>2. k \in Parts(HeaderLen) /\ HeaderLen \in Nat
  BY DEF RecvHeader, HeaderLen
<1>3. k \in 0 .. Len(wire)
  BY <1>1, <1>2, PartsBound
<1>4. /\ wire' = SubSeq(wire, k + 1, Len(wire))
      /\ UNCHANGED <<side, reset, writing, begun, sent, open, mixed, got, failed>>
      /\ size' \in FieldValue(k, 2, "size", Garbage)
      /\ type' \in FieldValue(k, 3, "type", {0})
      /\ buff' = <<>> /\ short' = (short \/ k < HeaderLen)
      /\ pc' = IF size' # 0 THEN "body" ELSE IF side = "server" THEN "done" ELSE "header"
  BY DEF RecvHeader, ends, sendVars
<1>5. Len(wire) \in Nat /\ wire' \in Seq(Unit) /\ Len(wire') <= Window
      /\ BegunInOrder' /\ KnownUnits'
  BY <1>3, <1>4, ReceiveUnits
<1>6. DOMAIN wire = 1 .. Len(wire)
  BY <1>1, LenProperties DEF FramingTypeOK
<1>7. size' \in 0 .. Huge
  <2>1. CASE k >= 2 /\ wire[2].field = "size"
    <3>1. Known(wire[2], begun)
      BY <2>1, <1>3, <1>5, <1>6 DEF FramingTypeInv, KnownUnits
    <3>2. size' = wire[2].value
      BY <2>1, <1>4 DEF FieldValue
    <3>3. size' \in BodyLen
      BY <2>1, <3>1, <3>2 DEF Known
    <3> QED
      BY <3>3, FramingAssumption
  <2>2. CASE ~(k >= 2 /\ wire[2].field = "size")
    BY <2>2, <1>4, FramingAssumption DEF FieldValue
  <2> QED
    BY <2>1, <2>2
<1>8. type' \in Command \cup {0}
  <2>1. CASE k >= 3 /\ wire[3].field = "type"
    <3>1. Known(wire[3], begun)
      BY <2>1, <1>3, <1>5, <1>6 DEF FramingTypeInv, KnownUnits
    <3> QED
      BY <2>1, <3>1, <1>4 DEF Known, FieldValue
  <2>2. CASE ~(k >= 3 /\ wire[3].field = "type")
    BY <2>2, <1>4 DEF FieldValue
  <2> QED
    BY <2>1, <2>2
<1>9. short' \in BOOLEAN
  BY <1>1, <1>4, Zenon DEF FramingTypeOK
<1>10. FramingTypeOK'
  BY <1>1, <1>4, <1>5, <1>7, <1>8, <1>9, EmptySeq DEF FramingTypeOK
<1> QED
  BY <1>3, <1>5, <1>10 DEF FramingTypeInv

\* A ::recv of a body keeps the type invariant, whatever it is taken from.
LEMMA RecvBodyTypes ==
  ASSUME FramingTypeInv, NEW k \in 1 .. Window, RecvBody(k)
  PROVE  FramingTypeInv' /\ k \in 0 .. Len(wire) /\ k <= size
<1>1. FramingTypeOK
  BY DEF FramingTypeInv
<1>2. k \in Parts(size) /\ size \in Nat
  BY <1>1, FramingAssumption DEF RecvBody, FramingTypeOK
<1>3. k \in 0 .. Len(wire) /\ k <= size
  BY <1>1, <1>2, PartsBound
<1>4. /\ wire' = SubSeq(wire, k + 1, Len(wire))
      /\ UNCHANGED <<side, reset, writing, begun, sent, open, mixed, got, size, type, failed>>
      /\ buff' = SubSeq(wire, 1, k) /\ short' = (short \/ k < size)
      /\ pc' = "dispatch"
  BY DEF RecvBody, ends, sendVars
<1>5. wire' \in Seq(Unit) /\ Len(wire') <= Window /\ buff' \in Seq(Unit)
      /\ BegunInOrder' /\ KnownUnits'
  BY <1>3, <1>4, ReceiveUnits, Zenon
<1>6. short' \in BOOLEAN
  BY <1>1, <1>4, Zenon DEF FramingTypeOK
<1>7. FramingTypeOK'
  BY <1>1, <1>4, <1>5, <1>6 DEF FramingTypeOK
<1> QED
  BY <1>3, <1>5, <1>7 DEF FramingTypeInv

\* The first units of the wire.
LEMMA CutWire ==
  ASSUME FramingTypeInv, NEW k \in 0 .. Len(wire), wire' = SubSeq(wire, 1, k)
  PROVE  /\ wire' \in Seq(Unit) /\ Len(wire') = k /\ k <= Len(wire)
         /\ k \in Nat /\ Len(wire) \in Nat /\ Len(wire') <= Window /\ DOMAIN wire' = 1 .. k
         /\ \A i \in 1 .. k : i \in DOMAIN wire /\ wire'[i] = wire[i]
<1>1. wire \in Seq(Unit) /\ Len(wire) <= Window /\ Len(wire) \in Nat
  BY LenProperties DEF FramingTypeInv, FramingTypeOK
<1>2. /\ wire' \in Seq(Unit) /\ Len(wire') = k /\ DOMAIN wire = 1 .. Len(wire)
      /\ \A i \in 1 .. k : wire'[i] = wire[i]
  BY <1>1, CutSeq
<1>3. DOMAIN wire' = 1 .. k
  BY <1>2, LenProperties
<1> QED
  BY <1>1, <1>2, <1>3, FramingAssumption

\* Every step keeps the type invariant.
LEMMA FramingTypeStep == FramingTypeInv /\ [Next]_vars => FramingTypeInv'
<1> SUFFICES ASSUME FramingTypeInv, [Next]_vars PROVE FramingTypeInv'
  OBVIOUS
<1>1. ASSUME NEW s \in Sender, Send(s) PROVE FramingTypeInv'
  BY <1>1, SendBeginTypes DEF Send
<1>2. ASSUME NEW s \in Sender, Write(s) PROVE FramingTypeInv'
  BY <1>2, WriteTypes
<1>3. CASE Close
  <2>1. /\ writing' = [s \in Sender |-> <<>>] /\ open' = FALSE
        /\ UNCHANGED <<side, reset, wire, begun, sent, mixed, pc, size, type, buff, got, short, failed>>
    BY <1>3 DEF Close, ends, recvVars
  <2>2. writing' \in [Sender -> Seq(Unit)]
    BY <2>1, EmptySeq
  <2>3. FramingTypeOK'
    BY <2>1, <2>2 DEF FramingTypeInv, FramingTypeOK
  <2>4. \A s \in Sender : DOMAIN writing'[s] = {}
    BY <2>1
  <2>5. KnownUnits'
    BY <2>1, <2>4 DEF FramingTypeInv, KnownUnits
  <2> QED
    BY <2>1, <2>3, <2>5 DEF FramingTypeInv, BegunInOrder
<1>3a. CASE Reset
  <2>1. /\ writing' = [s \in Sender |-> <<>>] /\ open' = FALSE
        /\ reset' \in {"once", "always"}
        /\ UNCHANGED <<side, begun, sent, mixed, pc, size, type, buff, got, short, failed>>
    BY <1>3a DEF Reset, recvVars
  <2>2. PICK k \in 0 .. Len(wire) : wire' = SubSeq(wire, 1, k)
    BY <1>3a DEF Reset
  <2>3. /\ wire' \in Seq(Unit) /\ Len(wire') <= Window /\ DOMAIN wire' = 1 .. k
        /\ \A i \in 1 .. k : i \in DOMAIN wire /\ wire'[i] = wire[i]
    BY <2>2, CutWire
  <2>4. writing' \in [Sender -> Seq(Unit)]
    BY <2>1, EmptySeq
  <2>5. FramingTypeOK'
    BY <2>1, <2>3, <2>4 DEF FramingTypeInv, FramingTypeOK
  <2>6. \A s \in Sender : DOMAIN writing'[s] = {}
    BY <2>1
  <2>7. KnownUnits'
    BY <2>1, <2>3, <2>6 DEF FramingTypeInv, KnownUnits
  <2> QED
    BY <2>1, <2>5, <2>7 DEF FramingTypeInv, BegunInOrder
<1>3b. CASE RecvHeaderError \/ RecvNoHeader \/ RecvBodyError
  <2>1. /\ UNCHANGED <<side, writing, begun, sent, open, mixed, wire, got, short>>
        /\ reset \in {"once", "always"} /\ reset' \in {"told", "always"}
        /\ pc' \in {"header", "body", "done"}
        /\ failed' \in {failed, TRUE}
        /\ size' = size \/ size' \in Garbage \/ size' = 0
        /\ type' \in {type, 0}
        /\ buff' = buff \/ buff' = <<>>
    BY <1>3b DEF RecvHeaderError, RecvNoHeader, RecvBodyError, sendVars, AtError, Told
  <2>2. size' \in 0 .. Huge
    <3>1. size \in 0 .. Huge
      BY DEF FramingTypeInv, FramingTypeOK
    <3>2. Garbage \subseteq 0 .. Huge /\ 0 \in 0 .. Huge
      BY FramingAssumption
    <3>3. size' = size \/ size' \in Garbage \/ size' = 0
      BY <2>1
    <3> QED
      BY <3>1, <3>2, <3>3, Zenon
  <2>3. type' \in Command \cup {0} /\ buff' \in Seq(Unit)
    <3>1. <<>> \in Seq(Unit)
      BY EmptySeq
    <3> QED
      BY <2>1, <3>1, Zenon DEF FramingTypeInv, FramingTypeOK
  <2>4. failed' \in BOOLEAN
    BY <2>1, Zenon DEF FramingTypeInv, FramingTypeOK
  <2>5. FramingTypeOK'
    BY <2>1, <2>2, <2>3, <2>4 DEF FramingTypeInv, FramingTypeOK
  <2> QED
    BY <2>1, <2>5 DEF FramingTypeInv, BegunInOrder, KnownUnits
<1>4. ASSUME NEW k \in 1 .. HeaderLen, RecvHeader(k) PROVE FramingTypeInv'
  BY <1>4, RecvHeaderTypes
<1>5. CASE ResizeFails
  BY <1>5 DEF ResizeFails, ends, sendVars, FramingTypeInv, FramingTypeOK, KnownUnits,
    BegunInOrder
<1>6. ASSUME NEW k \in 1 .. Window, RecvBody(k) PROVE FramingTypeInv'
  BY <1>6, RecvBodyTypes
<1>7. CASE RecvBodyEnd
  BY <1>7 DEF RecvBodyEnd, ends, sendVars, FramingTypeInv, FramingTypeOK, KnownUnits,
    BegunInOrder
<1>8. CASE Dispatch
  <2>1. /\ got' = Append(got, [cmd |-> type, body |-> buff])
        /\ size' = 0 /\ type' = 0 /\ buff' = <<>> /\ pc' = "header"
        /\ UNCHANGED <<side, reset, writing, begun, sent, open, mixed, wire, short, failed>>
    BY <1>8 DEF Dispatch, ends, sendVars
  <2>2. [cmd |-> type, body |-> buff] \in [cmd : Command \cup {0}, body : Seq(Unit)]
    BY DEF FramingTypeInv, FramingTypeOK
  <2>3. got' \in Seq([cmd : Command \cup {0}, body : Seq(Unit)])
    BY <2>1, <2>2, AppendProperties DEF FramingTypeInv, FramingTypeOK
  <2>4. FramingTypeOK'
    BY <2>1, <2>3, FramingAssumption, EmptySeq DEF FramingTypeInv, FramingTypeOK
  <2> QED
    BY <2>1, <2>4 DEF FramingTypeInv, KnownUnits, BegunInOrder
<1>9. CASE RecvEnd
  BY <1>9 DEF RecvEnd, ends, sendVars, FramingTypeInv, FramingTypeOK, KnownUnits,
    BegunInOrder
<1>10. CASE UNCHANGED vars
  BY <1>10 DEF vars, ends, sendVars, recvVars, FramingTypeInv, FramingTypeOK, KnownUnits,
    BegunInOrder
<1> QED
  BY <1>1, <1>2, <1>3, <1>3a, <1>3b, <1>4, <1>5, <1>6, <1>7, <1>8, <1>9, <1>10
  DEF Next, Receive

\* It holds before anything is sent.
LEMMA FramingTypeInit == Init => FramingTypeInv
<1> SUFFICES ASSUME Init PROVE FramingTypeInv
  OBVIOUS
<1>1. FramingTypeOK
  <2>1. /\ writing \in [Sender -> Seq(Unit)] /\ wire \in Seq(Unit) /\ Len(wire) = 0
        /\ begun \in Seq(Packet) /\ Len(begun) = 0 /\ sent \in Seq(Packet)
        /\ buff \in Seq(Unit) /\ got \in Seq([cmd : Command \cup {0}, body : Seq(Unit)])
    BY EmptySeq DEF Init
  <2>2. {open, short, failed, mixed} \subseteq BOOLEAN
    BY Zenon DEF Init
  <2> QED
    BY <2>1, <2>2, FramingAssumption DEF Init, FramingTypeOK
<1>2. BegunInOrder /\ KnownUnits
  BY DEF Init, BegunInOrder, KnownUnits
<1> QED
  BY <1>1, <1>2 DEF FramingTypeInv

-----------------------------------------------------------------------------
(* The stream, as long as it is cut in the right places.                    *)

\* The numbers that the invariant speaks of.
LEMMA LineFacts ==
  ASSUME FramingTypeInv, NEW line, NEW cut, LineOf(line), CutsOf(line, cut),
         Len(got) <= Len(line)
  PROVE  /\ line \in Seq(Packet) /\ Len(line) \in Nat /\ Len(sent) \in Nat
         /\ Len(got) \in Nat /\ Len(wire) \in Nat /\ size \in Nat
         /\ Len(line) = Len(sent) \/ Len(line) = Len(sent) + 1
         /\ \A i \in 1 .. Len(line) :
              /\ line[i] \in Packet /\ line[i].len # 0 /\ line[i].cmd < TypeSize
              /\ Units(line[i]) \in Nat /\ Units(line[i]) = line[i].len + 3
              /\ line[i].len \in Nat \ {0}
         /\ \A i \in 0 .. Len(line) : cut[i] \in Nat
         /\ cut[Len(got)] \in Nat
         /\ Taken(cut) \in Nat /\ Written(cut) \in Nat
<1>1. /\ line \in Seq(Packet) /\ Len(line) \in Nat /\ Len(sent) \in Nat
      /\ Len(got) \in Nat /\ Len(wire) \in Nat /\ size \in Nat
  <2>1. /\ line \in Seq(Packet) /\ sent \in Seq(Packet) /\ wire \in Seq(Unit)
        /\ got \in Seq([cmd : Command \cup {0}, body : Seq(Unit)])
        /\ size \in 0 .. Huge
    BY DEF LineOf, FramingTypeInv, FramingTypeOK
  <2> QED
    BY <2>1, LenProperties, FramingAssumption
<1>2. Len(line) = Len(sent) \/ Len(line) = Len(sent) + 1
  BY DEF LineOf
<1>3. ASSUME NEW i \in 1 .. Len(line)
      PROVE  /\ line[i] \in Packet /\ line[i].len # 0 /\ line[i].cmd < TypeSize
             /\ Units(line[i]) \in Nat /\ Units(line[i]) = line[i].len + 3
             /\ line[i].len \in Nat \ {0}
  <2>1. line[i] \in Packet
    BY <1>1, ElementOfSeq
  <2>2. line[i].len # 0 /\ line[i].cmd < TypeSize
    BY DEF LineOf, FramingTypeInv, BegunInOrder
  <2> QED
    BY <2>1, <2>2, PacketUnits
<1>4. \A i \in 0 .. Len(line) : cut[i] \in Nat
  BY DEF CutsOf
<1>5. cut[Len(got)] \in Nat
  BY <1>1, <1>4
<1>6. Taken(cut) \in Nat
  BY <1>1, <1>5 DEF Taken, HeaderLen
<1>7. Written(cut) \in Nat
  BY <1>1, <1>6 DEF Written
<1> QED
  BY <1>1, <1>2, <1>3, <1>4, <1>5, <1>6, <1>7, Zenon

\* Taking k units off the wire moves the receiver k units on in the same stream.
LEMMA TakeUnits ==
  ASSUME FramingTypeInv, NEW line, NEW cut, LineOf(line), CutsOf(line, cut),
         Len(got) <= Len(line), WireHolds(line, cut),
         NEW k \in 0 .. Len(wire), wire' = SubSeq(wire, k + 1, Len(wire)),
         Taken(cut)' = Taken(cut) + k, UNCHANGED <<writing, begun>>
  PROVE  WireHolds(line, cut)' /\ Written(cut)' = Written(cut)
<1>1. /\ Taken(cut) \in Nat /\ Len(wire) \in Nat /\ Len(line) \in Nat
      /\ \A i \in 1 .. Len(line) : Units(line[i]) \in Nat
      /\ \A i \in 0 .. Len(line) : cut[i] \in Nat
  BY LineFacts
<1>2. /\ Len(wire') = Len(wire) - k
      /\ \A i \in 1 .. Len(wire) - k : wire'[i] = wire[k + i]
  BY ReceiveUnits
<1>3. Written(cut)' = Written(cut)
  BY <1>1, <1>2 DEF Written
<1>4. ASSUME NEW i \in 1 .. Len(line), NEW j \in 1 .. Units(line[i]),
             cut[i - 1] + j - Taken(cut)' \in 1 .. Len(wire')
      PROVE  wire'[cut[i - 1] + j - Taken(cut)'] = create_packet(line[i])[j]
  <2> DEFINE a == cut[i - 1] + j - Taken(cut)
             b == cut[i - 1] + j - Taken(cut)'
  <2>1. cut[i - 1] \in Nat /\ j \in Nat /\ k \in Nat
    <3>1. i - 1 \in 0 .. Len(line) /\ Units(line[i]) \in Nat
      BY <1>1
    <3> QED
      BY <3>1, <1>1
  <2>2. a \in Int /\ b = a - k /\ k \in Nat
    <3>1. \A c, d, e, f \in Nat : c + d - (e + f) = (c + d - e) - f
      OBVIOUS
    <3>2. a \in Int
      BY <1>1, <2>1
    <3> QED
      BY <1>1, <2>1, <3>1, <3>2
  <2>3. b \in 1 .. Len(wire) - k
    BY <1>2, <1>4
  <2> HIDE DEF a, b
  <2>4. a \in 1 .. Len(wire) /\ k + b = a
    BY <1>1, <2>2, <2>3
  <2>5. wire[a] = create_packet(line[i])[j]
    BY <2>4 DEF WireHolds, a
  <2>6. wire'[b] = wire[a]
    BY <1>2, <2>3, <2>4
  <2> QED
    BY <2>5, <2>6 DEF b
<1> QED
  BY <1>3, <1>4 DEF WireHolds


\* The units at the head of the wire are of the packet the receiver is at.
LEMMA UnitsAhead ==
  ASSUME FramingTypeInv, NEW line, NEW cut, Explains(line, cut),
         NEW done \in {0, 3}, Taken(cut) = cut[Len(got)] + done,
         NEW n \in 1 .. Len(wire)
  PROVE  /\ Len(got) < Len(line) /\ Len(got) + 1 \in 1 .. Len(line)
         /\ \A j \in 1 .. n : done + j <= Units(line[Len(got) + 1]) =>
              wire[j] = create_packet(line[Len(got) + 1])[done + j]
<1>1. /\ LineOf(line) /\ CutsOf(line, cut) /\ Len(got) <= Len(sent)
      /\ WireHolds(line, cut) /\ WrittenTo(line, cut)
  BY DEF Explains, Receiving
<1>2. /\ Len(line) \in Nat /\ Len(sent) \in Nat /\ Len(got) \in Nat
      /\ Len(line) = Len(sent) \/ Len(line) = Len(sent) + 1
  <2>1. /\ line \in Seq(Packet) /\ sent \in Seq(Packet)
        /\ got \in Seq([cmd : Command \cup {0}, body : Seq(Unit)])
    BY <1>1 DEF LineOf, FramingTypeInv, FramingTypeOK
  <2> QED
    BY <2>1, <1>1, LenProperties DEF LineOf
<1>3. Len(got) <= Len(line)
  BY <1>1, <1>2
<1>4. /\ Taken(cut) \in Nat /\ Len(wire) \in Nat /\ Written(cut) \in Nat
      /\ \A i \in 0 .. Len(line) : cut[i] \in Nat
      /\ \A i \in 1 .. Len(line) : Units(line[i]) \in Nat
  BY <1>1, <1>3, LineFacts
<1>5. Written(cut) <= cut[Len(line)]
  BY <1>1, <1>2, <1>4 DEF WrittenTo
<1>6. cut[Len(got)] < Written(cut)
  BY <1>2, <1>3, <1>4 DEF Written
<1>7. Len(got) < Len(line) /\ Len(got) + 1 \in 1 .. Len(line)
  <2>1. Len(got) # Len(line)
    BY <1>2, <1>4, <1>5, <1>6
  <2> QED
    BY <2>1, <1>2, <1>3
<1>8. ASSUME NEW j \in 1 .. n, done + j <= Units(line[Len(got) + 1])
      PROVE  wire[j] = create_packet(line[Len(got) + 1])[done + j]
  <2>1. Units(line[Len(got) + 1]) \in Nat
    BY <1>4, <1>7
  <2>2. done + j \in 1 .. Units(line[Len(got) + 1])
    BY <1>8, <2>1
  <2>3. /\ (Len(got) + 1) - 1 = Len(got)
        /\ cut[Len(got)] + (done + j) - Taken(cut) = j
        /\ j \in 1 .. Len(wire)
    <3>1. cut[Len(got)] \in Nat
      BY <1>2, <1>3, <1>4
    <3>2. \A c, d, e \in Nat : c + (d + e) - (c + d) = e
      OBVIOUS
    <3>3. j \in Nat /\ done \in Nat /\ j \in 1 .. Len(wire)
      BY <1>4
    <3>4. cut[Len(got)] + (done + j) - (cut[Len(got)] + done) = j
      BY <3>1, <3>2, <3>3
    <3> QED
      BY <1>2, <3>3, <3>4
  <2>4. cut[(Len(got) + 1) - 1] + (done + j) - Taken(cut) \in 1 .. Len(wire)
    BY <2>3
  <2>5. wire[cut[(Len(got) + 1) - 1] + (done + j) - Taken(cut)]
          = create_packet(line[Len(got) + 1])[done + j]
    BY <1>1, <1>7, <2>2, <2>4 DEF WireHolds
  <2> QED
    BY <2>3, <2>5
<1> QED
  BY <1>7, <1>8

\* A step of the receiver changes neither the line nor what the senders have.
LEMMA ReceiverStep ==
  ASSUME NEW line, NEW cut, Explains(line, cut),
         UNCHANGED <<writing, begun, sent, open>>, reset' = "no" <=> reset = "no",
         WireHolds(line, cut)', Written(cut)' = Written(cut), Receiving(line)'
  PROVE  Explains(line, cut)'
<1>1. LineOf(line)' /\ CutsOf(line, cut)'
  BY DEF Explains, LineOf, CutsOf
<1>2. WrittenTo(line, cut)'
  BY DEF Explains, WrittenTo
<1>3. Rest(line, cut)' = Rest(line, cut)
  BY DEF Rest
<1>4. \A s : (Fresh(s)' <=> Fresh(s)) /\ (Midway(s)' <=> Midway(s))
  BY DEF Fresh, Midway
<1>5. Writers(line, cut)'
  BY <1>3, <1>4, Zenon DEF Explains, Writers
<1> QED
  BY <1>1, <1>2, <1>5 DEF Explains

\* A whole header is that of the next packet in line.
LEMMA RecvHeaderWhole ==
  ASSUME FramingTypeInv, NEW line, NEW cut, Explains(line, cut),
         NEW k \in 1 .. HeaderLen, RecvHeader(k), Whole'
  PROVE  Explains(line, cut)'
<1> DEFINE p == line[Len(got) + 1]
<1>1. /\ LineOf(line) /\ CutsOf(line, cut) /\ Len(got) <= Len(sent)
      /\ WireHolds(line, cut) /\ Receiving(line)
  BY DEF Explains, Receiving
<1>2. /\ pc = "header" /\ wire' = SubSeq(wire, k + 1, Len(wire))
      /\ UNCHANGED <<side, reset, writing, begun, sent, open, mixed, got, failed>>
      /\ size' \in FieldValue(k, 2, "size", Garbage)
      /\ type' \in FieldValue(k, 3, "type", {0})
      /\ short' = (short \/ k < HeaderLen)
      /\ pc' = IF size' # 0 THEN "body" ELSE IF side = "server" THEN "done" ELSE "header"
  BY DEF RecvHeader, ends, sendVars
<1>3. k = 3 /\ k \in 0 .. Len(wire)
  <2>1. k \in 0 .. Len(wire)
    BY RecvHeaderTypes
  <2>2. ~(k < HeaderLen)
    BY <1>2 DEF Whole
  <2> QED
    BY <2>1, <2>2 DEF HeaderLen
<1>4. Taken(cut) = cut[Len(got)] + 0
  <2>1. Len(got) <= Len(line)
    BY <1>1, LenProperties DEF LineOf, FramingTypeInv, FramingTypeOK
  <2>2. cut[Len(got)] \in Nat
    BY <1>1, <2>1, LineFacts
  <2> QED
    BY <1>2, <2>2 DEF Taken
<1>5. Len(wire) \in Nat
  BY LenProperties DEF FramingTypeInv, FramingTypeOK
<1>6. /\ Len(got) < Len(line) /\ Len(got) + 1 \in 1 .. Len(line)
      /\ \A j \in 1 .. 3 : 0 + j <= Units(p) => wire[j] = create_packet(p)[0 + j]
  <2>1. 3 \in 1 .. Len(wire)
    BY <1>3, <1>5
  <2> QED
    BY <1>4, <2>1, UnitsAhead
<1>7. /\ p \in Packet /\ p.len # 0 /\ p.cmd < TypeSize /\ Units(p) = p.len + 3
      /\ p.len \in Nat \ {0} /\ cut[Len(got)] \in Nat
  BY <1>1, <1>6, LineFacts
<1> HIDE DEF p
<1>8. /\ wire[2] = [field |-> "size", of |-> p.id, value |-> p.len]
      /\ wire[3] = [field |-> "type", of |-> p.id, value |-> p.cmd]
  <2>1. wire[2] = create_packet(p)[2] /\ wire[3] = create_packet(p)[3]
    BY <1>6, <1>7
  <2> QED
    BY <1>7, <2>1, PacketUnits
<1>9. size' = p.len /\ type' = p.cmd
  BY <1>2, <1>3, <1>8 DEF FieldValue
<1>10. pc' = "body"
  BY <1>2, <1>7, <1>9
<1>11. Taken(cut)' = Taken(cut) + k
  BY <1>2, <1>3, <1>4, <1>7, <1>10 DEF Taken, HeaderLen
<1>12. WireHolds(line, cut)' /\ Written(cut)' = Written(cut)
  <2>1. Len(got) <= Len(line)
    BY <1>6
  <2> QED
    BY <1>1, <1>2, <1>3, <1>11, <2>1, TakeUnits
<1>13. Receiving(line)'
  BY <1>1, <1>2, <1>6, <1>9, <1>10 DEF Receiving, p
<1> QED
  BY <1>2, <1>12, <1>13, ReceiverStep

\* A whole body is that of the packet whose header was received.
LEMMA RecvBodyWhole ==
  ASSUME FramingTypeInv, NEW line, NEW cut, Explains(line, cut),
         NEW k \in 1 .. Window, RecvBody(k), Whole'
  PROVE  Explains(line, cut)'
<1> DEFINE p == line[Len(got) + 1]
<1>1. /\ LineOf(line) /\ CutsOf(line, cut) /\ Len(got) <= Len(sent)
      /\ WireHolds(line, cut) /\ Receiving(line)
  BY DEF Explains, Receiving
<1>2. /\ pc = "body" /\ wire' = SubSeq(wire, k + 1, Len(wire)) /\ buff' = SubSeq(wire, 1, k)
      /\ UNCHANGED <<side, reset, writing, begun, sent, open, mixed, got, size, type, failed>>
      /\ short' = (short \/ k < size) /\ pc' = "dispatch"
  BY DEF RecvBody, ends, sendVars
<1>3. size = p.len /\ type = p.cmd /\ Len(got) < Len(line)
  BY <1>1, <1>2 DEF Receiving
<1>4. /\ Len(got) + 1 \in 1 .. Len(line) /\ Len(got) <= Len(line)
      /\ Len(got) \in Nat /\ Len(line) \in Nat
  <2>1. Len(got) \in Nat /\ Len(line) \in Nat
    BY <1>1, LenProperties DEF LineOf, FramingTypeInv, FramingTypeOK
  <2> QED
    BY <1>3, <2>1
<1>5. /\ p \in Packet /\ p.len # 0 /\ p.cmd < TypeSize /\ Units(p) = p.len + 3
      /\ p.len \in Nat \ {0} /\ cut[Len(got)] \in Nat /\ Len(wire) \in Nat
  BY <1>1, <1>4, LineFacts
<1>6. k = p.len /\ k \in 0 .. Len(wire)
  <2>1. k \in 0 .. Len(wire) /\ k <= size
    BY RecvBodyTypes
  <2>2. ~(k < size)
    BY <1>2 DEF Whole
  <2> QED
    BY <2>1, <2>2, <1>3, <1>5
<1>7. Taken(cut) = cut[Len(got)] + 3
  BY <1>2 DEF Taken, HeaderLen
<1>8. \A j \in 1 .. k : 3 + j <= Units(p) => wire[j] = create_packet(p)[3 + j]
  <2>1. k \in 1 .. Len(wire)
    BY <1>5, <1>6
  <2> QED
    BY <1>7, <2>1, UnitsAhead
<1> HIDE DEF p
<1>9. buff' = Body(p)
  <2>1. buff' \in Seq(Unit) /\ Len(buff') = k /\ \A j \in 1 .. k : buff'[j] = wire[j]
    BY <1>2, <1>6, ReceiveUnits
  <2>2. Body(p) \in Seq(Unit) /\ Len(Body(p)) = k
    <3>1. [field : {"body"}, of : {p.id}, value : Nat] \subseteq Unit
      BY <1>5 DEF Unit, Packet
    <3> QED
      BY <3>1, <1>5, <1>6, BodyUnits, SeqMonotonic
  <2>3. ASSUME NEW j \in 1 .. k PROVE buff'[j] = Body(p)[j]
    <3>1. /\ 3 + j <= Units(p) /\ j \in 1 .. p.len /\ 3 + j = j + 3
      BY <1>5, <1>6
    <3>2. wire[j] = create_packet(p)[j + 3]
      BY <3>1, <1>8
    <3>3. create_packet(p)[j + 3] = Body(p)[j]
      BY <3>1, <1>5, PacketUnits
    <3> QED
      BY <2>1, <3>2, <3>3
  <2> QED
    BY <2>1, <2>2, <2>3, SeqEqual
<1>10. Taken(cut)' = Taken(cut) + k
  BY <1>2, <1>3, <1>5, <1>6, <1>7 DEF Taken, HeaderLen
<1>11. WireHolds(line, cut)' /\ Written(cut)' = Written(cut)
  BY <1>1, <1>2, <1>4, <1>6, <1>10, TakeUnits
<1>12. Receiving(line)'
  BY <1>1, <1>2, <1>3, <1>9 DEF Receiving, p
<1> QED
  BY <1>2, <1>11, <1>12, ReceiverStep

\* The packet that is dispatched was written to its end.
LEMMA DispatchWhole ==
  ASSUME FramingTypeInv, NEW line, NEW cut, Explains(line, cut), Dispatch
  PROVE  Explains(line, cut)' /\ Len(got) < Len(sent)
<1> DEFINE g == Len(got)
           p == line[g + 1]
<1>1. /\ LineOf(line) /\ CutsOf(line, cut) /\ Len(got) <= Len(sent)
      /\ WireHolds(line, cut) /\ Receiving(line) /\ WrittenTo(line, cut)
  BY DEF Explains, Receiving
<1>2. /\ pc = "dispatch" /\ got' = Append(got, [cmd |-> type, body |-> buff])
      /\ size' = 0 /\ type' = 0 /\ buff' = <<>> /\ pc' = "header"
      /\ UNCHANGED <<side, reset, writing, begun, sent, open, mixed, wire, short, failed>>
  BY DEF Dispatch, ends, sendVars
<1>3. size = p.len /\ type = p.cmd /\ buff = Body(p) /\ Len(got) < Len(line)
  BY <1>1, <1>2 DEF Receiving
<1>4. /\ g + 1 \in 1 .. Len(line) /\ g \in Nat /\ Len(line) \in Nat /\ g <= Len(line)
      /\ g + 1 \in 0 .. Len(line) /\ (g + 1) - 1 = g
  <2>1. Len(got) \in Nat /\ Len(line) \in Nat
    BY <1>1, LenProperties DEF LineOf, FramingTypeInv, FramingTypeOK
  <2> QED
    BY <1>3, <2>1
<1>5. /\ Units(p) = p.len + 3 /\ p.len \in Nat \ {0} /\ Len(wire) \in Nat /\ Len(sent) \in Nat
      /\ Len(line) = Len(sent) \/ Len(line) = Len(sent) + 1
      /\ cut[g] \in Nat /\ cut[g + 1] \in Nat
      /\ Taken(cut) \in Nat /\ Written(cut) \in Nat
  BY <1>1, <1>4, LineFacts
<1>6. cut[g + 1] = cut[g] + Units(p)
  BY <1>1, <1>4 DEF CutsOf
<1>7. Taken(cut) = cut[g + 1]
  BY <1>2, <1>3, <1>5, <1>6 DEF Taken, HeaderLen
<1>8. cut[g + 1] <= Written(cut)
  BY <1>5, <1>7 DEF Written
<1>9. g < Len(sent)
  <2>1. CASE Len(line) = Len(sent)
    BY <2>1, <1>3
  <2>2. CASE Len(line) = Len(sent) + 1
    <3>1. Written(cut) < cut[Len(line)]
      BY <2>2, <1>1, <1>5 DEF WrittenTo
    <3>2. cut[Len(line)] \in Nat
      BY <1>1, <1>4, LineFacts
    <3>3. g + 1 # Len(line)
      BY <3>1, <3>2, <1>5, <1>8
    <3> QED
      BY <2>2, <3>3, <1>4, <1>5
  <2> QED
    BY <2>1, <2>2, <1>5
<1>10. p = sent[g + 1]
  BY <1>1, <1>4, <1>5, <1>9 DEF LineOf
<1>11. /\ Len(got') = g + 1
       /\ \A i \in 1 .. g : got'[i] = got[i]
       /\ got'[g + 1] = [cmd |-> p.cmd, body |-> Body(p)]
  <2>1. got \in Seq([cmd : Command \cup {0}, body : Seq(Unit)])
        /\ [cmd |-> type, body |-> buff] \in [cmd : Command \cup {0}, body : Seq(Unit)]
    BY DEF FramingTypeInv, FramingTypeOK
  <2> HIDE DEF p
  <2> QED
    BY <2>1, <1>2, <1>3, AppendProperties
<1>12. Taken(cut)' = Taken(cut)
  BY <1>2, <1>5, <1>7, <1>11 DEF Taken
<1>13. WireHolds(line, cut)' /\ Written(cut)' = Written(cut)
  BY <1>1, <1>2, <1>12 DEF WireHolds, Written
<1> HIDE DEF p
<1>14. Receiving(line)'
  <2>1. \A i \in 1 .. g + 1 : got'[i] = [cmd |-> sent[i].cmd, body |-> Body(sent[i])]
    <3> SUFFICES ASSUME NEW i \in 1 .. g + 1
                 PROVE  got'[i] = [cmd |-> sent[i].cmd, body |-> Body(sent[i])]
      OBVIOUS
    <3>1. CASE i \in 1 .. g
      BY <3>1, <1>1, <1>11 DEF Receiving
    <3>2. CASE i = g + 1
      BY <3>2, <1>10, <1>11
    <3> QED
      BY <3>1, <3>2, <1>4
  <2>2. Len(got') <= Len(sent)
    BY <1>4, <1>5, <1>9, <1>11
  <2> QED
    BY <2>1, <2>2, <1>2, <1>11 DEF Receiving
<1> QED
  BY <1>2, <1>9, <1>13, <1>14, ReceiverStep

\* Nothing is sent on a connection that was reset.
LEMMA NotReset == FramingTypeInv /\ open => reset = "no"
  BY DEF FramingTypeInv, FramingTypeOK

\* A new packet waits behind the line until its first unit is written.
LEMMA SendBeginWhole ==
  ASSUME FramingTypeInv, FramingTypeInv', NEW line, NEW cut, Explains(line, cut),
         NEW s \in Sender, NEW cmd \in Command, NEW n \in BodyLen, SendBegin(s, cmd, n)
  PROVE  Explains(line, cut)'
<1> DEFINE p == [id |-> Len(begun) + 1, cmd |-> cmd, len |-> n]
<1>1. /\ writing[s] = <<>> /\ create_packet(p) # <<>>
      /\ writing' = [writing EXCEPT ![s] = create_packet(p)]
      /\ begun' = Append(begun, p)
      /\ UNCHANGED <<side, reset, wire, sent, open, mixed, pc, size, type, buff, got, short, failed>>
  BY DEF SendBegin, ends, recvVars
<1>2. /\ begun \in Seq(Packet) /\ begun' \in Seq(Packet)
      /\ writing \in [Sender -> Seq(Unit)]
  BY DEF FramingTypeInv, FramingTypeOK
<1>3. /\ p.id = Len(begun) + 1 /\ p.cmd = cmd /\ p.len = n
  OBVIOUS
<1> HIDE DEF p
<1>4. /\ Len(begun) \in Nat /\ DOMAIN begun = 1 .. Len(begun)
      /\ DOMAIN begun' = 1 .. Len(begun) + 1
      /\ \A i \in 1 .. Len(begun) : begun'[i] = begun[i]
      /\ begun'[Len(begun) + 1] = p
  <2>1. Len(begun') = Len(begun) + 1
    BY <1>1, <1>2
  <2> QED
    BY <2>1, <1>1, <1>2, LenProperties
<1>5. p \in Packet /\ p.len # 0 /\ p.cmd < TypeSize
  <2>1. Len(begun) + 1 \in DOMAIN begun'
    BY <1>4
  <2> QED
    BY <2>1, <1>2, <1>4, LenProperties, ElementOfSeq DEF FramingTypeInv, BegunInOrder
<1>6. writing'[s] = create_packet(p) /\ \A t \in Sender \ {s} : writing'[t] = writing[t]
  BY <1>1, <1>2
<1>7. create_packet(p)[1].field = "sign"
  <2>1. create_packet(p)[1] = [field |-> "sign", of |-> p.id, value |-> 0]
    BY <1>5, PacketUnits
  <2> QED
    BY <2>1
<1>8. LineOf(line)'
  BY <1>1, <1>4 DEF Explains, LineOf
<1>9. CutsOf(line, cut)' /\ WireHolds(line, cut)' /\ WrittenTo(line, cut)'
      /\ Receiving(line)' /\ Rest(line, cut)' = Rest(line, cut)
  BY <1>1 DEF Explains, CutsOf, WireHolds, WrittenTo, Receiving, Rest, Written, Taken
<1>10. Fresh(s)' /\ ~Midway(s)' /\ ~Midway(s)
  BY <1>1, <1>6, <1>7 DEF Fresh, Midway
<1>11. \A t \in Sender \ {s} : (Fresh(t)' <=> Fresh(t)) /\ (Midway(t)' <=> Midway(t))
  BY <1>6 DEF Fresh, Midway
<1>12. Writers(line, cut)'
  <2>0. reset = "no"
    BY NotReset DEF SendBegin
  <2>1. ASSUME NEW t \in Sender, Fresh(t)'
        PROVE  \E q \in DOMAIN begun' : writing'[t] = create_packet(begun'[q])
    <3>1. CASE t = s
      BY <3>1, <1>4, <1>6
    <3>2. CASE t # s
      <4>1. PICK q \in DOMAIN begun : writing[t] = create_packet(begun[q])
        BY <3>2, <2>0, <2>1, <1>11 DEF Explains, Writers
      <4> QED
        BY <4>1, <3>2, <1>4, <1>6
    <3> QED
      BY <3>1, <3>2
  <2>2. ASSUME NEW t \in Sender, Midway(t)'
        PROVE  Len(line) # Len(sent') /\ writing'[t] = Rest(line, cut)'
    <3>1. t # s /\ Midway(t) /\ writing'[t] = writing[t]
      BY <2>2, <1>6, <1>10, <1>11
    <3> QED
      BY <3>1, <2>0, <1>1, <1>9 DEF Explains, Writers
  <2>3. ASSUME open', Len(line) # Len(sent') PROVE \E t \in Sender : Midway(t)'
    <3>1. PICK t \in Sender : Midway(t)
      BY <2>0, <2>3, <1>1 DEF Explains, Writers
    <3> QED
      BY <3>1, <1>10, <1>11
  <2> QED
    BY <2>1, <2>2, <2>3 DEF Writers
<1> QED
  BY <1>8, <1>9, <1>12 DEF Explains

\* A packet extends the line when its first unit is about to be written.
LEMMA TurnOfFresh ==
  ASSUME FramingTypeInv, NEW line, NEW cut, Explains(line, cut),
         NEW s \in Sender, Fresh(s), Len(line) = Len(sent), reset = "no",
         \A t \in Sender : ~Midway(t)
  PROVE  \E line2 \in Seq(Packet) : \E cut2 \in [0 .. Len(line2) -> Nat] :
           Turn(line2, cut2, s)
<1>1. /\ LineOf(line) /\ CutsOf(line, cut) /\ Len(got) <= Len(sent)
      /\ WireHolds(line, cut) /\ Receiving(line) /\ WrittenTo(line, cut)
      /\ Len(got) <= Len(line)
  BY DEF Explains, Receiving
<1>2. PICK q \in DOMAIN begun : writing[s] = create_packet(begun[q])
  BY DEF Explains, Writers
<1> DEFINE p == begun[q]
<1>3. /\ p \in Packet /\ p.id = q /\ p.len # 0 /\ p.cmd < TypeSize
      /\ begun[p.id] = p /\ p.id \in DOMAIN begun
  <2>1. begun \in Seq(Packet)
    BY DEF FramingTypeInv, FramingTypeOK
  <2> QED
    BY <2>1, LenProperties, ElementOfSeq DEF FramingTypeInv, BegunInOrder
<1>4. Units(p) \in Nat /\ Units(p) = p.len + 3 /\ p.len \in Nat \ {0}
      /\ create_packet(p) \in Seq(Unit) /\ Len(create_packet(p)) = Units(p)
  BY <1>3, PacketUnits
<1>5. /\ line \in Seq(Packet) /\ Len(line) \in Nat /\ Len(sent) \in Nat
      /\ Len(got) \in Nat /\ Len(wire) \in Nat
      /\ \A i \in 0 .. Len(line) : cut[i] \in Nat
      /\ Taken(cut) \in Nat /\ Written(cut) \in Nat
  BY <1>1, LineFacts
<1> DEFINE n == Len(line)
<1>6. PICK line2 : line2 = Append(line, p)
  OBVIOUS
<1>7. PICK cut2 : cut2 = [i \in 0 .. n + 1 |-> IF i = n + 1 THEN cut[n] + Units(p) ELSE cut[i]]
  OBVIOUS
<1> HIDE DEF p
<1>8. /\ line2 \in Seq(Packet) /\ Len(line2) = n + 1
      /\ \A i \in 1 .. n : line2[i] = line[i]
      /\ line2[n + 1] = p
  BY <1>3, <1>5, <1>6, AppendProperties
<1>9. /\ cut2 \in [0 .. Len(line2) -> Nat]
      /\ \A i \in 0 .. n : cut2[i] = cut[i]
      /\ cut2[n + 1] = cut[n] + Units(p)
      /\ n \in 0 .. n /\ cut[n] \in Nat
  <2>1. n \in 0 .. n /\ cut[n] \in Nat /\ n \in Nat
    BY <1>5
  <2>2. \A i \in 0 .. n + 1 : i # n + 1 => i \in 0 .. n
    BY <2>1
  <2>3. cut[n] + Units(p) \in Nat
    BY <2>1, <1>4
  <2>4. cut2 \in [0 .. n + 1 -> Nat]
    BY <2>2, <2>3, <1>5, <1>7
  <2>5. \A i \in 0 .. n : i \in 0 .. n + 1 /\ i # n + 1
    BY <2>1
  <2>6. n + 1 \in 0 .. n + 1
    BY <2>1
  <2> QED
    BY <2>1, <2>4, <2>5, <2>6, <1>7, <1>8
<1>10. LineOf(line2)
  <2>1. \A i \in 1 .. Len(sent) : line2[i] = sent[i]
    BY <1>1, <1>8 DEF LineOf
  <2>2. ASSUME NEW i \in 1 .. n + 1
        PROVE  line2[i].id \in DOMAIN begun /\ begun[line2[i].id] = line2[i]
    <3>1. CASE i \in 1 .. n
      BY <3>1, <1>1, <1>8 DEF LineOf
    <3>2. CASE i = n + 1
      BY <3>2, <1>3, <1>8
    <3> QED
      BY <3>1, <3>2, <1>5
  <2> QED
    BY <2>1, <2>2, <1>5, <1>8 DEF LineOf
<1>11. CutsOf(line2, cut2)
  <2>1. cut2[0] = 0
    BY <1>1, <1>5, <1>9 DEF CutsOf
  <2>2. ASSUME NEW i \in 1 .. n + 1 PROVE cut2[i] = cut2[i - 1] + Units(line2[i])
    <3>1. CASE i \in 1 .. n
      <4>1. i \in 0 .. n /\ i - 1 \in 0 .. n
        BY <3>1, <1>5
      <4> QED
        BY <3>1, <4>1, <1>1, <1>8, <1>9 DEF CutsOf
    <3>2. CASE i = n + 1
      <4>1. i - 1 = n
        BY <3>2, <1>5
      <4> QED
        BY <3>2, <4>1, <1>8, <1>9
    <3> QED
      BY <3>1, <3>2, <1>5
  <2>3. ASSUME NEW i \in 0 .. n + 1, NEW j \in 0 .. n + 1, i <= j PROVE cut2[i] <= cut2[j]
    <3>1. CASE j \in 0 .. n
      <4>1. i \in 0 .. n
        BY <3>1, <2>3, <1>5
      <4>2. cut[i] <= cut[j]
        BY <3>1, <4>1, <2>3, <1>1 DEF CutsOf
      <4> QED
        BY <3>1, <4>1, <4>2, <1>9
    <3>2. CASE j = n + 1 /\ i \in 0 .. n
      <4>1. cut[i] <= cut[n] /\ cut[i] \in Nat
        <5>1. i <= n
          BY <3>2, <1>5
        <5> QED
          BY <3>2, <5>1, <1>1, <1>5, <1>9 DEF CutsOf
      <4>2. cut2[i] = cut[i] /\ cut2[j] = cut[n] + Units(p)
        BY <3>2, <1>9
      <4>3. \A a, b, c \in Nat : a <= b => a <= b + c
        OBVIOUS
      <4> QED
        BY <4>1, <4>2, <4>3, <1>4, <1>9
    <3>3. CASE i = n + 1 /\ j = n + 1
      BY <3>3, <1>4, <1>9
    <3> QED
      BY <3>1, <3>2, <3>3, <2>3, <1>5
  <2> QED
    BY <2>1, <2>2, <2>3, <1>8, <1>9 DEF CutsOf
<1>12. Taken(cut2) = Taken(cut) /\ Written(cut2) = Written(cut)
  <2>1. cut2[Len(got)] = cut[Len(got)]
    BY <1>1, <1>5, <1>9
  <2> QED
    BY <2>1 DEF Taken, Written
<1>13. Written(cut) = cut[n]
  BY <1>1 DEF WrittenTo
<1>14. WireHolds(line2, cut2)
  <2> SUFFICES ASSUME NEW i \in 1 .. n + 1, NEW j \in 1 .. Units(line2[i]),
                      cut2[i - 1] + j - Taken(cut) \in 1 .. Len(wire)
               PROVE  wire[cut2[i - 1] + j - Taken(cut)] = create_packet(line2[i])[j]
    BY <1>8, <1>12 DEF WireHolds
  <2>1. CASE i \in 1 .. n
    <3>1. cut2[i - 1] = cut[i - 1] /\ line2[i] = line[i]
      <4>1. i - 1 \in 0 .. n
        BY <2>1, <1>5
      <4> QED
        BY <2>1, <4>1, <1>8, <1>9
    <3> QED
      BY <2>1, <3>1, <1>1 DEF WireHolds
  <2>2. CASE i = n + 1
    <3>1. i - 1 = n /\ j \in Nat \ {0}
      BY <2>2, <1>4, <1>5, <1>8
    <3>2. cut2[i - 1] = cut[n] /\ cut[n] \in Nat /\ Taken(cut) \in Nat /\ Len(wire) \in Nat
      BY <3>1, <1>5, <1>9
    <3>3. cut[n] = Taken(cut) + Len(wire)
      BY <1>13 DEF Written
    <3>4. \A a, b \in Nat : \A e \in Nat \ {0} : ~(a + b + e - a \in 1 .. b)
      OBVIOUS
    <3> QED
      BY <3>1, <3>2, <3>3, <3>4, Zenon
  <2> QED
    BY <2>1, <2>2, <1>5
<1>15. Receiving(line2)
  <2>1. Len(got) < Len(line) => Len(got) + 1 \in 1 .. n
    BY <1>5
  <2>2. Len(got) < Len(line) =>
          Len(got) < Len(line2) /\ line2[Len(got) + 1] = line[Len(got) + 1]
    BY <2>1, <1>5, <1>8
  <2> QED
    BY <2>2, <1>1 DEF Receiving
<1>16. writing[s] = Rest(line2, cut2)
  <2>1. Written(cut2) - cut2[Len(sent)] + 1 = 1
    BY <1>5, <1>9, <1>12, <1>13
  <2>2. Rest(line2, cut2) = SubSeq(create_packet(p), 1, Units(p))
    BY <2>1, <1>8 DEF Rest
  <2>3. SubSeq(create_packet(p), 1, Units(p)) = create_packet(p)
    BY <1>4, SubSeqFull
  <2> QED
    BY <2>2, <2>3, <1>2 DEF p
<1>17. \A t \in Sender \ {s} : writing[t] # <<>> =>
         \E r \in DOMAIN begun : writing[t] = create_packet(begun[r])
  BY DEF Explains, Writers, Fresh, Midway
<1>18. cut2[Len(sent)] <= Written(cut2) /\ Written(cut2) < cut2[Len(line2)]
  <2>1. cut2[Len(sent)] = cut[n] /\ cut2[Len(line2)] = cut[n] + Units(p)
    BY <1>8, <1>9
  <2>2. Written(cut2) = cut[n] /\ Units(p) \in Nat \ {0} /\ cut[n] \in Nat
    BY <1>4, <1>9, <1>12, <1>13
  <2> QED
    BY <2>1, <2>2
<1>19. Turn(line2, cut2, s)
  BY <1>8, <1>10, <1>11, <1>14, <1>15, <1>16, <1>17, <1>18 DEF Turn
<1> QED
  BY <1>8, <1>9, <1>19

\* The thread whose turn it is writes on in the last packet of the line.
LEMMA WriteTurn ==
  ASSUME FramingTypeInv, NEW line, NEW cut, NEW s \in Sender, Turn(line, cut, s), Write(s)
  PROVE  /\ Explains(line, cut)'
         /\ sent' \in {sent, Append(sent, line[Len(line)])}
<1> DEFINE p == line[Len(line)]
           c == cut[Len(sent)]
           d == Written(cut) - c
<1>1. /\ LineOf(line) /\ CutsOf(line, cut) /\ Len(line) = Len(sent) + 1
      /\ WireHolds(line, cut) /\ Receiving(line) /\ Len(got) <= Len(sent)
      /\ c <= Written(cut) /\ Written(cut) < cut[Len(line)]
      /\ writing[s] = SubSeq(create_packet(p), d + 1, Units(p))
  BY DEF Turn, Receiving, Rest
<1>2. /\ Len(sent) \in Nat /\ Len(got) \in Nat /\ Len(line) \in Nat
      /\ Len(got) <= Len(line) /\ Len(line) \in 1 .. Len(line)
      /\ Len(sent) \in 0 .. Len(line) /\ Len(line) - 1 = Len(sent)
  <2>1. Len(sent) \in Nat /\ Len(got) \in Nat
    BY LenProperties DEF FramingTypeInv, FramingTypeOK
  <2> QED
    BY <2>1, <1>1
<1>3. /\ p \in Packet /\ p.len # 0 /\ p.cmd < TypeSize
      /\ Units(p) \in Nat /\ Units(p) = p.len + 3
      /\ c \in Nat /\ Len(wire) \in Nat /\ Taken(cut) \in Nat /\ Written(cut) \in Nat
      /\ \A i \in 1 .. Len(line) : Units(line[i]) \in Nat
      /\ \A i \in 0 .. Len(line) : cut[i] \in Nat
  BY <1>1, <1>2, LineFacts
<1>3a. /\ Units(p) \in Nat /\ c \in Nat /\ Len(wire) \in Nat
       /\ Taken(cut) \in Nat /\ Written(cut) \in Nat
  BY <1>3
<1>4. cut[Len(line)] = c + Units(p)
  BY <1>1, <1>2 DEF CutsOf
<1>5. p.id \in DOMAIN begun /\ begun[p.id] = p
  BY <1>1, <1>2 DEF LineOf
<1>6. create_packet(p) \in Seq(Unit) /\ Len(create_packet(p)) = Units(p)
  BY <1>3, PacketUnits
<1> HIDE DEF p, c
<1>7. d \in 0 .. Units(p) - 1 /\ Written(cut) = c + d
  <2>1. c <= Written(cut) /\ Written(cut) < c + Units(p)
    BY <1>1, <1>4
  <2> QED
    BY <2>1, <1>3a
<1> HIDE DEF d
<1>8. /\ Len(writing[s]) = Units(p) - d
      /\ \A j \in 1 .. Units(p) - d : writing[s][j] = create_packet(p)[d + j]
  <2>1. d \in 0 .. Len(create_packet(p))
    BY <1>3, <1>6, <1>7
  <2>2. /\ Len(SubSeq(create_packet(p), d + 1, Len(create_packet(p))))
             = Len(create_packet(p)) - d
        /\ \A j \in 1 .. Len(create_packet(p)) - d :
             SubSeq(create_packet(p), d + 1, Len(create_packet(p)))[j]
               = create_packet(p)[d + j]
    BY <2>1, <1>6, CutSeq
  <2> QED
    BY <2>2, <1>1, <1>6, Zenon
<1>9. PICK n \in 1 .. Len(writing[s]) :
        /\ Len(wire) + n <= Window
        /\ wire' = wire \o SubSeq(writing[s], 1, n)
        /\ writing' = [writing EXCEPT ![s] = SubSeq(writing[s], n + 1, Len(writing[s]))]
        /\ sent' = IF n = Len(writing[s])
                     THEN Append(sent, begun[writing[s][1].of]) ELSE sent
        /\ UNCHANGED <<side, reset, begun, open, pc, size, type, buff, got, short, failed>>
  BY WriteStep, Zenon
<1>10. n \in 1 .. Units(p) - d /\ n \in Nat /\ d \in Nat /\ 1 \in 1 .. Units(p) - d
  BY <1>3, <1>7, <1>8
<1>11. /\ wire' \in Seq(Unit) /\ Len(wire') = Len(wire) + n
       /\ \A i \in 1 .. Len(wire) : wire'[i] = wire[i]
       /\ \A i \in 1 .. n : wire'[Len(wire) + i] = writing[s][i]
       /\ writing'[s] = SubSeq(writing[s], n + 1, Len(writing[s]))
       /\ Len(writing'[s]) = Units(p) - d - n
       /\ \A t \in Sender \ {s} : writing'[t] = writing[t]
  <2>1. FramingTypeOK
    BY DEF FramingTypeInv
  <2> QED
    BY <2>1, <1>8, <1>9, WriteUnits, Zenon
<1>12. \A i \in 1 .. Units(p) - d - n : writing'[s][i] = create_packet(p)[d + n + i]
  <2> SUFFICES ASSUME NEW i \in 1 .. Units(p) - d - n
               PROVE  writing'[s][i] = create_packet(p)[d + n + i]
    OBVIOUS
  <2>1. \A j \in 1 .. Len(writing[s]) - n : writing'[s][j] = writing[s][n + j]
    <3>1. FramingTypeOK
      BY DEF FramingTypeInv
    <3> QED
      BY <3>1, <1>9, WriteUnits, Zenon
  <2>2. i \in 1 .. Len(writing[s]) - n
    BY <1>8
  <2>3. n + i \in 1 .. Units(p) - d /\ d + (n + i) = d + n + i
    BY <1>3, <1>10
  <2> QED
    BY <2>1, <2>2, <2>3, <1>8
<1>13. sent' = IF n = Units(p) - d THEN Append(sent, p) ELSE sent
  <2>1. d + 1 \in 1 .. Units(p)
    BY <1>3, <1>7
  <2>2. writing[s][1].of = p.id
    BY <2>1, <1>3, <1>8, <1>10, PacketUnit
  <2> QED
    BY <2>2, <1>5, <1>8, <1>9
<1>14. /\ n = Units(p) - d => Len(sent') = Len(sent) + 1
       /\ n # Units(p) - d => Len(sent') = Len(sent)
       /\ \A i \in 1 .. Len(sent) : sent'[i] = sent[i]
       /\ n = Units(p) - d => sent'[Len(sent) + 1] = p
  <2>1. sent \in Seq(Packet)
    BY DEF FramingTypeInv, FramingTypeOK
  <2> QED
    BY <2>1, <1>3, <1>13, AppendProperties
<1>15. LineOf(line)'
  <2>1. Len(line) \in {Len(sent'), Len(sent') + 1}
    BY <1>1, <1>2, <1>14
  <2>2. ASSUME NEW i \in 1 .. Len(sent') PROVE line[i] = sent'[i]
    <3>1. CASE i \in 1 .. Len(sent)
      BY <3>1, <1>1, <1>14 DEF LineOf
    <3>2. CASE ~(i \in 1 .. Len(sent))
      <4>1. n = Units(p) - d /\ i = Len(sent) + 1
        BY <3>2, <1>2, <1>14
      <4> QED
        BY <4>1, <1>1, <1>14 DEF p
    <3> QED
      BY <3>1, <3>2
  <2> QED
    BY <2>1, <2>2, <1>1, <1>9 DEF LineOf
<1>16. CutsOf(line, cut)'
  BY <1>1 DEF CutsOf
<1>17. Taken(cut)' = Taken(cut) /\ Written(cut)' = Written(cut) + n
  BY <1>3, <1>9, <1>10, <1>11 DEF Taken, Written
<1>18. Written(cut)' = c + d + n
  BY <1>7, <1>17
<1>19. WireHolds(line, cut)'
  <2> SUFFICES ASSUME NEW i \in 1 .. Len(line), NEW j \in 1 .. Units(line[i]),
                      cut[i - 1] + j - Taken(cut) \in 1 .. Len(wire) + n
               PROVE  wire'[cut[i - 1] + j - Taken(cut)] = create_packet(line[i])[j]
    BY <1>11, <1>17 DEF WireHolds
  <2> DEFINE k == cut[i - 1] + j - Taken(cut)
  <2>1. CASE k <= Len(wire)
    <3>1. k \in 1 .. Len(wire)
      BY <2>1, <1>3
    <3> QED
      BY <3>1, <1>1, <1>11 DEF WireHolds
  <2>2. CASE k > Len(wire)
    <3>1. i \in Nat /\ j \in Nat /\ i - 1 \in 0 .. Len(line) /\ i \in 0 .. Len(line)
          /\ cut[i - 1] \in Nat /\ cut[i] \in Nat /\ Units(line[i]) \in Nat
      <4>1. i \in Nat /\ i - 1 \in 0 .. Len(line) /\ i \in 0 .. Len(line)
        BY <1>2
      <4> QED
        BY <4>1, <1>3
    <3>2. cut[i] = cut[i - 1] + Units(line[i])
      BY <1>1 DEF CutsOf
    <3>3. cut[i - 1] + j <= cut[i]
      BY <3>1, <3>2
    <3>4. c + d < cut[i - 1] + j
      <4>1. c + d = Taken(cut) + Len(wire)
        BY <1>7 DEF Written
      <4>2. \A a, b, e, f \in Nat : a + b - e > f => e + f < a + b
        OBVIOUS
      <4>3. Taken(cut) + Len(wire) < cut[i - 1] + j
        BY <2>2, <3>1, <4>2, <1>3a
      <4> QED
        BY <4>1, <4>3
    <3>5. i = Len(line)
      <4>1. CASE i <= Len(sent)
        <5>1. cut[i] <= c
          BY <4>1, <3>1, <1>1, <1>2 DEF CutsOf, c
        <5>2. \A a, b, e, f \in Nat : ~(a <= e /\ b <= a /\ e + f < b)
          OBVIOUS
        <5>3. cut[i] \in Nat /\ cut[i - 1] + j \in Nat /\ c \in Nat /\ d \in Nat
          <6>1. cut[i] \in Nat /\ cut[i - 1] \in Nat /\ j \in Nat
            BY <3>1
          <6>2. cut[i - 1] + j \in Nat
            BY <6>1
          <6>3. c \in Nat /\ d \in Nat
            BY <1>3a, <1>10
          <6> QED
            BY <6>1, <6>2, <6>3
        <5> QED
          BY <5>1, <5>2, <5>3, <3>3, <3>4, Zenon
      <4>2. i \in 1 .. Len(sent) + 1 /\ Len(sent) \in Nat
        BY <1>1, <1>2
      <4> QED
        BY <4>1, <4>2, <1>1
    <3>6. cut[i - 1] = c /\ line[i] = p
      BY <3>5, <1>2 DEF c, p
    <3>7. /\ j - d \in 1 .. n /\ Len(wire) + (j - d) = k
          /\ j - d \in 1 .. Units(p) - d /\ d + (j - d) = j
      <4>1. k = c + j - Taken(cut) /\ c + d = Taken(cut) + Len(wire)
        BY <3>6, <1>7 DEF Written
      <4>2. k \in Len(wire) + 1 .. Len(wire) + n
        BY <2>2, <1>3a, <1>10
      <4> HIDE DEF k
      <4>3. j - d = k - Len(wire)
        <5>1. c \in Nat /\ d \in Nat /\ Taken(cut) \in Nat /\ Len(wire) \in Nat /\ j \in Nat
          BY <3>1, <1>3a, <1>10
        <5>2. d = Taken(cut) + Len(wire) - c
          <6>1. c + d = Taken(cut) + Len(wire)
            BY <4>1
          <6> QED
            BY <5>1, <6>1
        <5>3. j - (Taken(cut) + Len(wire) - c) = (c + j - Taken(cut)) - Len(wire)
          BY <5>1
        <5> QED
          BY <5>2, <5>3, <4>1, Zenon
      <4>4. j - d \in 1 .. n
        <5>1. \A a, b \in Nat : \A e \in a + 1 .. a + b : e - a \in 1 .. b
          OBVIOUS
        <5> QED
          BY <5>1, <4>2, <4>3, <1>3a, <1>10
      <4>5. Len(wire) + (j - d) = k
        BY <4>2, <4>3, <1>3a, <1>10
      <4>6. j - d \in 1 .. Units(p) - d /\ d + (j - d) = j
        BY <4>4, <3>1, <1>3a, <1>10
      <4> QED
        BY <4>4, <4>5, <4>6
    <3>8. wire'[k] = writing[s][j - d]
      BY <3>7, <1>11
    <3>9. writing[s][j - d] = create_packet(p)[j]
      BY <3>7, <1>8
    <3> QED
      BY <3>6, <3>8, <3>9
  <2>3. k \in Int /\ Len(wire) \in Int
    BY <1>3
  <2> QED
    BY <2>1, <2>2, <2>3
<1>20. WrittenTo(line, cut)'
  <2>0. reset' = "no"
    BY <1>9, NotReset DEF Write
  <2>1. CASE n = Units(p) - d
    <3>1. Len(line) = Len(sent') /\ Written(cut)' = cut[Len(line)]
      BY <2>1, <1>1, <1>3, <1>4, <1>10, <1>14, <1>18
    <3> QED
      BY <2>0, <3>1 DEF WrittenTo
  <2>2. CASE n # Units(p) - d
    <3>1. Len(sent') = Len(sent) /\ Len(line) # Len(sent')
      BY <2>2, <1>1, <1>2, <1>14
    <3>2. c < c + d + n /\ c + d + n < c + Units(p)
      BY <2>2, <1>3, <1>10
    <3> QED
      BY <3>1, <3>2, <1>4, <1>18 DEF WrittenTo, c
  <2> QED
    BY <2>1, <2>2
<1>21. Receiving(line)'
  <2>1. /\ Len(got) <= Len(sent')
        /\ \A i \in 1 .. Len(got) : sent'[i] = sent[i]
    BY <1>1, <1>2, <1>14
  <2> QED
    BY <2>1, <1>1, <1>9 DEF Receiving
<1>22. \A t \in Sender \ {s} : ~Midway(t)' /\ (Fresh(t)' =>
         \E q \in DOMAIN begun' : writing'[t] = create_packet(begun'[q]))
  <2> SUFFICES ASSUME NEW t \in Sender \ {s}, writing[t] # <<>>
               PROVE  /\ writing[t][1].field = "sign"
                      /\ \E q \in DOMAIN begun : writing[t] = create_packet(begun[q])
    BY <1>9, <1>11 DEF Midway, Fresh
  <2>1. PICK q \in DOMAIN begun : writing[t] = create_packet(begun[q])
    BY DEF Turn
  <2>2. begun[q] \in Packet /\ begun[q].len # 0 /\ begun[q].cmd < TypeSize
    BY LenProperties, ElementOfSeq DEF FramingTypeInv, FramingTypeOK, BegunInOrder
  <2>3. writing[t][1] = [field |-> "sign", of |-> begun[q].id, value |-> 0]
    BY <2>1, <2>2, PacketUnits
  <2>4. writing[t][1].field = "sign"
    BY <2>3
  <2> QED
    BY <2>1, <2>4
<1>23. n # Units(p) - d => Midway(s)' /\ ~Fresh(s)' /\ writing'[s] = Rest(line, cut)'
  <2> SUFFICES ASSUME n # Units(p) - d
               PROVE  Midway(s)' /\ ~Fresh(s)' /\ writing'[s] = Rest(line, cut)'
    OBVIOUS
  <2>1. /\ Units(p) - d - n \in Nat \ {0} /\ 1 \in 1 .. Units(p) - d - n
        /\ d + n + 1 \in 1 .. Units(p) /\ d + n + 1 # 1
    BY <1>3, <1>10
  <2>2. writing'[s][1].field # "sign"
    BY <2>1, <1>3, <1>12, PacketUnit
  <2>3. writing'[s] # <<>>
    BY <2>1, <1>11, EmptySeq
  <2>4. writing'[s] = SubSeq(create_packet(p), d + n + 1, Units(p))
    <3>1. writing'[s] = SubSeq(SubSeq(create_packet(p), d + 1, Units(p)), n + 1, Units(p) - d)
      BY <1>1, <1>8, <1>11, Zenon
    <3>2. /\ d + 1 \in 1 .. Len(create_packet(p)) /\ Units(p) \in 1 .. Len(create_packet(p))
          /\ n + 1 \in 1 .. Units(p) - (d + 1) + 1
          /\ Units(p) - d \in 1 .. Units(p) - (d + 1) + 1
      <4>1. d + 1 \in 1 .. Units(p) /\ Units(p) \in 1 .. Units(p)
        BY <1>3a, <1>10
      <4>2. /\ n + 1 \in 1 .. Units(p) - (d + 1) + 1
            /\ Units(p) - d \in 1 .. Units(p) - (d + 1) + 1
        BY <2>1, <1>3a, <1>10
      <4> QED
        BY <4>1, <4>2, <1>6
    <3>3. SubSeq(SubSeq(create_packet(p), d + 1, Units(p)), n + 1, Units(p) - d)
            = SubSeq(create_packet(p), (d + 1) + (n + 1) - 1, (d + 1) + (Units(p) - d) - 1)
      <4>1. ASSUME NEW q \in Seq(Unit), NEW i \in 1 .. Len(q), NEW j \in 1 .. Len(q),
                   NEW a \in 1 .. j - i + 1, NEW b \in 1 .. j - i + 1
            PROVE  SubSeq(SubSeq(q, i, j), a, b) = SubSeq(q, i + a - 1, i + b - 1)
        BY SubSeqOfSubSeq
      <4> QED
        BY <4>1, <3>2, <1>6, Zenon
    <3>4. (d + 1) + (n + 1) - 1 = d + n + 1 /\ (d + 1) + (Units(p) - d) - 1 = Units(p)
      <4>1. \A a, b, e \in Nat : (a + 1) + (b + 1) - 1 = a + b + 1 /\ (a + 1) + (e - a) - 1 = e
        OBVIOUS
      <4> QED
        BY <1>3, <1>10, <4>1
    <3> QED
      BY <3>1, <3>3, <3>4, Zenon
  <2>5. Written(cut)' - cut[Len(sent')] + 1 = d + n + 1
    BY <1>3, <1>10, <1>14, <1>18 DEF c
  <2>6. Rest(line, cut)' = SubSeq(create_packet(p), d + n + 1, Units(p))
    BY <2>5 DEF Rest, p
  <2> QED
    BY <2>2, <2>3, <2>4, <2>6 DEF Midway, Fresh
<1>24. n = Units(p) - d => ~Midway(s)' /\ ~Fresh(s)'
  <2> SUFFICES ASSUME n = Units(p) - d PROVE writing'[s] = <<>>
    BY DEF Midway, Fresh
  <2>1. Len(writing[s]) < n + 1 /\ Len(writing[s]) \in Int /\ n + 1 \in Int
    BY <1>3, <1>8, <1>10
  <2> QED
    BY <2>1, <1>11, SubSeqEmpty
<1>25. Writers(line, cut)'
  <2>1. n # Units(p) - d => Len(line) # Len(sent')
    BY <1>1, <1>2, <1>14
  <2>2. n = Units(p) - d => Len(line) = Len(sent')
    BY <1>1, <1>14
  <2>3. \A t \in Sender : t # s => t \in Sender \ {s}
    OBVIOUS
  <2>4. \A t \in Sender : Fresh(t)' =>
          \E q \in DOMAIN begun' : writing'[t] = create_packet(begun'[q])
    BY <2>3, <1>22, <1>23, <1>24, Zenon
  <2>5. \A t \in Sender : Midway(t)' =>
          Len(line) # Len(sent') /\ writing'[t] = Rest(line, cut)'
    BY <2>1, <2>3, <1>22, <1>23, <1>24, Zenon
  <2>6. Len(line) # Len(sent') => \E t \in Sender : Midway(t)'
    BY <2>2, <1>23, Zenon
  <2> QED
    BY <2>4, <2>5, <2>6, Zenon DEF Writers
<1>26. sent' \in {sent, Append(sent, p)}
  BY <1>13
<1> QED
  BY <1>15, <1>16, <1>19, <1>20, <1>21, <1>25, <1>26 DEF Explains, p

\* A ::send that is not written amid another thread's packet keeps a line that
\* explains the state.
LEMMA WriteWholeUnits ==
  ASSUME FramingTypeInv, NEW line, NEW cut, Explains(line, cut),
         NEW s \in Sender, Write(s), Whole'
  PROVE  \E line2 \in Seq(Packet) : \E cut2 \in [0 .. Len(line2) -> Nat] :
           Explains(line2, cut2)'
<1>1. PICK n \in 1 .. Len(writing[s]) :
        /\ mixed' = (mixed \/ \E t \in Sending \ {s} : writing[t][1].field # "sign")
        /\ open
  BY WriteStep, Zenon
<1>2. \A t \in Sender \ {s} : ~Midway(t)
  BY <1>1, Zenon DEF Whole, Sending, Midway
<1>3. writing[s] # <<>> /\ reset = "no"
  BY NotReset DEF Write
<1>4. CASE Midway(s)
  <2>1. Len(line) # Len(sent) /\ writing[s] = Rest(line, cut)
    BY <1>3, <1>4 DEF Explains, Writers
  <2>2. Len(line) = Len(sent) + 1
    BY <2>1 DEF Explains, LineOf
  <2>3. /\ LineOf(line) /\ CutsOf(line, cut) /\ WireHolds(line, cut) /\ Receiving(line)
        /\ cut[Len(sent)] < Written(cut) /\ Written(cut) < cut[Len(line)]
    BY <2>1, <1>3 DEF Explains, WrittenTo
  <2>4. cut[Len(sent)] <= Written(cut)
    <3>1. Len(sent) \in Nat /\ Len(got) <= Len(sent)
      BY <2>3, LenProperties DEF Receiving, FramingTypeInv, FramingTypeOK
    <3>2. Len(got) \in Nat
      BY LenProperties DEF FramingTypeInv, FramingTypeOK
    <3>3. Len(got) <= Len(line) /\ Len(sent) \in 0 .. Len(line)
      BY <2>2, <3>1, <3>2
    <3>4. cut[Len(sent)] \in Nat /\ Written(cut) \in Nat
      BY <2>3, <3>3, LineFacts
    <3> QED
      BY <2>3, <3>4
  <2>5. \A t \in Sender \ {s} : writing[t] # <<>> =>
          \E q \in DOMAIN begun : writing[t] = create_packet(begun[q])
    BY <1>2, <1>3, Zenon DEF Explains, Writers, Fresh, Midway
  <2>6. Turn(line, cut, s)
    BY <2>1, <2>2, <2>3, <2>4, <2>5 DEF Turn
  <2>7. Explains(line, cut)'
    BY <2>6, WriteTurn
  <2>8. line \in Seq(Packet) /\ cut \in [0 .. Len(line) -> Nat]
    BY DEF Explains, LineOf, CutsOf
  <2> QED
    BY <2>7, <2>8
<1>5. CASE ~Midway(s)
  <2>1. \A t \in Sender : ~Midway(t)
    BY <1>2, <1>5
  <2>2. Len(line) = Len(sent)
    BY <1>1, <1>3, <2>1, Zenon DEF Explains, Writers
  <2>3. Fresh(s)
    BY <1>3, <1>5 DEF Fresh, Midway
  <2>4. PICK line2 \in Seq(Packet) : \E cut2 \in [0 .. Len(line2) -> Nat] :
          Turn(line2, cut2, s)
    BY <1>3, <2>1, <2>2, <2>3, TurnOfFresh
  <2>5. PICK cut2 \in [0 .. Len(line2) -> Nat] : Turn(line2, cut2, s)
    BY <2>4
  <2>6. Explains(line2, cut2)'
    BY <2>5, WriteTurn
  <2> QED
    BY <2>6
<1> QED
  BY <1>4, <1>5

\* When the sending end closes no thread is midway; what it wrote stays.
LEMMA CloseWhole ==
  ASSUME NEW line, NEW cut, Explains(line, cut), Close
  PROVE  Explains(line, cut)'
<1>1. /\ writing' = [s \in Sender |-> <<>>] /\ open' = FALSE
      /\ UNCHANGED <<side, reset, wire, begun, sent, mixed, pc, size, type, buff, got, short, failed>>
  BY DEF Close, ends, recvVars
<1>2. \A s \in Sender : ~Fresh(s)' /\ ~Midway(s)'
  BY <1>1 DEF Fresh, Midway
<1>3. Writers(line, cut)'
  BY <1>1, <1>2, Zenon DEF Writers
<1>4. /\ LineOf(line)' /\ CutsOf(line, cut)' /\ WireHolds(line, cut)'
      /\ WrittenTo(line, cut)' /\ Receiving(line)'
  BY <1>1 DEF Explains, LineOf, CutsOf, WireHolds, WrittenTo, Written, Taken, Receiving
<1> QED
  BY <1>3, <1>4 DEF Explains

\* What a reset took away leaves the line as it was, less of which was written.
LEMMA LossWhole ==
  ASSUME FramingTypeInv, NEW line, NEW cut, Explains(line, cut),
         reset' # "no", UNCHANGED <<begun, sent, got>>,
         WireHolds(line, cut)', Written(cut)' \in Nat, Written(cut)' <= Written(cut),
         Receiving(line)'
  PROVE  Explains(line, cut)'
<1>1. LineOf(line)' /\ CutsOf(line, cut)'
  BY DEF Explains, LineOf, CutsOf
<1>2. Writers(line, cut)'
  BY DEF Writers
<1>3. WrittenTo(line, cut)'
  <2>1. /\ Len(got) <= Len(line) /\ Len(line) \in Nat
    <3>1. /\ line \in Seq(Packet) /\ sent \in Seq(Packet) /\ Len(got) <= Len(sent)
          /\ got \in Seq([cmd : Command \cup {0}, body : Seq(Unit)])
          /\ Len(line) \in {Len(sent), Len(sent) + 1}
      BY DEF Explains, LineOf, Receiving, FramingTypeInv, FramingTypeOK
    <3> QED
      BY <3>1, LenProperties
  <2>2. Written(cut) \in Nat /\ cut[Len(line)] \in Nat
    BY <2>1, LineFacts DEF Explains
  <2>3. /\ Len(line) = Len(sent) => Written(cut) <= cut[Len(line)]
        /\ Len(line) # Len(sent) => Written(cut) < cut[Len(line)]
    BY <2>2 DEF Explains, WrittenTo
  <2>4. /\ Len(line) = Len(sent) => Written(cut)' <= cut[Len(line)]
        /\ Len(line) # Len(sent) => Written(cut)' < cut[Len(line)]
    BY <2>2, <2>3
  <2> QED
    BY <2>4 DEF WrittenTo
<1> QED
  BY <1>1, <1>2, <1>3 DEF Explains

\* What a reset leaves on the wire is of the same line.
LEMMA ResetWhole ==
  ASSUME FramingTypeInv, NEW line, NEW cut, Explains(line, cut), Reset
  PROVE  Explains(line, cut)'
<1>1. reset' # "no" /\ UNCHANGED <<begun, sent, pc, size, type, buff, got>>
  BY DEF Reset, recvVars
<1>2. PICK k \in 0 .. Len(wire) : wire' = SubSeq(wire, 1, k)
  BY DEF Reset
<1>3. /\ Len(wire') = k /\ k <= Len(wire) /\ k \in Nat /\ Len(wire) \in Nat
      /\ \A i \in 1 .. k : wire'[i] = wire[i]
  BY <1>2, CutWire
<1>4. Len(got) <= Len(line)
  <2>1. /\ line \in Seq(Packet) /\ sent \in Seq(Packet) /\ Len(got) <= Len(sent)
        /\ got \in Seq([cmd : Command \cup {0}, body : Seq(Unit)])
        /\ Len(line) \in {Len(sent), Len(sent) + 1}
    BY DEF Explains, LineOf, Receiving, FramingTypeInv, FramingTypeOK
  <2> QED
    BY <2>1, LenProperties
<1>5. Taken(cut)' = Taken(cut) /\ Taken(cut) \in Nat
  BY <1>1, <1>4, LineFacts DEF Explains, Taken
<1>6. Written(cut)' \in Nat /\ Written(cut)' <= Written(cut)
  BY <1>3, <1>5 DEF Written
<1>7. WireHolds(line, cut)'
  <2> SUFFICES ASSUME NEW i \in 1 .. Len(line), NEW j \in 1 .. Units(line[i]),
                      cut[i - 1] + j - Taken(cut) \in 1 .. k
               PROVE  wire'[cut[i - 1] + j - Taken(cut)] = create_packet(line[i])[j]
    BY <1>3, <1>5 DEF WireHolds
  <2> DEFINE a == cut[i - 1] + j - Taken(cut)
  <2>1. a \in 1 .. k
    OBVIOUS
  <2>2. wire[a] = create_packet(line[i])[j] \/ ~(a \in 1 .. Len(wire))
    BY DEF Explains, WireHolds
  <2> HIDE DEF a
  <2>3. a \in 1 .. Len(wire)
    BY <2>1, <1>3
  <2>4. wire'[a] = create_packet(line[i])[j]
    BY <2>1, <2>2, <2>3, <1>3
  <2> QED
    BY <2>4 DEF a
<1>8. Receiving(line)'
  BY <1>1 DEF Explains, Receiving
<1> QED
  BY <1>1, <1>6, <1>7, <1>8, LossWhole

\* A body that a reset kept back was not dispatched.
LEMMA BodyErrorWhole ==
  ASSUME FramingTypeInv, NEW line, NEW cut, Explains(line, cut), RecvBodyError
  PROVE  Explains(line, cut)'
<1>1. /\ pc = "body" /\ pc' \in {"done", "header"} /\ wire = <<>> /\ reset' # "no"
      /\ UNCHANGED <<begun, sent, got, wire>>
  BY DEF RecvBodyError, AtError, Told, sendVars
<1>2. Len(got) <= Len(line)
  <2>1. /\ line \in Seq(Packet) /\ sent \in Seq(Packet) /\ Len(got) <= Len(sent)
        /\ got \in Seq([cmd : Command \cup {0}, body : Seq(Unit)])
        /\ Len(line) \in {Len(sent), Len(sent) + 1}
    BY DEF Explains, LineOf, Receiving, FramingTypeInv, FramingTypeOK
  <2> QED
    BY <2>1, LenProperties
<1>3. cut[Len(got)] \in Nat
  BY <1>2, LineFacts DEF Explains
<1>4. Len(wire) = 0
  BY <1>1
<1>5. /\ Written(cut) = cut[Len(got)] + HeaderLen
      /\ Written(cut)' = cut[Len(got)]
  BY <1>1, <1>3, <1>4 DEF Written, Taken, HeaderLen
<1>6. Written(cut)' \in Nat /\ Written(cut)' <= Written(cut)
  BY <1>3, <1>5 DEF HeaderLen
<1>7. WireHolds(line, cut)'
  BY <1>1, <1>4 DEF WireHolds
<1>8. Receiving(line)'
  BY <1>1 DEF Explains, Receiving
<1> QED
  BY <1>1, <1>6, <1>7, <1>8, LossWhole

\* A stream that was cut in a wrong place stays so.
LEMMA WholeBefore ==
  ASSUME FramingTypeInv, [Next]_vars, Whole'
  PROVE  Whole
<1>1. CASE UNCHANGED vars
  BY <1>1 DEF vars, sendVars, recvVars, Whole
<1>2. CASE Next
  <2>1. ASSUME NEW s \in Sender, Send(s) PROVE Whole
    <3>1. short' = short /\ mixed' = mixed /\ failed' = failed
      BY <2>1 DEF Send, SendBegin, recvVars
    <3> QED
      BY <3>1 DEF Whole
  <2>2. ASSUME NEW s \in Sender, Write(s) PROVE Whole
    <3>1. PICK n \in 1 .. Len(writing[s]) :
            /\ mixed' = (mixed \/ \E t \in Sending \ {s} : writing[t][1].field # "sign")
            /\ UNCHANGED <<short, failed>>
      BY <2>2, WriteStep, Zenon
    <3> QED
      BY <3>1, Zenon DEF Whole
  <2>3. CASE Close \/ Reset
    BY <2>3 DEF Close, Reset, recvVars, Whole
  <2>4. ASSUME NEW k, RecvHeader(k) \/ RecvBody(k) PROVE Whole
    <3>1. mixed' = mixed /\ failed' = failed
      BY <2>4 DEF RecvHeader, RecvBody, sendVars
    <3>2. (short' = (short \/ k < HeaderLen)) \/ (short' = (short \/ k < size))
      BY <2>4, Zenon DEF RecvHeader, RecvBody
    <3> QED
      BY <3>1, <3>2, Zenon DEF Whole
  <2>5. CASE \/ ResizeFails \/ RecvBodyEnd \/ Dispatch \/ RecvEnd
             \/ RecvHeaderError \/ RecvNoHeader \/ RecvBodyError
    BY <2>5 DEF ResizeFails, RecvBodyEnd, Dispatch, RecvEnd, RecvHeaderError, RecvNoHeader,
      RecvBodyError, sendVars, Whole
  <2> QED
    BY <1>2, <2>1, <2>2, <2>3, <2>4, <2>5 DEF Next, Receive
<1> QED
  BY <1>1, <1>2

\* Every step keeps a line that explains the state, or cuts the stream.
LEMMA WholeStep ==
  FramingTypeInv /\ FramingTypeInv' /\ WholeInv /\ [Next]_vars => WholeInv'
<1> SUFFICES ASSUME FramingTypeInv, FramingTypeInv', WholeInv, [Next]_vars, Whole'
             PROVE  \E line \in Seq(Packet) : \E cut \in [0 .. Len(line) -> Nat] :
                      Explains(line, cut)'
  BY DEF WholeInv
<1>1. Whole
  BY WholeBefore
<1>2. PICK line \in Seq(Packet) : \E cut \in [0 .. Len(line) -> Nat] : Explains(line, cut)
  BY <1>1 DEF WholeInv
<1>3. PICK cut \in [0 .. Len(line) -> Nat] : Explains(line, cut)
  BY <1>2
<1>4. SUFFICES ASSUME ~\E s \in Sender : Write(s) PROVE Explains(line, cut)'
  <2>1. ASSUME NEW s \in Sender, Write(s)
        PROVE  \E line2 \in Seq(Packet) : \E cut2 \in [0 .. Len(line2) -> Nat] :
                 Explains(line2, cut2)'
    BY <1>3, <2>1, WriteWholeUnits
  <2> QED
    BY <2>1
<1>5. ASSUME NEW s \in Sender, Send(s) PROVE Explains(line, cut)'
  BY <1>3, <1>5, SendBeginWhole DEF Send
<1>6. CASE Close
  BY <1>3, <1>6, CloseWhole
<1>6a. CASE Reset
  BY <1>3, <1>6a, ResetWhole
<1>6b. CASE RecvNoHeader
  BY <1>6b DEF RecvNoHeader, Whole
<1>6c. CASE RecvBodyError
  BY <1>3, <1>6c, BodyErrorWhole
<1>7. ASSUME NEW k \in 1 .. HeaderLen, RecvHeader(k) PROVE Explains(line, cut)'
  BY <1>3, <1>7, RecvHeaderWhole
<1>8. CASE ResizeFails
  <2>1. pc = "body" /\ size = Huge
    BY <1>8 DEF ResizeFails
  <2>2. Len(got) < Len(line) /\ size = line[Len(got) + 1].len
    BY <2>1, <1>3 DEF Explains, Receiving
  <2>3. line[Len(got) + 1] \in Packet
    <3>1. Len(got) \in Nat /\ Len(line) \in Nat
      BY LenProperties DEF FramingTypeInv, FramingTypeOK
    <3> QED
      BY <2>2, <3>1, ElementOfSeq
  <2>4. size < Huge
    BY <2>2, <2>3, FramingAssumption DEF Packet
  <2> QED
    BY <2>1, <2>4, FramingAssumption
<1>9. ASSUME NEW k \in 1 .. Window, RecvBody(k) PROVE Explains(line, cut)'
  BY <1>3, <1>9, RecvBodyWhole
<1>10. CASE RecvBodyEnd
  BY <1>10 DEF RecvBodyEnd, Whole
<1>11. CASE Dispatch
  BY <1>3, <1>11, DispatchWhole
<1>12. CASE RecvEnd \/ RecvHeaderError \/ UNCHANGED vars
  <2>1. UNCHANGED <<writing, begun, sent, open, wire, size, type, buff, got>>
    BY <1>12 DEF RecvEnd, RecvHeaderError, ends, sendVars, recvVars, vars
  <2>2. /\ pc' = pc \/ (pc = "header" /\ pc' = "done")
        /\ reset' = "no" <=> reset = "no"
    BY <1>12 DEF RecvEnd, RecvHeaderError, AtError, Told, vars, ends, recvVars
  <2>3. Taken(cut)' = Taken(cut)
    BY <2>1, <2>2 DEF Taken
  <2>4. WireHolds(line, cut)' /\ Written(cut)' = Written(cut)
    BY <2>1, <2>3, <1>3 DEF Explains, WireHolds, Written
  <2>5. Receiving(line)'
    BY <2>1, <2>2, <1>3 DEF Explains, Receiving
  <2> QED
    BY <2>1, <2>2, <2>4, <2>5, <1>3, ReceiverStep
<1> QED
  BY <1>4, <1>5, <1>6, <1>6a, <1>6b, <1>6c, <1>7, <1>8, <1>9, <1>10, <1>11, <1>12
  DEF Next, Receive

\* Before anything is sent the empty line explains the state.
LEMMA WholeInit == Init => WholeInv
<1> SUFFICES ASSUME Init
             PROVE  \E line \in Seq(Packet) : \E cut \in [0 .. Len(line) -> Nat] :
                      Explains(line, cut)
  BY DEF WholeInv
<1>1. PICK line : line = <<>>
  OBVIOUS
<1>2. PICK cut : cut = [i \in 0 .. 0 |-> 0]
  OBVIOUS
<1>3. /\ line \in Seq(Packet) /\ Len(line) = 0 /\ Len(sent) = 0 /\ Len(got) = 0
      /\ Len(wire) = 0
  BY <1>1, EmptySeq DEF Init
<1>4. cut \in [0 .. Len(line) -> Nat] /\ cut[0] = 0
  BY <1>2, <1>3
<1>5. LineOf(line)
  BY <1>3 DEF LineOf
<1>6. CutsOf(line, cut)
  <2>1. \A i, j \in 0 .. 0 : cut[i] <= cut[j]
    BY <1>4
  <2> QED
    BY <1>3, <1>4, <2>1 DEF CutsOf
<1>7. Taken(cut) = 0 /\ Written(cut) = 0
  BY <1>3, <1>4 DEF Init, Taken, Written
<1>8. WireHolds(line, cut)
  BY <1>3 DEF WireHolds
<1>9. WrittenTo(line, cut)
  BY <1>3, <1>4, <1>7 DEF WrittenTo
<1>10. Writers(line, cut)
  <2>1. \A s \in Sender : ~Fresh(s) /\ ~Midway(s)
    BY DEF Init, Fresh, Midway
  <2> QED
    BY <2>1, <1>3, Zenon DEF Writers
<1>11. Receiving(line)
  BY <1>3 DEF Init, Receiving
<1> QED
  BY <1>3, <1>4, <1>5, <1>6, <1>8, <1>9, <1>10, <1>11 DEF Explains

-----------------------------------------------------------------------------
(* The theorems.                                                            *)

FramingInv == FramingTypeInv /\ WholeInv

LEMMA FramingInvariant == Spec => []FramingInv
<1>1. Init => FramingInv
  BY FramingTypeInit, WholeInit DEF FramingInv
<1>2. FramingInv /\ [Next]_vars => FramingInv'
  BY FramingTypeStep, WholeStep DEF FramingInv
<1> QED
  BY <1>1, <1>2, PTL DEF Spec

\* The type invariant: whatever a read takes for a header, the receiver's size
\* is one it can be, and every unit on the wire is of a packet handed to ::send.
THEOREM FramingTypeCorrect == Spec => []FramingTypeOK
<1>1. FramingInv => FramingTypeOK
  BY DEF FramingInv, FramingTypeInv
<1> QED
  BY <1>1, FramingInvariant, PTL

\* recv() of server_client and of client dispatch the packets that were sent, in
\* that order, whole, as long as every ::recv returned what it was asked for, no
\* ::send was written into the midst of another and no error was taken for a
\* header.
THEOREM WholeStreamDelivers == Spec => []DispatchedIsSent
<1>1. FramingInv => DispatchedIsSent
  <2> SUFFICES ASSUME FramingInv, Whole
               PROVE  /\ Len(got) <= Len(sent)
                      /\ \A i \in DOMAIN got :
                           got[i] = [cmd |-> sent[i].cmd, body |-> Body(sent[i])]
    BY DEF DispatchedIsSent
  <2>1. PICK line \in Seq(Packet) : \E cut \in [0 .. Len(line) -> Nat] : Explains(line, cut)
    BY DEF FramingInv, WholeInv
  <2>2. Receiving(line)
    BY <2>1 DEF Explains
  <2>3. DOMAIN got = 1 .. Len(got)
    BY LenProperties DEF FramingInv, FramingTypeInv, FramingTypeOK
  <2> QED
    BY <2>2, <2>3 DEF Receiving
<1> QED
  BY <1>1, FramingInvariant, PTL

\* Until a cut in a wrong place, or an error that client::recv took for a header,
\* no resize() asks for a size that nobody sent, and dispatch() makes its
\* std::string of a command that ends within its field.
THEOREM HeaderIsSafe == Spec => []HeaderSafe
<1>1. FramingInv => HeaderSafe
  <2> SUFFICES ASSUME FramingInv, Whole
               PROVE  /\ pc # "crashed"
                      /\ pc \in {"body", "dispatch"} => type \in Command /\ type < TypeSize
    BY DEF HeaderSafe
  <2>1. PICK line \in Seq(Packet) : \E cut \in [0 .. Len(line) -> Nat] : Explains(line, cut)
    BY DEF FramingInv, WholeInv
  <2>2. Receiving(line) /\ LineOf(line)
    BY <2>1 DEF Explains
  <2>3. ASSUME pc \in {"body", "dispatch"} PROVE type \in Command /\ type < TypeSize
    <3>1. Len(got) < Len(line) /\ type = line[Len(got) + 1].cmd
      BY <2>2, <2>3 DEF Receiving
    <3>2. Len(got) + 1 \in 1 .. Len(line)
      <4>1. Len(got) \in Nat /\ Len(line) \in Nat
        BY LenProperties DEF FramingInv, FramingTypeInv, FramingTypeOK
      <4> QED
        BY <3>1, <4>1
    <3>3. line[Len(got) + 1] \in Packet /\ line[Len(got) + 1].cmd < TypeSize
      BY <2>2, <3>2, ElementOfSeq DEF LineOf, FramingInv, FramingTypeInv, BegunInOrder
    <3> QED
      BY <3>1, <3>3 DEF Packet
  <2> QED
    BY <2>2, <2>3 DEF Receiving
<1> QED
  BY <1>1, FramingInvariant, PTL

-----------------------------------------------------------------------------
(* The channel that the other modules take a connection for.                *)

\* No packet is written twice: what was sent and what the threads hold are
\* different packets.
Once ==
  /\ \A i \in 1 .. Len(sent) : sent[i].id \in DOMAIN begun
  /\ \A i, j \in 1 .. Len(sent) : sent[i].id = sent[j].id => i = j
  /\ \A s \in Sender : writing[s] # <<>> =>
       \A i \in 1 .. Len(sent) : sent[i].id # writing[s][1].of
  /\ \A s, t \in Sender :
       writing[s] # <<>> /\ writing[t] # <<>> /\ writing[s][1].of = writing[t][1].of => s = t

\* What a thread has to write begins with a unit of a packet handed to ::send.
LEMMA HeldUnit ==
  ASSUME FramingTypeInv, NEW s \in Sender, writing[s] # <<>>
  PROVE  /\ Len(writing[s]) \in Nat \ {0} /\ 1 \in DOMAIN writing[s]
         /\ writing[s][1].of \in DOMAIN begun
         /\ begun[writing[s][1].of] \in Packet
         /\ begun[writing[s][1].of].id = writing[s][1].of
<1>1. writing[s] \in Seq(Unit) /\ begun \in Seq(Packet)
  BY DEF FramingTypeInv, FramingTypeOK
<1>2. Len(writing[s]) \in Nat \ {0}
  BY <1>1, EmptySeq
<1>3. 1 \in DOMAIN writing[s]
  BY <1>1, <1>2, LenProperties
<1>4. writing[s][1].of \in DOMAIN begun
  BY <1>3 DEF FramingTypeInv, KnownUnits, Known
<1>5. begun[writing[s][1].of] \in Packet
  BY <1>1, <1>4, LenProperties, ElementOfSeq
<1> QED
  BY <1>2, <1>3, <1>4, <1>5 DEF FramingTypeInv, BegunInOrder

\* A packet that is handed to ::send is a new one.
LEMMA SendBeginOnce ==
  ASSUME FramingTypeInv, Once, NEW s \in Sender, NEW cmd \in Command, NEW n \in BodyLen,
         SendBegin(s, cmd, n)
  PROVE  Once'
<1> DEFINE p == [id |-> Len(begun) + 1, cmd |-> cmd, len |-> n]
<1>1. /\ create_packet(p) # <<>> /\ UNCHANGED sent
      /\ writing' = [writing EXCEPT ![s] = create_packet(p)]
      /\ begun' = Append(begun, p) /\ Len(begun) < MaxPackets
  BY DEF SendBegin
<1>2. begun \in Seq(Packet) /\ Len(begun) \in Nat /\ DOMAIN begun = 1 .. Len(begun)
      /\ writing \in [Sender -> Seq(Unit)]
  BY LenProperties DEF FramingTypeInv, FramingTypeOK
<1>3. p.id = Len(begun) + 1 /\ p.len = n /\ p.cmd = cmd /\ p \in Packet
  <2>1. Len(begun) + 1 \in 1 .. MaxPackets
    BY <1>1, <1>2, FramingAssumption
  <2> QED
    BY <2>1 DEF Packet
<1> HIDE DEF p
<1>4. p.len # 0 /\ p.cmd < TypeSize
  BY <1>1, <1>3, FramingAssumption DEF create_packet, TypeSize
<1>5. DOMAIN begun' = 1 .. Len(begun) + 1
  BY <1>1, <1>2, <1>3, AppendProperties, LenProperties
<1>6. writing'[s] = create_packet(p) /\ \A t \in Sender \ {s} : writing'[t] = writing[t]
  BY <1>1, <1>2
<1>7. writing'[s][1].of = Len(begun) + 1
  <2>1. create_packet(p)[1] = [field |-> "sign", of |-> p.id, value |-> 0]
    BY <1>3, <1>4, PacketUnits
  <2> QED
    BY <2>1, <1>3, <1>6
<1>8. ~(Len(begun) + 1 \in DOMAIN begun) /\ DOMAIN begun \subseteq DOMAIN begun'
  BY <1>2, <1>5
<1>9. \A t \in Sender \ {s} : writing'[t] # <<>> => writing'[t][1].of \in DOMAIN begun
  BY <1>6, HeldUnit
<1>10. \A t \in Sender : t # s => t \in Sender \ {s}
  OBVIOUS
<1>11. \A i \in 1 .. Len(sent') : sent'[i].id \in DOMAIN begun'
  BY <1>1, <1>8 DEF Once
<1>12. \A i, j \in 1 .. Len(sent') : sent'[i].id = sent'[j].id => i = j
  BY <1>1 DEF Once
<1>13. ASSUME NEW t \in Sender, writing'[t] # <<>>, NEW i \in 1 .. Len(sent')
       PROVE  sent'[i].id # writing'[t][1].of
  <2>1. CASE t = s
    BY <2>1, <1>1, <1>7, <1>8 DEF Once
  <2>2. CASE t # s
    BY <2>2, <1>1, <1>6, <1>13 DEF Once
  <2> QED
    BY <2>1, <2>2
<1>14. ASSUME NEW t \in Sender, NEW u \in Sender, writing'[t] # <<>>, writing'[u] # <<>>,
              writing'[t][1].of = writing'[u][1].of
       PROVE  t = u
  <2>1. CASE t # s /\ u # s
    BY <2>1, <1>6, <1>14 DEF Once
  <2>2. CASE t = s /\ u # s
    BY <2>2, <1>7, <1>8, <1>9, <1>14
  <2>3. CASE t # s /\ u = s
    BY <2>3, <1>7, <1>8, <1>9, <1>14
  <2> QED
    BY <2>1, <2>2, <2>3
<1> QED
  BY <1>11, <1>12, <1>13, <1>14 DEF Once

\* A packet counts as sent when its thread holds nothing more of it.
LEMMA WriteOnce ==
  ASSUME FramingTypeInv, Once, NEW s \in Sender, Write(s)
  PROVE  Once' /\ (sent' = sent \/ \E p \in Packet : sent' = Append(sent, p))
<1> DEFINE p == begun[writing[s][1].of]
<1>1. PICK n \in 1 .. Len(writing[s]) :
        /\ wire' = wire \o SubSeq(writing[s], 1, n)
        /\ writing' = [writing EXCEPT ![s] = SubSeq(writing[s], n + 1, Len(writing[s]))]
        /\ sent' = IF n = Len(writing[s]) THEN Append(sent, p) ELSE sent
        /\ UNCHANGED begun
  BY WriteStep, Zenon
<1>2. writing[s] # <<>>
  BY DEF Write
<1>3. /\ Len(writing[s]) \in Nat \ {0} /\ p \in Packet
      /\ p.id = writing[s][1].of /\ p.id \in DOMAIN begun
  BY <1>2, HeldUnit
<1> HIDE DEF p
<1>4. /\ Len(writing'[s]) = Len(writing[s]) - n
      /\ writing'[s] = SubSeq(writing[s], n + 1, Len(writing[s]))
      /\ \A i \in 1 .. Len(writing[s]) - n : writing'[s][i] = writing[s][n + i]
      /\ \A t \in Sender \ {s} : writing'[t] = writing[t]
  <2>1. FramingTypeOK
    BY DEF FramingTypeInv
  <2> QED
    BY <2>1, <1>1, WriteUnits, Zenon
<1>5. n = Len(writing[s]) => writing'[s] = <<>>
  <2> SUFFICES ASSUME n = Len(writing[s]) PROVE writing'[s] = <<>>
    OBVIOUS
  <2>1. Len(writing[s]) < n + 1 /\ Len(writing[s]) \in Int /\ n + 1 \in Int
    BY <1>3
  <2> QED
    BY <2>1, <1>4, SubSeqEmpty, Zenon
<1>6. n # Len(writing[s]) => writing'[s][1].of = p.id
  <2> SUFFICES ASSUME n # Len(writing[s]) PROVE writing'[s][1].of = p.id
    OBVIOUS
  <2>1. 1 \in 1 .. Len(writing[s]) - n /\ n + 1 \in 1 .. Len(writing[s])
    BY <1>3
  <2>2. n + 1 \in DOMAIN writing[s]
    BY <2>1, LenProperties DEF FramingTypeInv, FramingTypeOK
  <2> QED
    BY <2>1, <2>2, <1>3, <1>4 DEF FramingTypeInv, KnownUnits
<1>7. /\ Len(sent) \in Nat
      /\ n # Len(writing[s]) => sent' = sent
      /\ n = Len(writing[s]) =>
           /\ Len(sent') = Len(sent) + 1 /\ sent'[Len(sent) + 1] = p
           /\ \A i \in 1 .. Len(sent) : sent'[i] = sent[i]
  <2>1. sent \in Seq(Packet)
    BY DEF FramingTypeInv, FramingTypeOK
  <2> QED
    BY <2>1, <1>1, <1>3, AppendProperties, LenProperties
<1>8. \A t \in Sender : writing'[t] # <<>> =>
        /\ writing[t] # <<>> /\ writing'[t][1].of = writing[t][1].of
        /\ n = Len(writing[s]) => t # s
  <2> SUFFICES ASSUME NEW t \in Sender, writing'[t] # <<>>
               PROVE  /\ writing[t] # <<>> /\ writing'[t][1].of = writing[t][1].of
                      /\ n = Len(writing[s]) => t # s
    OBVIOUS
  <2>1. CASE t = s
    BY <2>1, <1>2, <1>3, <1>5, <1>6
  <2>2. CASE t # s
    BY <2>2, <1>4
  <2> QED
    BY <2>1, <2>2
<1>9. CASE n # Len(writing[s])
  <2>1. sent' = sent /\ begun' = begun
    BY <1>1, <1>7, <1>9
  <2>2. \A t, u \in Sender : writing'[t] # <<>> /\ writing'[u] # <<>>
          /\ writing'[t][1].of = writing'[u][1].of => t = u
    BY <1>8 DEF Once
  <2>3. \A t \in Sender : writing'[t] # <<>> =>
          \A i \in 1 .. Len(sent) : sent[i].id # writing'[t][1].of
    BY <1>8 DEF Once
  <2> QED
    BY <2>1, <2>2, <2>3 DEF Once
<1>10. CASE n = Len(writing[s])
  <2>1. \A i \in 1 .. Len(sent) : sent[i].id # p.id
    BY <1>2, <1>3 DEF Once
  <2>2. \A i \in 1 .. Len(sent') : i \in 1 .. Len(sent) \/ i = Len(sent) + 1
    BY <1>7, <1>10
  <2>3. \A i \in 1 .. Len(sent') : sent'[i].id \in DOMAIN begun
    BY <2>2, <1>3, <1>7, <1>10 DEF Once
  <2>4. \A i, j \in 1 .. Len(sent') : sent'[i].id = sent'[j].id => i = j
    BY <2>1, <2>2, <1>7, <1>10 DEF Once
  <2>5. ASSUME NEW t \in Sender, writing'[t] # <<>>, NEW i \in 1 .. Len(sent')
        PROVE  sent'[i].id # writing'[t][1].of
    <3>1. writing[t] # <<>> /\ t # s /\ writing'[t][1].of = writing[t][1].of
      BY <2>5, <1>8, <1>10
    <3>2. CASE i \in 1 .. Len(sent)
      BY <3>1, <3>2, <1>7, <1>10 DEF Once
    <3>3. CASE i = Len(sent) + 1
      BY <3>1, <3>3, <1>2, <1>3, <1>7, <1>10 DEF Once
    <3> QED
      BY <2>2, <3>2, <3>3
  <2>6. \A t, u \in Sender : writing'[t] # <<>> /\ writing'[u] # <<>>
          /\ writing'[t][1].of = writing'[u][1].of => t = u
    BY <1>8 DEF Once
  <2> QED
    BY <2>3, <2>4, <2>5, <2>6, <1>1, <1>3, <1>10 DEF Once
<1> QED
  BY <1>9, <1>10

\* Every step keeps the packets different.
LEMMA OnceStep == FramingTypeInv /\ Once /\ [Next]_vars => Once'
<1> SUFFICES ASSUME FramingTypeInv, Once, [Next]_vars PROVE Once'
  OBVIOUS
<1>1. ASSUME NEW s \in Sender, Send(s) PROVE Once'
  BY <1>1, SendBeginOnce DEF Send
<1>2. ASSUME NEW s \in Sender, Write(s) PROVE Once'
  BY <1>2, WriteOnce
<1>3. CASE Close \/ Reset
  <2>1. writing' = [s \in Sender |-> <<>>] /\ UNCHANGED <<begun, sent>>
    BY <1>3 DEF Close, Reset
  <2> QED
    BY <2>1 DEF Once
<1>4. ASSUME UNCHANGED <<writing, begun, sent>> PROVE Once'
  BY <1>4 DEF Once
<1>5. ASSUME NEW k, RecvHeader(k) \/ RecvBody(k) PROVE Once'
  BY <1>4, <1>5 DEF RecvHeader, RecvBody, sendVars
<1>6. CASE \/ ResizeFails \/ RecvBodyEnd \/ Dispatch \/ RecvEnd \/ UNCHANGED vars
           \/ RecvHeaderError \/ RecvNoHeader \/ RecvBodyError
  BY <1>4, <1>6 DEF ResizeFails, RecvBodyEnd, Dispatch, RecvEnd, RecvHeaderError,
    RecvNoHeader, RecvBodyError, vars, sendVars
<1> QED
  BY <1>1, <1>2, <1>3, <1>5, <1>6 DEF Next, Receive

\* Counting: a packet that a thread still holds is one more than those sent.
LEMMA SentBound ==
  ASSUME FramingTypeInv, Once, NEW s \in Sender, writing[s] # <<>>
  PROVE  Len(sent) < MaxPackets
<1> DEFINE n == Len(sent)
           f == [i \in 1 .. n + 1 |-> IF i = n + 1 THEN writing[s][1].of ELSE sent[i].id]
<1>1. /\ n \in Nat /\ Len(begun) \in Nat /\ DOMAIN begun = 1 .. Len(begun)
      /\ Len(begun) <= MaxPackets
  BY LenProperties DEF FramingTypeInv, FramingTypeOK
<1>2. writing[s][1].of \in DOMAIN begun
  BY HeldUnit
<1>3. \A i \in 1 .. n + 1 : i # n + 1 => i \in 1 .. n
  BY <1>1
<1> HIDE DEF n
<1>4. f \in [1 .. n + 1 -> 1 .. Len(begun)]
  BY <1>1, <1>2, <1>3 DEF Once, n
<1>5. ASSUME NEW i \in 1 .. n + 1, NEW j \in 1 .. n + 1, f[i] = f[j] PROVE i = j
  <2>1. CASE i # n + 1 /\ j # n + 1
    <3>1. sent[i].id = sent[j].id
      BY <2>1, <1>5
    <3> QED
      BY <2>1, <3>1, <1>3 DEF Once, n
  <2>2. CASE i = n + 1 /\ j # n + 1
    <3>1. writing[s][1].of = sent[j].id
      BY <2>2, <1>5
    <3> QED
      BY <2>2, <3>1, <1>3 DEF Once, n
  <2>3. CASE i # n + 1 /\ j = n + 1
    <3>1. sent[i].id = writing[s][1].of
      BY <2>3, <1>5
    <3> QED
      BY <2>3, <3>1, <1>3 DEF Once, n
  <2> QED
    BY <2>1, <2>2, <2>3
<1> HIDE DEF f
<1>6. f \in Injection(1 .. n + 1, 1 .. Len(begun))
  BY <1>4, <1>5 DEF Injection, IsInjective
<1>7. /\ IsFiniteSet(1 .. Len(begun)) /\ Cardinality(1 .. Len(begun)) = Len(begun)
      /\ Cardinality(1 .. n + 1) = n + 1
  <2>1. /\ 1 \in Int /\ Len(begun) \in Int /\ n + 1 \in Int
        /\ (IF 1 > Len(begun) THEN 0 ELSE Len(begun) - 1 + 1) = Len(begun)
        /\ (IF 1 > n + 1 THEN 0 ELSE (n + 1) - 1 + 1) = n + 1
    BY <1>1 DEF n
  <2> QED
    BY <2>1, FS_Interval
<1>8. Cardinality(1 .. n + 1) <= Cardinality(1 .. Len(begun))
  BY <1>6, <1>7, FS_Injection
<1> QED
  BY <1>1, <1>7, <1>8, FramingAssumption DEF n

\* What was dispatched, as packets, is a first part of what was sent.
Prefix ==
  /\ sent \in Seq(Packet) /\ Len(got) \in 0 .. Len(sent)
  /\ Delivered = SubSeq(sent, 1, Len(got))

LEMMA DeliveredIsPrefix == FramingInv /\ Whole => Prefix
<1> SUFFICES ASSUME FramingInv, Whole PROVE Prefix
  OBVIOUS
<1> DEFINE g == Len(got)
<1>1. /\ sent \in Seq(Packet) /\ Len(sent) \in Nat /\ g \in Nat
      /\ DOMAIN got = 1 .. g
  BY LenProperties DEF FramingInv, FramingTypeInv, FramingTypeOK
<1>2. PICK line \in Seq(Packet) : \E cut \in [0 .. Len(line) -> Nat] : Explains(line, cut)
  BY DEF FramingInv, WholeInv
<1>3. Receiving(line) /\ LineOf(line)
  BY <1>2 DEF Explains
<1>4. g \in 0 .. Len(sent)
  BY <1>1, <1>3 DEF Receiving
<1>5. \A i \in 1 .. g : got[i] = [cmd |-> sent[i].cmd, body |-> Body(sent[i])]
  BY <1>3 DEF Receiving
<1> HIDE DEF g
<1>6. ASSUME NEW i \in 1 .. g
      PROVE  [id  |-> Head(got[i].body).of, cmd |-> got[i].cmd, len |-> Len(got[i].body)]
               = sent[i]
  <2> DEFINE p == sent[i]
  <2>1. i \in 1 .. Len(sent) /\ Len(line) \in Nat /\ i \in 1 .. Len(line)
    <3>1. Len(line) \in Nat /\ Len(sent) <= Len(line)
      BY <1>1, <1>2, <1>3, LenProperties DEF LineOf
    <3> QED
      BY <3>1, <1>1, <1>4
  <2>2. p \in Packet /\ p.len # 0
    BY <2>1, <1>1, <1>3, ElementOfSeq DEF LineOf, FramingInv, FramingTypeInv, BegunInOrder
  <2>3. got[i].cmd = p.cmd /\ got[i].body = Body(p)
    <3>1. got[i] = [cmd |-> p.cmd, body |-> Body(p)]
      BY <1>5
    <3> HIDE DEF p
    <3> QED
      BY <3>1
  <2> HIDE DEF p
  <2>4. /\ Body(p) \in Seq([field : {"body"}, of : {p.id}, value : Nat])
        /\ Len(Body(p)) = p.len /\ p.len \in Nat \ {0}
    BY <2>2, BodyUnits, FramingAssumption DEF Packet
  <2>5. Body(p) # <<>>
    BY <2>4, EmptySeq
  <2>6. Head(Body(p)) \in [field : {"body"}, of : {p.id}, value : Nat]
    BY <2>4, <2>5, HeadTailProperties
  <2>7. Head(Body(p)).of = p.id
    BY <2>6
  <2>8. p = [id |-> p.id, cmd |-> p.cmd, len |-> p.len]
    BY <2>2 DEF Packet
  <2> QED
    BY <2>3, <2>4, <2>7, <2>8, Zenon DEF p
<1>7. Delivered = [i \in 1 .. g |-> sent[i]]
  BY <1>1, <1>6, Zenon DEF Delivered
<1>8. \A i \in 1 .. g : sent[i] \in Packet
  BY <1>1, <1>4, ElementOfSeq
<1>9. [i \in 1 .. g |-> sent[i]] \in Seq(Packet) /\ Len([i \in 1 .. g |-> sent[i]]) = g
  <2>1. [i \in 1 .. g |-> sent[i]] \in [1 .. g -> Packet] /\ g \in Nat
    BY <1>1, <1>8
  <2> QED
    BY <2>1, FunctionIsSeq, Zenon
<1>10. /\ SubSeq(sent, 1, g) \in Seq(Packet) /\ Len(SubSeq(sent, 1, g)) = g
       /\ \A i \in 1 .. g : SubSeq(sent, 1, g)[i] = sent[i]
  BY <1>1, <1>4, CutSeq
<1>11. [i \in 1 .. g |-> sent[i]] = SubSeq(sent, 1, g)
  <2> DEFINE q == [i \in 1 .. g |-> sent[i]]
             r == SubSeq(sent, 1, g)
  <2>1. \A i \in 1 .. g : q[i] = sent[i]
    OBVIOUS
  <2>2. q \in Seq(Packet) /\ Len(q) = g /\ r \in Seq(Packet) /\ Len(r) = g
        /\ \A i \in 1 .. g : r[i] = sent[i]
    BY <1>9, <1>10
  <2> HIDE DEF q, r
  <2>3. q = r
    BY <2>1, <2>2, SeqEqual
  <2> QED
    BY <2>3 DEF q, r
<1> QED
  BY <1>1, <1>4, <1>7, <1>11 DEF g, Prefix

\* A connection that was reset stays so.
LEMMA ResetStays ==
  ASSUME FramingTypeInv, [Next]_vars, reset' = "no"
  PROVE  reset = "no"
<1>1. CASE UNCHANGED vars
  BY <1>1 DEF vars, ends
<1>2. ASSUME NEW s \in Sender, Send(s) \/ Write(s) PROVE reset = "no"
  BY <1>2 DEF Send, SendBegin, Write, ends
<1>3. CASE Close \/ Reset
  BY <1>3 DEF Close, Reset, ends
<1>4. ASSUME NEW k, RecvHeader(k) \/ RecvBody(k) PROVE reset = "no"
  BY <1>4 DEF RecvHeader, RecvBody, ends
<1>5. CASE ResizeFails \/ RecvBodyEnd \/ Dispatch \/ RecvEnd
  BY <1>5 DEF ResizeFails, RecvBodyEnd, Dispatch, RecvEnd, ends
<1>6. CASE RecvHeaderError \/ RecvNoHeader \/ RecvBodyError
  BY <1>6 DEF RecvHeaderError, RecvNoHeader, RecvBodyError, AtError, Told
<1> QED
  BY <1>1, <1>2, <1>3, <1>4, <1>5, <1>6 DEF Next, Receive

\* A step of the code is one of the channel, or leaves the channel as it is.
LEMMA ChannelStep ==
  ASSUME FramingInv, FramingInv', Once, [Next]_vars
  PROVE  [Channel!Next]_(Channel!vars)
<1> DEFINE Kept == sent' = sent /\ got' = got
<1>0. FramingTypeInv
  BY DEF FramingInv
<1>1. CASE ~Intact
  <2>1. ~Intact'
    BY <1>0, <1>1, WholeBefore, ResetStays DEF Intact
  <2>2. Intact = FALSE /\ Intact' = FALSE
    BY <1>1, <2>1, Zenon DEF Intact
  <2>3. UNCHANGED Channel!vars
    BY <2>2 DEF Channel!vars
  <2> QED
    BY <2>3
<1>2. CASE Intact /\ ~Intact'
  <2>1. Intact = TRUE /\ Intact' = FALSE
    BY <1>2, Zenon DEF Intact
  <2>2. Channel!Cut
    BY <2>1 DEF Channel!Cut
  <2> QED
    BY <2>2 DEF Channel!Next
<1>3. CASE Intact /\ Intact'
  <2>0. Whole /\ Whole' /\ reset = "no" /\ reset' = "no"
    BY <1>3 DEF Intact
  <2> DEFINE Done == Channel!Next \/ UNCHANGED Channel!vars
  <2>1. ASSUME Kept PROVE UNCHANGED Channel!vars
    <3>1. Delivered' = Delivered
      BY <2>1 DEF Delivered
    <3> QED
      BY <2>1, <3>1, <1>3 DEF Channel!vars
  <2>2. ASSUME NEW s \in Sender, Write(s) PROVE Done
    <3>1. sent' = sent \/ \E p \in Packet : sent' = Append(sent, p)
      BY <1>0, <2>2, WriteOnce
    <3>2. got' = got
      BY <2>2 DEF Write, recvVars
    <3>3. CASE sent' = sent
      BY <2>1, <3>2, <3>3
    <3>4. ASSUME NEW p \in Packet, sent' = Append(sent, p) PROVE Channel!Next
      <4>1. Len(sent) < MaxPackets
        BY <1>0, <2>2, SentBound DEF Write
      <4>2. Delivered' = Delivered
        BY <3>2 DEF Delivered
      <4>3. Channel!Send(p)
        BY <1>3, <3>4, <4>1, <4>2, Zenon DEF Channel!Send
      <4> QED
        BY <4>3, Zenon DEF Channel!Next, Packet
    <3> QED
      BY <3>1, <3>3, <3>4
  <2>3. ASSUME Dispatch PROVE Channel!Next
    <3>1. /\ sent \in Seq(Packet) /\ Len(got) \in 0 .. Len(sent)
          /\ Delivered = SubSeq(sent, 1, Len(got))
      BY <2>0, DeliveredIsPrefix DEF Prefix
    <3>2. Delivered' = SubSeq(sent', 1, Len(got'))
      <4>1. FramingInv' /\ Whole' => Prefix'
        BY DeliveredIsPrefix, PTL
      <4> QED
        BY <2>0, <4>1 DEF Prefix
    <3>3. sent' = sent /\ got' = Append(got, [cmd |-> type, body |-> buff])
      BY <2>3 DEF Dispatch, sendVars
    <3>4. Len(got) < Len(sent)
      <4>1. PICK line \in Seq(Packet) : \E cut \in [0 .. Len(line) -> Nat] : Explains(line, cut)
        BY <2>0 DEF FramingInv, WholeInv
      <4> QED
        BY <4>1, <1>0, <2>3, DispatchWhole
    <3>5. Len(got') = Len(got) + 1
      <4>1. got \in Seq([cmd : Command \cup {0}, body : Seq(Unit)])
            /\ [cmd |-> type, body |-> buff] \in [cmd : Command \cup {0}, body : Seq(Unit)]
        BY <1>0 DEF FramingTypeInv, FramingTypeOK
      <4> QED
        BY <4>1, <3>3, AppendProperties
    <3> DEFINE g == Len(got)
    <3>6. Len(sent) \in Nat /\ g \in Nat /\ g + 1 \in 1 .. Len(sent)
      BY <3>1, <3>4, LenProperties
    <3>7. SubSeq(sent, 1, g + 1) = Append(SubSeq(sent, 1, g), sent[g + 1])
      <4>1. /\ SubSeq(sent, 1, g) \in Seq(Packet) /\ Len(SubSeq(sent, 1, g)) = g
            /\ \A i \in 1 .. g : SubSeq(sent, 1, g)[i] = sent[i]
        BY <3>1, CutSeq
      <4>2. /\ SubSeq(sent, 1, g + 1) \in Seq(Packet)
            /\ Len(SubSeq(sent, 1, g + 1)) = g + 1
            /\ \A i \in 1 .. g + 1 : SubSeq(sent, 1, g + 1)[i] = sent[i]
        <5>1. g + 1 \in 0 .. Len(sent)
          BY <3>6
        <5> QED
          BY <3>1, <5>1, CutSeq
      <4>3. sent[g + 1] \in Packet
        BY <3>1, <3>6, ElementOfSeq
      <4> DEFINE q == SubSeq(sent, 1, g)
                 r == SubSeq(sent, 1, g + 1)
      <4>4. /\ q \in Seq(Packet) /\ Len(q) = g /\ \A i \in 1 .. g : q[i] = sent[i]
            /\ r \in Seq(Packet) /\ Len(r) = g + 1
            /\ \A i \in 1 .. g + 1 : r[i] = sent[i]
        BY <4>1, <4>2
      <4> HIDE DEF q, r
      <4>5. /\ Append(q, sent[g + 1]) \in Seq(Packet)
            /\ Len(Append(q, sent[g + 1])) = g + 1
            /\ \A i \in 1 .. g : Append(q, sent[g + 1])[i] = q[i]
            /\ Append(q, sent[g + 1])[g + 1] = sent[g + 1]
        BY <4>3, <4>4, AppendProperties
      <4>6. \A i \in 1 .. g + 1 : r[i] = Append(q, sent[g + 1])[i]
        <5>1. \A i \in 1 .. g + 1 : i \in 1 .. g \/ i = g + 1
          BY <3>6
        <5> QED
          BY <5>1, <4>4, <4>5
      <4>7. r = Append(q, sent[g + 1])
        BY <4>4, <4>5, <4>6, SeqEqual
      <4> QED
        BY <4>7 DEF q, r
    <3>8. Len(Delivered) = g
      BY <3>1, CutSeq
    <3>9. Delivered' = Append(Delivered, sent[Len(Delivered) + 1])
      BY <3>1, <3>2, <3>3, <3>5, <3>7, <3>8, Zenon
    <3>10. Channel!Deliver
      BY <1>3, <3>3, <3>4, <3>8, <3>9, Zenon DEF Channel!Deliver
    <3> QED
      BY <3>10 DEF Channel!Next
  <2>4. ASSUME NEW s \in Sender, Send(s) PROVE Kept
    BY <2>4 DEF Send, SendBegin, recvVars
  <2>5. CASE Close
    BY <2>1, <2>5 DEF Close, recvVars
  <2>6. ASSUME NEW k, RecvHeader(k) \/ RecvBody(k) PROVE Kept
    BY <2>6 DEF RecvHeader, RecvBody, sendVars
  <2>7. CASE ResizeFails \/ RecvBodyEnd \/ RecvEnd \/ UNCHANGED vars
    BY <2>1, <2>7 DEF ResizeFails, RecvBodyEnd, RecvEnd, vars, sendVars, recvVars
  <2>7a. ~(Reset \/ RecvHeaderError \/ RecvNoHeader \/ RecvBodyError)
    BY <2>0 DEF Reset, RecvHeaderError, RecvNoHeader, RecvBodyError, AtError
  <2> HIDE DEF Kept
  <2>8. Done
    BY <2>1, <2>2, <2>3, <2>4, <2>5, <2>6, <2>7, <2>7a DEF Next, Receive
  <2> QED
    BY <2>8
<1> QED
  BY <1>1, <1>2, <1>3

\* Framing implements the channel of PacketChannel, in its safety: until the
\* stream is cut in a wrong place or reset every packet written to its end is sent once,
\* and packets are delivered in that order and only after they were sent.
THEOREM FramingIsChannel == Spec => Channel!Init /\ [][Channel!Next]_(Channel!vars)
<1>1. Init => Channel!Init
  BY DEF Init, Channel!Init, Intact, Whole, Delivered
<1>2. Init => Once
  BY DEF Init, Once
<1>3. Spec => []Once
  <2>1. FramingInv => FramingTypeInv
    BY DEF FramingInv
  <2> QED
    BY <1>2, <2>1, OnceStep, FramingInvariant, PTL DEF Spec
<1>4. FramingInv /\ FramingInv' /\ Once /\ [Next]_vars => [Channel!Next]_(Channel!vars)
  BY ChannelStep
<1> QED
  BY <1>1, <1>3, <1>4, FramingInvariant, PTL DEF Spec
====
