--------------------------- MODULE TcpServerProofs ---------------------------
(***************************************************************************)
(* What the TCP server promises for every segment size, window, payload    *)
(* and number of faults.  First the numbers: what the server takes was     *)
(* sent, since no packet of the client reaches beyond the numbers in use   *)
(* and the FIN has the last one; and without options the server gives out  *)
(* one number for each byte it takes.                                      *)
(* Then, for a client that sends no options, the stream: each segment carries the bytes its number stands for.  *)
(* A calm connection: nothing that arrives is refused.  Last, the segments *)
(* keep every byte that the client has not got, once.                      *)
(***************************************************************************)
EXTENDS TcpServer, SequenceTheorems, FiniteSetTheorems, FunctionTheorems,
        WellFoundedInduction, TLAPS

USE TcpAssumption

IsSeq(q) == Len(q) \in Nat /\ q = [i \in 1..Len(q) |-> q[i]]

\* A packet of the client, seen from the numbers it has used.
Sound(p) ==
    /\ p.seq \in Nat /\ p.len \in Nat /\ p.opt \in Options
    /\ p.seq + p.len + Fin(p) <= nxt
    /\ "SYN" \in p.flags => p.seq = 0 /\ nxt >= 1
    /\ "FIN" \in p.flags => cstate \in {"fin", "reset"} /\ p.seq + p.len + 1 = nxt

Numbers ==
    /\ state \in {"none", "est", "ack_fin"}
    /\ seqLocal \in Nat /\ seqRemote \in Nat /\ closing \in BOOLEAN
    /\ nxt \in Nat /\ una \in Nat
    /\ cstate \in {"closed", "syn", "est", "fin", "reset"}
    /\ cstate = "closed" => nxt = 0

Queued == IsSeq(toServer) /\ \A i \in 1..Len(toServer) : Sound(toServer[i])

\* An ordinary client answers the SYN-ACK, which has no options, with packets that
\* have none.
NoOptions == Options = {0}

\* The server has given out one number for every byte it took.  The two FINs make
\* the difference while the server still has to send its own.
EchoedOnce ==
    /\ state = "est" => seqRemote = seqLocal + (IF closing THEN 1 ELSE 0)
    /\ state = "ack_fin" => seqRemote = seqLocal

BytesCounted == NoOptions => EchoedOnce

IInv == Numbers /\ Queued /\ TakenWasSent /\ BytesCounted

-----------------------------------------------------------------------------

LEMMA SeqTyped == ASSUME NEW q, IsSeq(q) PROVE q \in Seq({q[i] : i \in 1..Len(q)})
  <1> DEFINE S == {q[i] : i \in 1..Len(q)}
  <1>1. q \in [1..Len(q) -> S]
    <2>1. \A i \in 1..Len(q) : q[i] \in S
      OBVIOUS
    <2> HIDE DEF S
    <2> QED BY <2>1, Zenon DEF IsSeq
  <1>2. Len(q) \in Nat
    BY DEF IsSeq
  <1>3. q \in UNION {[1..n -> S] : n \in Nat}
    BY <1>1, <1>2, Zenon
  <1> QED BY <1>3, SeqDef, Zenon

LEMMA TypedIsSeq == ASSUME NEW S, NEW q \in Seq(S) PROVE IsSeq(q)
  <1>1. Len(q) \in Nat /\ q \in [1..Len(q) -> S]
    BY LenProperties, Zenon
  <1> QED BY <1>1, Zenon DEF IsSeq

LEMMA AppendIsSeq ==
  ASSUME NEW q, IsSeq(q), NEW e
  PROVE  /\ IsSeq(Append(q, e)) /\ Len(Append(q, e)) = Len(q) + 1
         /\ \A i \in 1..Len(q) : Append(q, e)[i] = q[i]
         /\ Append(q, e)[Len(q) + 1] = e
  <1> DEFINE R == {q[i] : i \in 1..Len(q)}
             S == R \cup {e}
  <1>1. q \in Seq(R) /\ R \subseteq S /\ e \in S
    BY SeqTyped
  <1> HIDE DEF R, S
  <1>2. q \in Seq(S)
    BY <1>1, SeqMonotonic, Zenon
  <1>3. Append(q, e) \in Seq(S)
    BY <1>1, <1>2
  <1>4. IsSeq(Append(q, e))
    BY <1>3, TypedIsSeq, Zenon
  <1> QED BY <1>1, <1>2, <1>4

LEMMA TailIsSeq ==
  ASSUME NEW q, IsSeq(q), q # <<>>
  PROVE  /\ IsSeq(Tail(q)) /\ Len(Tail(q)) = Len(q) - 1 /\ Len(q) > 0
         /\ Head(q) = q[1]
         /\ \A i \in 1..Len(Tail(q)) : Tail(q)[i] = q[i + 1]
  <1> DEFINE S == {q[i] : i \in 1..Len(q)}
  <1>1. q \in Seq(S)
    BY SeqTyped
  <1> HIDE DEF S
  <1>2. Len(q) > 0 /\ Len(q) \in Nat
    BY <1>1
  <1>3. Tail(q) \in Seq(S) /\ Len(Tail(q)) = Len(q) - 1
    BY <1>1, HeadTailProperties, Zenon
  <1>4. IsSeq(Tail(q))
    BY <1>3, TypedIsSeq, Zenon
  <1> QED BY <1>1, <1>2, <1>3, <1>4

-----------------------------------------------------------------------------

\* The numbers only grow, and stop with the FIN.
Grows ==
    /\ nxt' >= nxt /\ nxt' \in Nat
    /\ cstate \in {"fin", "reset"} => nxt' = nxt /\ cstate' \in {"fin", "reset"}

LEMMA SoundKept == ASSUME Numbers, Grows, NEW p, Sound(p) PROVE Sound(p)'
  <1>1. Fin(p) \in Nat /\ Fin(p)' = Fin(p)
    BY DEF Fin
  <1> QED BY <1>1 DEF Numbers, Grows, Sound

LEMMA QueuedTail ==
  ASSUME Numbers, Grows, Queued, toServer # <<>>, toServer' = Tail(toServer)
  PROVE  Queued' /\ Sound(Head(toServer))
  <1> DEFINE q == toServer
  <1>1. /\ IsSeq(Tail(q)) /\ Len(Tail(q)) = Len(q) - 1 /\ Len(q) > 0
        /\ Head(q) = q[1]
        /\ \A i \in 1..Len(Tail(q)) : Tail(q)[i] = q[i + 1]
    BY TailIsSeq DEF Queued
  <1>2. Len(q) \in Nat
    BY DEF Queued, IsSeq
  <1>3. Sound(Head(q))
    BY <1>1, <1>2 DEF Queued
  <1>4. ASSUME NEW i \in 1..Len(Tail(q)) PROVE Sound(Tail(q)[i])
    <2>1. i + 1 \in 1..Len(q)
      BY <1>1, <1>2
    <2> QED BY <1>1, <2>1 DEF Queued
  <1>5. ASSUME NEW i \in 1..Len(toServer') PROVE Sound(toServer[i])'
    <2>1. PICK e : e = toServer'[i]
      OBVIOUS
    <2>2. Sound(e)
      BY <1>4, <2>1
    <2>3. Sound(e)'
      BY <2>2, SoundKept
    <2> QED BY <2>1, <2>3 DEF Sound, Fin
  <1>6. IsSeq(toServer)'
    BY <1>1 DEF IsSeq
  <1> QED BY <1>3, <1>5, <1>6 DEF Queued

LEMMA QueuedAppend ==
  ASSUME Numbers, Grows, Queued, NEW e, toServer' = Append(toServer, e), Sound(e)'
  PROVE  Queued'
  <1> DEFINE q == toServer
  <1>1. /\ IsSeq(Append(q, e)) /\ Len(Append(q, e)) = Len(q) + 1
        /\ \A i \in 1..Len(q) : Append(q, e)[i] = q[i]
        /\ Append(q, e)[Len(q) + 1] = e
    BY AppendIsSeq DEF Queued
  <1>2. Len(q) \in Nat
    BY DEF Queued, IsSeq
  <1>3. ASSUME NEW i \in 1..Len(toServer') PROVE Sound(toServer[i])'
    <2>1. PICK f : f = toServer'[i]
      OBVIOUS
    <2>2. Sound(f)'
      <3>1. CASE i = Len(q) + 1
        BY <1>1, <2>1, <3>1
      <3>2. CASE i \in 1..Len(q)
        <4>1. Sound(f)
          BY <1>1, <2>1, <3>2 DEF Queued
        <4> QED BY <4>1, SoundKept
      <3> QED BY <1>1, <1>2, <3>1, <3>2
    <2> QED BY <2>1, <2>2 DEF Sound, Fin
  <1>4. IsSeq(toServer)'
    BY <1>1 DEF IsSeq
  <1> QED BY <1>3, <1>4 DEF Queued

LEMMA QueuedSame ==
  ASSUME Numbers, Grows, Queued, toServer' = toServer
  PROVE  Queued'
  <1>1. ASSUME NEW i \in 1..Len(toServer) PROVE Sound(toServer[i])'
    <2>1. PICK f : f = toServer[i]
      OBVIOUS
    <2>2. Sound(f)'
      BY <2>1, SoundKept DEF Queued
    <2> QED BY <2>1, <2>2 DEF Sound, Fin
  <1> QED BY <1>1 DEF Queued, IsSeq

-----------------------------------------------------------------------------

\* Without options both looks at the header find the same payload.
LEMMA NoOptionBytes ==
  ASSUME NEW p, p.opt = 0, p.len \in Int, p.from \in Int
  PROVE  DataLen(p) = p.len /\ Start(p) = p.from
  <1>1. PICK len \in Int, from \in Int : len = p.len /\ from = p.from
    OBVIOUS
  <1>2. len + 0 = len /\ from - 0 = from
    OBVIOUS
  <1> QED BY <1>1, <1>2 DEF DataLen, Start

Core == Numbers /\ TakenWasSent /\ BytesCounted

LEMMA EndStep == ASSUME Core, End, UNCHANGED client PROVE Core'
  BY DEF Core, Numbers, TakenWasSent, BytesCounted, EchoedOnce, End, client

LEMMA SameStep ==
  ASSUME Core, UNCHANGED <<state, seqLocal, seqRemote, closing>>, UNCHANGED client
  PROVE  Core'
  BY DEF Core, Numbers, TakenWasSent, BytesCounted, EchoedOnce, client

LEMMA SynAckStep ==
  ASSUME Core, NEW p, Sound(p), SynAck(p), UNCHANGED client
  PROVE  Core'
  <1>1. p.seq = 0 /\ nxt >= 1
    BY DEF SynAck, Sound
  <1>2. state' = "est" /\ seqRemote' = 1 /\ seqLocal' = 1 /\ closing' = FALSE
    BY <1>1 DEF SynAck
  <1>3. Numbers'
    BY <1>2 DEF Core, Numbers, client
  <1>4. TakenWasSent' /\ EchoedOnce'
    BY <1>1, <1>2 DEF Core, Numbers, TakenWasSent, EchoedOnce, client
  <1> QED BY <1>3, <1>4 DEF Core, BytesCounted

\* The bytes of a packet count on both sides; its FIN counts on the client's
\* side, and on the server's when everything is sent.
LEMMA EstTakeStep ==
  ASSUME Core, NEW p, Sound(p), EstTake(p), UNCHANGED client
  PROVE  Core'
  <1>1. PICK fin \in BOOLEAN :
          /\ fin => closing'
          /\ seqLocal' = seqLocal + DataLen(p) + (IF fin THEN 1 ELSE 0)
          /\ state' = IF fin THEN "ack_fin" ELSE "est"
    BY DEF EstTake
  <1>2. /\ state = "est" /\ p.seq = seqRemote
        /\ closing' = (closing \/ "FIN" \in p.flags)
        /\ seqRemote' = seqRemote + p.len + Fin(p)
    BY DEF EstTake
  <1>3. /\ p.len \in Nat /\ seqRemote + p.len + Fin(p) <= nxt
        /\ "FIN" \in p.flags => cstate \in {"fin", "reset"} /\ seqRemote + p.len + 1 = nxt
        /\ Fin(p) = IF "FIN" \in p.flags THEN 1 ELSE 0
        /\ seqLocal \in Nat /\ seqRemote \in Nat /\ nxt \in Nat /\ UNCHANGED <<nxt, cstate>>
    BY <1>2 DEF Sound, Fin, Core, Numbers, client
  <1>4. closing => /\ seqRemote = nxt /\ cstate \in {"fin", "reset"}
                   /\ "FIN" \notin p.flags /\ p.len = 0
    <2>1. closing => seqRemote = nxt /\ cstate \in {"fin", "reset"}
      BY <1>2 DEF Core, TakenWasSent
    <2> QED BY <1>3, <2>1
  <1>5. Numbers'
    <2>1. DataLen(p) \in Nat
      <3>1. PICK len \in Nat, opt \in Nat : len = p.len /\ opt = p.opt
        BY <1>3 DEF Sound
      <3> QED BY <3>1 DEF DataLen
    <2>2. closing' \in BOOLEAN
      BY <1>2, Zenon DEF Core, Numbers
    <2>3. seqLocal' \in Nat /\ seqRemote' \in Nat /\ state' \in {"none", "est", "ack_fin"}
      BY <1>1, <1>2, <1>3, <2>1
    <2> QED BY <2>2, <2>3 DEF Core, Numbers, client
  <1>6. TakenWasSent'
    <2>1. seqRemote' <= nxt'
      BY <1>2, <1>3
    <2>2. closing' => seqRemote' = nxt' /\ cstate' \in {"fin", "reset"}
      <3>1. CASE closing
        BY <1>2, <1>3, <1>4, <3>1
      <3>2. CASE "FIN" \in p.flags
        BY <1>2, <1>3, <3>2
      <3>3. closing' => closing \/ "FIN" \in p.flags
        BY <1>2, Zenon
      <3> QED BY <3>1, <3>2, <3>3
    <2> QED BY <2>1, <2>2 DEF TakenWasSent
  <1>7. ASSUME NoOptions PROVE EchoedOnce'
    <2>1. seqLocal' = seqLocal + p.len + (IF fin THEN 1 ELSE 0)
      <3>1. p.opt = 0
        BY <1>7 DEF NoOptions, Sound
      <3>2. DataLen(p) = p.len
        BY <1>3, <3>1 DEF DataLen
      <3> QED BY <1>1, <3>2
    <2>2. seqRemote = seqLocal + (IF closing THEN 1 ELSE 0)
      BY <1>2, <1>7 DEF Core, BytesCounted, EchoedOnce
    <2>3. closing' <=> closing \/ "FIN" \in p.flags
      BY <1>2, Zenon
    <2>4. CASE closing
      BY <1>1, <1>2, <1>3, <1>4, <2>1, <2>2, <2>3, <2>4 DEF EchoedOnce
    <2>5. CASE ~closing /\ "FIN" \in p.flags
      BY <1>1, <1>2, <1>3, <2>1, <2>2, <2>3, <2>5 DEF EchoedOnce
    <2>6. CASE ~closing /\ "FIN" \notin p.flags
      BY <1>1, <1>2, <1>3, <2>1, <2>2, <2>3, <2>6 DEF EchoedOnce
    <2> QED BY <2>4, <2>5, <2>6
  <1> QED BY <1>5, <1>6, <1>7 DEF Core, BytesCounted

LEMMA ServerStep == ASSUME IInv, ServerPkt PROVE IInv'
  <1> USE DEF IInv
  <1>1. Grows
    BY DEF ServerPkt, Grows, Numbers, client
  <1>2. Queued' /\ Sound(Head(toServer))
    BY <1>1, QueuedTail DEF ServerPkt
  <1>3. PICK p : p = Head(toServer)
    OBVIOUS
  <1>4. /\ SynAck(p) \/ SynAckRefuse(p) \/ EstRefuse(p) \/ EstUnexpected(p) \/ EstTake(p)
           \/ AckFinRefuse(p) \/ AckFinLast(p) \/ AckFinWait(p)
        /\ UNCHANGED client /\ Sound(p) /\ Core
    BY <1>2, <1>3 DEF ServerPkt, Core
  <1>5. Core'
    <2>1. CASE SynAck(p)
      BY <1>4, <2>1, SynAckStep
    <2>2. CASE SynAckRefuse(p) \/ EstRefuse(p) \/ AckFinRefuse(p) \/ AckFinLast(p)
      <3>1. End
        BY <2>2 DEF SynAckRefuse, EstRefuse, AckFinRefuse, AckFinLast
      <3> QED BY <1>4, <3>1, EndStep
    <2>3. CASE EstUnexpected(p)
      BY <1>4, <2>3, SameStep DEF EstUnexpected
    <2>4. CASE EstTake(p)
      BY <1>4, <2>4, EstTakeStep
    <2>5. CASE AckFinWait(p)
      BY <1>4, <2>5, SameStep DEF AckFinWait, server
    <2> QED BY <1>4, <2>1, <2>2, <2>3, <2>4, <2>5
  <1> QED BY <1>2, <1>5 DEF Core

\* A packet the client sends is sound when its numbers end where they should.
LEMMA ClientStep ==
  ASSUME IInv, Grows, Numbers', UNCHANGED server,
         NEW flags, NEW seq, NEW from, NEW len, NEW win,
         Send(flags, seq, from, len, win),
         seq \in Nat, len \in Nat, "SYN" \in flags => seq = 0 /\ nxt' >= 1,
         seq + len + (IF "FIN" \in flags THEN 1 ELSE 0) <= nxt',
         "FIN" \in flags => cstate' \in {"fin", "reset"} /\ seq + len + 1 = nxt'
  PROVE  IInv'
  <1>1. PICK e, opt : /\ e = Packet(flags, seq, rcv', from, len, win, opt) /\ opt \in Options
                      /\ toServer' = Append(toServer, e)
    BY DEF Send
  <1>2. e.flags = flags /\ e.seq = seq /\ e.len = len /\ e.opt = opt
    BY <1>1 DEF Packet
  <1>3. Sound(e)'
    BY <1>1, <1>2 DEF Sound, Fin
  <1>5. Queued'
    BY <1>1, <1>3, QueuedAppend DEF IInv
  <1>6. TakenWasSent' /\ BytesCounted'
    BY DEF IInv, TakenWasSent, BytesCounted, EchoedOnce, server, Grows, Numbers
  <1> QED BY <1>5, <1>6 DEF IInv

\* A step of the client or of the network that sends nothing.
LEMMA QuietStep ==
  ASSUME IInv, Grows, Numbers', UNCHANGED server, Queued'
  PROVE  IInv'
  BY DEF IInv, TakenWasSent, BytesCounted, EchoedOnce, server, Grows, Numbers

LEMMA NetworkStep == ASSUME IInv, Fault PROVE IInv'
  <1>1. Resend \/ ((Lose \/ Copy) /\ UNCHANGED <<server, client>>)
    BY DEF Fault
  <1>2. CASE Resend
    <2>1. /\ cstate \in {"est", "fin"} /\ una < nxt /\ una \in Nat /\ nxt \in Nat
          /\ UNCHANGED <<cstate, nxt, una, server>>
      BY <1>2 DEF Resend, IInv, Numbers
    <2>2. Grows
      BY <2>1 DEF Grows
    <2>3. Numbers'
      BY <2>1 DEF IInv, Numbers, server
    <2>4. PICK len, win :
            \/ /\ (IF cstate = "fin" THEN nxt - 1 ELSE nxt) - una = 0
               /\ Send({"ACK", "FIN"}, una, una, 0, win)
            \/ /\ len \in Sizes /\ len <= (IF cstate = "fin" THEN nxt - 1 ELSE nxt) - una
               /\ Send({"ACK"}, una, una, len, win)
      BY <1>2 DEF Resend
    <2>5. CASE /\ (IF cstate = "fin" THEN nxt - 1 ELSE nxt) - una = 0
               /\ Send({"ACK", "FIN"}, una, una, 0, win)
      <3>1. cstate = "fin" /\ una + 1 = nxt
        BY <2>1, <2>5
      <3> QED BY <2>1, <2>2, <2>3, <2>5, <3>1, ClientStep
    <2>6. CASE /\ len \in Sizes /\ len <= (IF cstate = "fin" THEN nxt - 1 ELSE nxt) - una
               /\ Send({"ACK"}, una, una, len, win)
      <3>1. len \in Nat /\ una + len <= nxt
        BY <2>1, <2>6
      <3> QED BY <2>1, <2>2, <2>3, <2>6, <3>1, ClientStep
    <2> QED BY <2>4, <2>5, <2>6
  <1>3. CASE (Lose \/ Copy) /\ UNCHANGED <<server, client>>
    <2>1. Grows /\ Numbers' /\ UNCHANGED server
      BY <1>3 DEF Grows, IInv, Numbers, server, client
    <2>2. CASE toServer' = toServer
      BY <2>1, <2>2, QueuedSame, QuietStep DEF IInv
    <2>3. CASE toServer # <<>> /\ toServer' = Tail(toServer)
      BY <2>1, <2>3, QueuedTail, QuietStep DEF IInv
    <2>4. CASE toServer # <<>> /\ toServer' = Append(toServer, Head(toServer))
      <3>1. PICK e : e = Head(toServer)
        OBVIOUS
      <3>2. Sound(e)
        <4>1. IsSeq(toServer) /\ Head(toServer) = toServer[1] /\ Len(toServer) > 0
          BY <2>4, TailIsSeq DEF IInv, Queued
        <4>2. 1 \in 1..Len(toServer)
          BY <4>1 DEF IsSeq
        <4> QED BY <3>1, <4>1, <4>2 DEF IInv, Queued
      <3>3. Sound(e)'
        BY <2>1, <3>2, SoundKept DEF IInv
      <3>4. Queued'
        BY <2>1, <2>4, <3>1, <3>3, QueuedAppend DEF IInv
      <3> QED BY <2>1, <3>4, QuietStep
    <2> QED BY <1>3, <2>2, <2>3, <2>4 DEF Lose, Copy
  <1> QED BY <1>1, <1>2, <1>3

LEMMA ReceiveStep == ASSUME IInv, ClientPkt PROVE IInv'
  <1>1. PICK p : ReceiveSynAck(p) \/ Receive(p) \/ ReceiveRst(p) \/ Ignore(p)
    BY DEF ClientPkt
  <1>2. UNCHANGED <<server, nxt>>
    BY DEF ClientPkt
  <1>3. /\ una' \in Nat /\ cstate' \in {"syn", "est", "fin", "reset", "closed"}
        /\ cstate \in {"fin", "reset"} => cstate' \in {"fin", "reset"}
        /\ cstate' = "closed" => cstate = "closed"
    <2>1. una \in Nat /\ nxt \in Nat /\ cstate \in {"closed", "syn", "est", "fin", "reset"}
      BY DEF IInv, Numbers
    <2>2. CASE ReceiveSynAck(p)
      BY <2>1, <2>2 DEF ReceiveSynAck
    <2>3. CASE Receive(p)
      BY <2>1, <2>3 DEF Receive
    <2>4. CASE ReceiveRst(p)
      BY <2>1, <2>4 DEF ReceiveRst
    <2>5. CASE Ignore(p)
      BY <2>1, <2>5 DEF Ignore
    <2> QED BY <1>1, <2>2, <2>3, <2>4, <2>5
  <1>4. Grows /\ Numbers'
    BY <1>2, <1>3 DEF IInv, Numbers, Grows, server
  <1>5. \/ toServer' = toServer
        \/ \E win \in Windows : Send({"ACK"}, nxt, nxt, 0, win)
    BY <1>1 DEF ReceiveSynAck, Receive, ReceiveRst, Ignore
  <1>6. CASE toServer' = toServer
    BY <1>2, <1>4, <1>6, QueuedSame, QuietStep DEF IInv
  <1>7. ASSUME NEW win, Send({"ACK"}, nxt, nxt, 0, win) PROVE IInv'
    <2>1. nxt \in Nat /\ nxt + 0 + 0 <= nxt'
      BY <1>2 DEF IInv, Numbers
    <2> QED BY <1>2, <1>4, <1>7, <2>1, ClientStep
  <1> QED BY <1>5, <1>6, <1>7

LEMMA SendStep == ASSUME IInv, Connect \/ SendData \/ Close PROVE IInv'
  <1>1. UNCHANGED server
    BY DEF Connect, SendData, Close
  <1>2. CASE Connect
    <2>1. cstate = "closed" /\ nxt = 0 /\ cstate' = "syn" /\ nxt' = 1 /\ UNCHANGED una
      BY <1>2 DEF Connect, IInv, Numbers
    <2>2. Grows /\ Numbers'
      BY <1>1, <2>1 DEF IInv, Numbers, Grows, server
    <2>3. PICK win : Send({"SYN"}, 0, 0, 0, win)
      BY <1>2 DEF Connect
    <2> QED BY <1>1, <2>1, <2>2, <2>3, ClientStep
  <1>3. CASE SendData
    <2>1. PICK len, win :
            /\ len \in Sizes /\ nxt' = nxt + len /\ Send({"ACK"}, nxt, nxt, len, win)
            /\ cstate = "est" /\ UNCHANGED <<cstate, una>>
      BY <1>3 DEF SendData
    <2>2. len \in Nat /\ nxt \in Nat
      BY <2>1 DEF IInv, Numbers
    <2>3. Grows /\ Numbers'
      BY <1>1, <2>1, <2>2 DEF IInv, Numbers, Grows, server
    <2> QED BY <1>1, <2>1, <2>2, <2>3, ClientStep
  <1>4. CASE Close
    <2>1. PICK win :
            /\ nxt' = nxt + 1 /\ Send({"ACK", "FIN"}, nxt, nxt, 0, win)
            /\ cstate = "est" /\ cstate' = "fin" /\ UNCHANGED una
      BY <1>4 DEF Close
    <2>2. nxt \in Nat
      BY DEF IInv, Numbers
    <2>3. Grows /\ Numbers'
      BY <1>1, <2>1, <2>2 DEF IInv, Numbers, Grows, server
    <2> QED BY <1>1, <2>1, <2>2, <2>3, ClientStep
  <1> QED BY <1>2, <1>3, <1>4

LEMMA InitSound == ASSUME Init PROVE IInv
  <1>1. IsSeq(<<>>) /\ Len(<<>>) = 0
    BY EmptySeq, TypedIsSeq, Zenon
  <1>2. Queued
    BY <1>1 DEF Init, Queued
  <1> QED BY <1>2 DEF Init, IInv, Numbers, TakenWasSent, BytesCounted, EchoedOnce

LEMMA InvKept == ASSUME IInv, [Next]_vars PROVE IInv'
  <1>1. CASE ServerPkt
    BY <1>1, ServerStep
  <1>2. CASE Connect \/ SendData \/ Close
    BY <1>2, SendStep
  <1>3. CASE ClientPkt
    BY <1>3, ReceiveStep
  <1>4. CASE Fault
    BY <1>4, NetworkStep
  <1>5. CASE UNCHANGED vars
    <2>1. Grows /\ Numbers' /\ UNCHANGED server /\ toServer' = toServer
      BY <1>5 DEF vars, client, server, Grows, IInv, Numbers
    <2> QED BY <2>1, QueuedSame, QuietStep DEF IInv
  <1> QED BY <1>1, <1>2, <1>3, <1>4, <1>5 DEF Next

LEMMA Invariant == Spec => []IInv
  <1>1. Init => IInv
    BY InitSound
  <1>2. IInv /\ [Next]_vars => IInv'
    BY InvKept
  <1> QED BY <1>1, <1>2, PTL DEF Spec


-----------------------------------------------------------------------------
(* What goes back.  Every segment and every packet that carries bytes has   *)
(* them at the numbers they had in the client's stream.  From here on no    *)
(* packet of the client has options: option bytes are echoed and not        *)
(* counted, and the numbers move apart.                                     *)

InOrder == {s \in Segments : s.len > 0 => s.from = s.seq}

Requests == {p \in Packets : /\ p.opt = 0 /\ p.from = p.seq
                             /\ "FIN" \in p.flags => p.len = 0}

Answers == {p \in Packets : /\ p.len > 0 => p.from = p.seq
                            /\ "SYN" \in p.flags => p.seq = 0}

\* The bytes the client has are all those before the number it expects, but for
\* the server's FIN.
Accepted ==
    /\ got \in Seq(Nat) /\ rcv \in Nat
    /\ cstate \in {"closed", "syn"} => got = <<>>
    /\ cstate \in {"est", "fin"} => rcv > Len(got)
    /\ EchoIsPrefix

Counters ==
    /\ lastAck \in Nat /\ alreadySeen \in 0..ResetAfter
    /\ faults \in 0..MaxFaults /\ resent \in BOOLEAN

Queues ==
    /\ toSend \in Seq(InOrder) /\ sent \in Seq(InOrder)
    /\ toServer \in Seq(Requests) /\ toClient \in Seq(Answers)

StreamInv == NoOptions /\ IInv /\ Queues /\ Accepted /\ Counters

-----------------------------------------------------------------------------
(* The operators on queues                                                  *)

\* Counting the elements of a set of indices from below meets every number once.
LEMMA RankOnto ==
  ASSUME NEW I, IsFiniteSet(I), I \in SUBSET Nat
  PROVE  \A k \in 1..Cardinality(I) : \E i \in I : Cardinality({j \in I : j <= i}) = k
  <1> DEFINE Below(i) == {j \in I : j <= i}
             F == [i \in I |-> Cardinality(Below(i))]
             T == 1..Cardinality(I)
  <1>1. Cardinality(I) \in Nat /\ IsFiniteSet(T) /\ Cardinality(T) = Cardinality(I)
    <2>1. Cardinality(I) \in Nat
      BY FS_CardinalityType
    <2> QED BY <2>1, FS_Interval
  <1>2. ASSUME NEW i \in I
        PROVE  IsFiniteSet(Below(i)) /\ Cardinality(Below(i)) \in T
    <2>1. Below(i) \in SUBSET I /\ i \in Below(i)
      OBVIOUS
    <2> HIDE DEF Below
    <2>2. IsFiniteSet(Below(i)) /\ Cardinality(Below(i)) <= Cardinality(I)
      BY <2>1, FS_Subset
    <2>3. Cardinality(Below(i)) \in Nat /\ Cardinality(Below(i)) # 0
      BY <2>1, <2>2, FS_CardinalityType, FS_EmptySet
    <2> QED BY <1>1, <2>2, <2>3
  <1>3. ASSUME NEW i \in I, NEW j \in I, i < j
        PROVE  Cardinality(Below(i)) # Cardinality(Below(j))
    <2>0. /\ i \in Nat /\ j \in Nat /\ j <= j /\ ~(j <= i)
          /\ \A x \in I : x <= i => x <= j
      BY <1>3
    <2>1. Below(i) \in SUBSET Below(j) /\ j \in Below(j) /\ j \notin Below(i)
      BY <2>0, Zenon
    <2> HIDE DEF Below
    <2> QED BY <1>2, <2>1, FS_Subset
  <1>4. F \in [I -> T]
    BY <1>2
  <1>5. \A i, j \in I : F[i] = F[j] => i = j
    <2>1. \A i \in I : F[i] = Cardinality(Below(i)) /\ i \in Nat
      OBVIOUS
    <2> HIDE DEF F, Below
    <2> QED BY <1>3, <2>1
  <1> HIDE DEF F, T
  <1>6. F \in Injection(I, T)
    BY <1>4, <1>5, Fun_IsInj
  <1>7. F \in Surjection(I, T)
    BY <1>1, <1>6, FS_Injection
  <1>8. \A k \in T : \E i \in I : F[i] = k
    BY <1>7 DEF Surjection
  <1>9. \A i \in I : F[i] = Cardinality(Below(i))
    BY DEF F
  <1> QED BY <1>8, <1>9 DEF T

LEMMA PartType ==
  ASSUME NEW S, NEW q \in Seq(S), NEW I, I \in SUBSET (1..Len(q))
  PROVE  Part(q, I) \in Seq(S)
  <1>1. Len(q) \in Nat
    BY LenProperties
  <1>2. IsFiniteSet(I) /\ I \in SUBSET Nat
    <2>1. IsFiniteSet(1..Len(q)) /\ (1..Len(q)) \in SUBSET Nat
      BY <1>1, FS_Interval
    <2>2. IsFiniteSet(I)
      BY <2>1, FS_Subset
    <2> QED BY <2>1, <2>2
  <1> DEFINE At(k) == CHOOSE i \in I : Cardinality({j \in I : j <= i}) = k
             E(k) == q[At(k)]
             n == Cardinality(I)
  <1>3. n \in Nat
    BY <1>2, FS_CardinalityType
  <1>4. \A k \in 1..n : At(k) \in I
    BY <1>2, RankOnto
  <1> HIDE DEF At
  <1>5. \A k \in 1..n : E(k) \in S
    BY <1>4, ElementOfSeq
  <1> HIDE DEF E, n
  <1>6. [k \in 1..n |-> E(k)] \in Seq(S)
    BY <1>3, <1>5
  <1> QED BY <1>6 DEF Part, E, At, n

LEMMA ReverseType ==
  ASSUME NEW S, NEW q \in Seq(S)
  PROVE  Reverse(q) \in Seq(S)
  <1> DEFINE E(k) == q[(Len(q) - k) + 1]
             n == Len(q)
  <1>1. n \in Nat
    BY LenProperties
  <1>2. \A k \in 1..n : (n - k) + 1 \in 1..n
    BY <1>1
  <1>3. \A k \in 1..n : E(k) \in S
    BY <1>2, ElementOfSeq
  <1> HIDE DEF E, n
  <1>4. [k \in 1..n |-> E(k)] \in Seq(S)
    BY <1>1, <1>3
  <1> QED BY <1>4 DEF Reverse, E, n

\* The payload is cut into pieces of MSS bytes and one of what is left.
LEMMA EchoType ==
  ASSUME NEW p, p.opt = 0, p.len \in Nat, p.from \in Nat, seqLocal \in Nat,
         p.len > 0 => p.from = seqLocal
  PROVE  Echo(p) \in Seq(InOrder)
  <1> DEFINE n == (p.len + MSS - 1) \div MSS
             E(i) == Segment(seqLocal + (i - 1) * MSS, p.from + (i - 1) * MSS,
                             IF p.len - (i - 1) * MSS < MSS THEN p.len - (i - 1) * MSS ELSE MSS)
  <1>1. PICK len, m : len = p.len /\ m = MSS
    OBVIOUS
  <1>2. len \in Nat /\ m \in Nat /\ m > 0
    BY <1>1
  <1>3. n \in Nat /\ n * m <= len + m - 1
    BY <1>1, <1>2
  <1>4. ASSUME NEW i \in 1..n PROVE (i - 1) * m \in Nat /\ (i - 1) * m < len
    <2>1. PICK d : d = n - i
      OBVIOUS
    <2>2. d \in Nat /\ i - 1 \in Nat /\ n = (i - 1) + d + 1
      BY <1>3, <2>1
    <2>3. n * m = (i - 1) * m + d * m + m /\ d * m \in Nat /\ (i - 1) * m \in Nat
      BY <1>2, <2>2
    <2> QED BY <1>2, <1>3, <2>3
  <1>5. ASSUME NEW i \in 1..n PROVE E(i) \in InOrder
    <2>1. PICK k : k = (i - 1) * MSS
      OBVIOUS
    <2>2. k \in Nat /\ k < len
      BY <1>1, <1>4, <2>1
    <2>3. E(i) = [seq |-> seqLocal + k, from |-> p.from + k,
                  len |-> IF len - k < m THEN len - k ELSE m]
      BY <1>1, <2>1 DEF Segment
    <2> HIDE DEF E
    <2> QED BY <1>1, <1>2, <2>2, <2>3 DEF InOrder, Segments
  <1> HIDE DEF E, n
  <1>6. [i \in 1..n |-> E(i)] \in Seq(InOrder)
    BY <1>3, <1>5
  <1>7. DataLen(p) = p.len /\ Start(p) = p.from
    BY NoOptionBytes
  <1> QED BY <1>6, <1>7 DEF Echo, E, n

LEMMA LoopType ==
  ASSUME NEW q \in Seq(InOrder), NEW n \in 0..Len(q), NEW room \in Nat
  PROVE  Loop(q, n, room).rest \in Seq(InOrder) /\ Loop(q, n, room).moved \in Seq(InOrder)
  <1>1. Len(q) \in Nat /\ \A i \in 1..Len(q) : q[i] \in InOrder
    BY LenProperties, ElementOfSeq
  <1>2. SubSeq(q, n + 1, Len(q)) \in Seq(InOrder) /\ SubSeq(q, 1, n) \in Seq(InOrder)
    BY <1>1, SubSeqProperties
  <1>3. CASE n = Len(q) \/ room = 0
    BY <1>2, <1>3 DEF Loop
  <1>4. CASE ~(n = Len(q) \/ room = 0)
    <2>1. n + 1 \in 1..Len(q)
      BY <1>1, <1>4
    <2>2. PICK s \in InOrder : s = q[n + 1]
      BY <1>1, <2>1
    <2>3. PICK a, b : a = Segment(s.seq + room, s.from, 0) /\ b = Segment(s.seq, s.from, 0)
      OBVIOUS
    <2>4. a \in InOrder /\ b \in InOrder
      BY <2>3 DEF InOrder, Segments, Segment
    <2>5. SubSeq(q, n + 2, Len(q)) \in Seq(InOrder)
      <3>1. n + 2 \in Int /\ Len(q) \in Int /\ \A i \in (n + 2)..Len(q) : i \in 1..Len(q)
        BY <1>1
      <3> QED BY <1>1, <3>1, SubSeqProperties
    <2>6. <<a>> \in Seq(InOrder) /\ <<b>> \in Seq(InOrder)
      BY <2>4
    <2>7. <<a>> \o SubSeq(q, n + 2, Len(q)) \in Seq(InOrder)
      BY <2>5, <2>6, ConcatProperties
    <2>8. SubSeq(q, 1, n) \o <<b>> \in Seq(InOrder)
      BY <1>2, <2>6, ConcatProperties
    <2> QED BY <1>4, <2>2, <2>3, <2>7, <2>8 DEF Loop
  <1> QED BY <1>3, <1>4

\* What EstUnexpected and EstTake make of the two queues.
LEMMA QueuesType ==
  ASSUME sent \in Seq(InOrder), toSend \in Seq(InOrder), NEW ack
  PROVE  StillSent(ack) \in Seq(InOrder) /\ Requeued(ack) \in Seq(InOrder)
  <1>1. DOMAIN sent = 1..Len(sent)
    BY LenProperties
  <1>2. /\ (Unacked(ack) \ ToRepeat(ack)) \in SUBSET (1..Len(sent))
        /\ ToRepeat(ack) \in SUBSET (1..Len(sent))
    BY <1>1 DEF Unacked, ToRepeat
  <1>3. StillSent(ack) \in Seq(InOrder)
    BY <1>2, PartType DEF StillSent
  <1>4. Reverse(Part(sent, ToRepeat(ack))) \in Seq(InOrder)
    BY <1>2, PartType, ReverseType
  <1>5. Requeued(ack) \in Seq(InOrder)
    BY <1>4, ConcatProperties DEF Requeued
  <1> QED BY <1>3, <1>5

-----------------------------------------------------------------------------
(* The steps of the server                                                  *)

LEMMA AnswerType ==
  ASSUME toClient \in Seq(Answers), NEW flags \in Flags, NEW seq \in Nat, NEW ack \in Nat,
         NEW from \in Int, NEW len \in Nat, len > 0 => from = seq,
         "SYN" \in flags => seq = 0, Answer(flags, seq, ack, from, len)
  PROVE  toClient' \in Seq(Answers)
  <1>1. PICK e : e = Packet(flags, seq, ack, from, len, 0, 0)
    OBVIOUS
  <1>2. e \in Packets /\ e.flags = flags /\ e.seq = seq /\ e.from = from /\ e.len = len
    BY <1>1 DEF Packet, Packets
  <1>3. e \in Answers
    BY <1>2 DEF Answers
  <1>4. toClient' = Append(toClient, e)
    BY <1>1 DEF Answer
  <1> QED BY <1>3, <1>4, AppendProperties

LEMMA RepeatsType == ASSUME Counters, NEW ack PROVE Repeats(ack) \in 0..ResetAfter
  BY DEF Counters, Repeats, ResetAfter

\* The answer of runEst carries bytes of a segment or those of the packet itself,
\* which are at the server's next number.
LEMMA EstTakeStream ==
  ASSUME StreamInv, NEW p \in Requests, Sound(p), EstTake(p)
  PROVE  toSend' \in Seq(InOrder) /\ sent' \in Seq(InOrder) /\ toClient' \in Seq(Answers)
  <1>1. /\ state = "est" /\ p.seq = seqRemote
        /\ seqRemote' = seqRemote + p.len + Fin(p)
        /\ p.flags \in Flags /\ p.seq \in Nat /\ p.len \in Nat /\ p.from = p.seq
        /\ p.win \in Nat /\ p.opt = 0 /\ DataLen(p) = p.len /\ Start(p) = p.from
    <2>1. /\ p.flags \in Flags /\ p.seq \in Nat /\ p.len \in Nat /\ p.from = p.seq
          /\ p.win \in Nat /\ p.opt = 0
      BY DEF Requests, Packets
    <2>2. DataLen(p) = p.len /\ Start(p) = p.from
      BY <2>1, NoOptionBytes
    <2>3. state = "est" /\ p.seq = seqRemote /\ seqRemote' = seqRemote + p.len + Fin(p)
      BY DEF EstTake
    <2> QED BY <2>1, <2>2, <2>3
  <1>2. seqLocal \in Nat /\ seqRemote' \in Nat /\ (p.len > 0 => p.from = seqLocal)
    <2>1. Fin(p) \in Nat /\ seqLocal \in Nat /\ seqRemote \in Nat
      BY DEF Fin, StreamInv, IInv, Numbers
    <2>2. CASE closing
      BY <1>1, <2>1, <2>2 DEF StreamInv, IInv, Numbers, TakenWasSent, Sound
    <2>3. CASE ~closing
      BY <1>1, <2>1, <2>3 DEF StreamInv, IInv, BytesCounted, EchoedOnce
    <2> QED BY <2>2, <2>3
  <1>3. PICK q, n, room, loop, flags :
          /\ q = Requeued(p.ack) \o Echo(p) /\ n \in 0..Len(q) /\ room \in 0..p.win
          /\ loop = Loop(q, n, room)
          /\ toSend' = loop.rest /\ sent' = StillSent(p.ack) \o loop.moved
          /\ \/ UNCHANGED toClient
             \/ /\ flags \in {{"ACK", "FIN"}, {"ACK"}}
                /\ Answer(flags, Payload(p, loop.moved).seq, seqRemote',
                          Payload(p, loop.moved).from, Payload(p, loop.moved).len)
    BY DEF EstTake
  <1>4. StillSent(p.ack) \in Seq(InOrder) /\ Requeued(p.ack) \in Seq(InOrder)
    BY QueuesType DEF StreamInv, Queues
  <1>5. Echo(p) \in Seq(InOrder)
    BY <1>1, <1>2, EchoType
  <1>6. q \in Seq(InOrder)
    BY <1>3, <1>4, <1>5, ConcatProperties
  <1>7. loop.rest \in Seq(InOrder) /\ loop.moved \in Seq(InOrder)
    <2>1. room \in Nat /\ n \in 0..Len(q) /\ loop = Loop(q, n, room)
      BY <1>1, <1>3
    <2> QED BY <1>6, <2>1, LoopType
  <1>8. StillSent(p.ack) \o loop.moved \in Seq(InOrder)
    BY <1>4, <1>7, ConcatProperties
  <1>9. PICK out : out = Payload(p, loop.moved)
    OBVIOUS
  <1>10. out \in InOrder
    <2>1. CASE loop.moved = <<>>
      <3>1. out = [seq |-> seqLocal, from |-> p.from, len |-> p.len]
        BY <1>1, <1>9, <2>1 DEF Payload, Segment
      <3> QED BY <1>1, <1>2, <3>1 DEF InOrder, Segments
    <2>2. CASE loop.moved # <<>>
      <3>1. PICK m : m = loop.moved
        OBVIOUS
      <3>2. Len(m) \in 1..Len(m) /\ m \in Seq(InOrder)
        BY <1>7, <2>2, <3>1, EmptySeq
      <3>3. out = m[Len(m)]
        BY <1>9, <2>2, <3>1 DEF Payload
      <3> QED BY <3>2, <3>3, ElementOfSeq
    <2> QED BY <2>1, <2>2
  <1>11. toClient' \in Seq(Answers)
    <2>1. CASE UNCHANGED toClient
      BY <2>1 DEF StreamInv, Queues
    <2>2. CASE /\ flags \in {{"ACK", "FIN"}, {"ACK"}}
               /\ Answer(flags, out.seq, seqRemote', out.from, out.len)
      <3>1. flags \in Flags /\ "SYN" \notin flags
        BY <2>2 DEF Flags
      <3>2. /\ out.seq \in Nat /\ out.from \in Int /\ out.len \in Nat
            /\ out.len > 0 => out.from = out.seq
        BY <1>10 DEF InOrder, Segments
      <3> QED BY <1>2, <2>2, <3>1, <3>2, AnswerType DEF StreamInv, Queues
    <2> QED BY <1>3, <1>9, <2>1, <2>2
  <1> QED BY <1>3, <1>7, <1>8, <1>11

LEMMA EstUnexpectedStream ==
  ASSUME StreamInv, NEW p \in Requests, EstUnexpected(p)
  PROVE  toSend' \in Seq(InOrder) /\ sent' \in Seq(InOrder) /\ toClient' \in Seq(Answers)
  <1>1. toSend' = Requeued(p.ack) /\ sent' = StillSent(p.ack)
    BY DEF EstUnexpected
  <1>2. toSend' \in Seq(InOrder) /\ sent' \in Seq(InOrder)
    BY <1>1, QueuesType DEF StreamInv, Queues
  <1>3. PICK seq : /\ seq = IF toSend' = <<>> THEN seqLocal ELSE Head(toSend').seq
                   /\ Answer({"ACK"}, seq, seqRemote, p.from, 0)
    BY DEF EstUnexpected
  <1>4. seq \in Nat
    <2>1. CASE toSend' = <<>>
      BY <1>3, <2>1 DEF StreamInv, IInv, Numbers
    <2>2. CASE toSend' # <<>>
      <3>1. Head(toSend') \in InOrder
        BY <1>2, <2>2, HeadTailProperties
      <3> QED BY <1>3, <2>2, <3>1 DEF InOrder, Segments
    <2> QED BY <2>1, <2>2
  <1>5. {"ACK"} \in Flags /\ p.from \in Int /\ seqRemote \in Nat
    BY DEF Flags, Requests, Packets, StreamInv, IInv, Numbers
  <1> QED BY <1>2, <1>3, <1>4, <1>5, AnswerType DEF StreamInv, Queues

\* The other handlers leave the segments alone or begin anew.
LEMMA AnswersStream ==
  ASSUME StreamInv, NEW p \in Requests,
         \/ SynAck(p) \/ SynAckRefuse(p) \/ EstRefuse(p)
         \/ AckFinRefuse(p) \/ AckFinLast(p) \/ AckFinWait(p)
  PROVE  toSend' \in Seq(InOrder) /\ sent' \in Seq(InOrder) /\ toClient' \in Seq(Answers)
  <1>1. /\ p.seq \in Nat /\ p.ack \in Nat /\ p.from \in Nat /\ p.len \in Nat /\ p.seq + 1 \in Nat
        /\ seqLocal \in Nat /\ seqLocal + 1 \in Nat
        /\ p.from = p.seq /\ ("FIN" \in p.flags => p.len = 0)
        /\ p.opt = 0 /\ DataLen(p) = p.len /\ Start(p) = p.from
    BY NoOptionBytes DEF Requests, Packets, StreamInv, IInv, Numbers
  <1>2. /\ toSend \in Seq(InOrder) /\ sent \in Seq(InOrder) /\ toClient \in Seq(Answers)
    BY DEF StreamInv, Queues
  <1>3. {"SYN", "ACK"} \in Flags /\ {"RST"} \in Flags /\ {"ACK"} \in Flags
    BY DEF Flags
  <1>4. CASE SynAck(p)
    <2>1. /\ toSend' = <<>> /\ sent' = <<Segment(0, 0, SynLen)>>
          /\ Answer({"SYN", "ACK"}, 0, p.seq + 1, 0, 0)
      BY <1>4 DEF SynAck
    <2>2. Segment(0, 0, SynLen) \in InOrder
      BY DEF Segment, InOrder, Segments
    <2>3. toSend' \in Seq(InOrder) /\ sent' \in Seq(InOrder)
      BY <2>1, <2>2
    <2> QED BY <1>1, <1>2, <1>3, <2>1, <2>3, AnswerType
  <1>5. CASE SynAckRefuse(p)
    BY <1>1, <1>2, <1>3, <1>5, AnswerType DEF SynAckRefuse, Refusal, End
  <1>6. CASE EstRefuse(p)
    BY <1>1, <1>2, <1>3, <1>6, AnswerType DEF EstRefuse, Refusal, End
  <1>7. CASE AckFinRefuse(p)
    BY <1>1, <1>2, <1>3, <1>7, AnswerType DEF AckFinRefuse, End
  <1>8. CASE AckFinLast(p)
    BY <1>1, <1>2, <1>3, <1>8, AnswerType DEF AckFinLast, End
  <1>9. CASE AckFinWait(p)
    BY <1>2, <1>9 DEF AckFinWait, server
  <1> QED BY <1>4, <1>5, <1>6, <1>7, <1>8, <1>9

LEMMA ServerStream == ASSUME StreamInv, ServerPkt PROVE StreamInv'
  <1>1. IInv'
    BY ServerStep DEF StreamInv
  <1>2. PICK p : /\ toServer # <<>> /\ toServer' = Tail(toServer) /\ p = Head(toServer)
                 /\ UNCHANGED <<client, faults>>
                 /\ \/ SynAck(p) \/ SynAckRefuse(p) \/ EstRefuse(p) \/ EstUnexpected(p)
                    \/ EstTake(p) \/ AckFinRefuse(p) \/ AckFinLast(p) \/ AckFinWait(p)
    BY DEF ServerPkt
  <1>3. toServer' \in Seq(Requests) /\ p \in Requests
    BY <1>2, HeadTailProperties DEF StreamInv, Queues
  <1>4. Sound(p)
    <2>1. Grows
      BY <1>2 DEF Grows, StreamInv, IInv, Numbers, client
    <2> QED BY <1>2, <2>1, QueuedTail DEF StreamInv, IInv
  <1>5. toSend' \in Seq(InOrder) /\ sent' \in Seq(InOrder) /\ toClient' \in Seq(Answers)
    BY <1>2, <1>3, <1>4, EstTakeStream, EstUnexpectedStream, AnswersStream
  <1>6. lastAck' \in Nat /\ alreadySeen' \in 0..ResetAfter /\ resent' \in BOOLEAN
    <2>1. p.ack \in Nat /\ Repeats(p.ack) \in 0..ResetAfter
      BY <1>3, RepeatsType DEF Requests, Packets, StreamInv
    <2>2. CASE EstUnexpected(p) \/ EstTake(p)
      <3>1. CountAck(p.ack)
        BY <2>2 DEF EstUnexpected, EstTake
      <3>2. resent' \in BOOLEAN
        BY <3>1, Zenon DEF CountAck
      <3>3. lastAck' \in Nat /\ alreadySeen' \in 0..ResetAfter
        BY <2>1, <3>1 DEF CountAck
      <3> QED BY <3>2, <3>3
    <2>3. CASE SynAck(p)
      BY <2>3 DEF SynAck, ResetAfter, StreamInv, Counters
    <2>4. CASE \/ SynAckRefuse(p) \/ EstRefuse(p)
               \/ AckFinRefuse(p) \/ AckFinLast(p) \/ AckFinWait(p)
      BY <2>4 DEF SynAckRefuse, EstRefuse, AckFinRefuse, AckFinLast, AckFinWait, End, server,
                  control, StreamInv, Counters
    <2> QED BY <1>2, <2>2, <2>3, <2>4
  <1>7. Accepted'
    BY <1>2 DEF StreamInv, Accepted, EchoIsPrefix, client
  <1> QED BY <1>1, <1>2, <1>3, <1>5, <1>6, <1>7 DEF StreamInv, Queues, Counters

-----------------------------------------------------------------------------
(* The steps of the client and the network                                  *)

LEMMA RequestType ==
  ASSUME NoOptions, toServer \in Seq(Requests), rcv' \in Nat, NEW flags \in Flags, NEW seq \in Nat,
         NEW len \in Nat, NEW win \in Windows, "FIN" \in flags => len = 0,
         Send(flags, seq, seq, len, win)
  PROVE  toServer' \in Seq(Requests)
  <1>1. PICK e : /\ e = Packet(flags, seq, rcv', seq, len, win, 0)
                 /\ toServer' = Append(toServer, e)
    BY DEF Send, NoOptions
  <1>2. win \in Nat
    OBVIOUS
  <1>3. e \in Packets /\ e.flags = flags /\ e.seq = seq /\ e.from = seq /\ e.len = len
        /\ e.opt = 0
    BY <1>1, <1>2 DEF Packet, Packets
  <1>4. e \in Requests
    BY <1>3 DEF Requests
  <1> QED BY <1>1, <1>4, AppendProperties

LEMMA FaultsType ==
  ASSUME faults \in 0..MaxFaults, NEW b, Irregular(b)
  PROVE  faults' \in 0..MaxFaults
  BY DEF Irregular

LEMMA ClientFlags ==
  {"SYN"} \in Flags /\ {"ACK"} \in Flags /\ {"ACK", "FIN"} \in Flags
  BY DEF Flags

LEMMA SendStream == ASSUME StreamInv, Connect \/ SendData \/ Close PROVE StreamInv'
  <1>1. IInv'
    BY SendStep DEF StreamInv
  <1>2. /\ nxt \in Nat /\ rcv \in Nat /\ toServer \in Seq(Requests) /\ faults \in 0..MaxFaults
        /\ NoOptions
    BY DEF StreamInv, IInv, Numbers, Queues, Accepted, Counters
  <1>3. rcv' \in Nat /\ toServer' \in Seq(Requests) /\ faults' \in 0..MaxFaults
    <2>1. CASE Connect
      <3>1. PICK win \in Windows : Announce(win) /\ Send({"SYN"}, 0, 0, 0, win) /\ rcv' = 0
        BY <2>1 DEF Connect
      <3>2. "FIN" \notin {"SYN"}
        OBVIOUS
      <3> QED BY <1>2, <3>1, <3>2, ClientFlags, RequestType, FaultsType DEF Announce
    <2>2. CASE SendData
      <3>1. PICK len \in Sizes, win \in Windows :
              Announce(win) /\ Send({"ACK"}, nxt, nxt, len, win) /\ rcv' = rcv
        BY <2>2 DEF SendData
      <3>2. "FIN" \notin {"ACK"} /\ len \in Nat
        OBVIOUS
      <3> QED BY <1>2, <3>1, <3>2, ClientFlags, RequestType, FaultsType DEF Announce
    <2>3. CASE Close
      <3>1. PICK win \in Windows :
              /\ Irregular(win < MSS \/ rcv # nxt) /\ Send({"ACK", "FIN"}, nxt, nxt, 0, win)
              /\ rcv' = rcv
        BY <2>3 DEF Close
      <3> QED BY <1>2, <3>1, ClientFlags, RequestType, FaultsType
    <2> QED BY <2>1, <2>2, <2>3
  <1>4. UNCHANGED <<toSend, sent, toClient, lastAck, alreadySeen, resent, got>>
    BY DEF Connect, SendData, Close, server, control
  <1>5. Accepted'
    BY <1>3, <1>4 DEF StreamInv, Accepted, EchoIsPrefix, Connect, SendData, Close
  <1> QED BY <1>1, <1>3, <1>4, <1>5 DEF StreamInv, Queues, Counters

\* What the client adds to its bytes are the next ones of its own stream.
LEMMA ReceiveBytes ==
  ASSUME StreamInv, NEW p \in Answers, Receive(p)
  PROVE  Accepted'
  <1> DEFINE fresh == IF ~Over /\ p.seq <= rcv /\ rcv < p.seq + p.len
                      THEN p.seq + p.len - rcv ELSE 0
             last == ~Over /\ "FIN" \in p.flags /\ p.seq + p.len = rcv + fresh
             E(i) == p.from + (rcv - p.seq) + i - 1
  <1>1. PICK n, f : n = fresh /\ f = [i \in 1..n |-> E(i)]
    OBVIOUS
  <1>2. /\ cstate \in {"est", "fin"} /\ cstate' = cstate
        /\ got' = got \o f /\ rcv' = rcv + n + (IF last THEN 1 ELSE 0)
    BY <1>1 DEF Receive
  <1>3. /\ p.seq \in Nat /\ p.len \in Nat /\ p.from \in Int /\ (p.len > 0 => p.from = p.seq)
    BY DEF Answers, Packets
  <1>4. /\ got \in Seq(Nat) /\ Len(got) \in Nat /\ rcv \in Nat /\ rcv > Len(got)
        /\ \A i \in 1..Len(got) : got[i] = i
    BY <1>2, LenProperties DEF StreamInv, Accepted, EchoIsPrefix
  <1>5. /\ n \in Nat
        /\ n > 0 => rcv = Len(got) + 1 /\ p.from = p.seq /\ p.seq <= rcv
    <2>1. PICK seq \in Nat, len \in Nat : seq = p.seq /\ len = p.len
      BY <1>3
    <2>2. n = IF ~Over /\ seq <= rcv /\ rcv < seq + len THEN seq + len - rcv ELSE 0
      BY <1>1, <2>1
    <2>3. n \in Nat /\ (n > 0 => ~Over /\ seq <= rcv /\ len > 0)
      BY <1>4, <2>1, <2>2
    <2>4. ~Over => rcv = Len(got) + 1
      BY <1>4 DEF Over
    <2> QED BY <1>3, <2>1, <2>3, <2>4
  <1>6. ASSUME NEW i \in 1..n PROVE E(i) \in Nat /\ E(i) = Len(got) + i
    <2>1. n > 0 /\ i \in Nat
      BY <1>5
    <2>2. PICK seq \in Nat, k \in Nat : seq = p.seq /\ p.from = seq /\ k = Len(got) /\ rcv = k + 1
      BY <1>3, <1>4, <1>5, <2>1
    <2>3. E(i) = p.from + (rcv - p.seq) + i - 1
      OBVIOUS
    <2>4. p.from + (rcv - p.seq) + i - 1 = seq + ((k + 1) - seq) + i - 1
      BY <2>2, Zenon
    <2>5. seq + ((k + 1) - seq) + i - 1 = k + i /\ k + i \in Nat
      BY <2>1
    <2> QED BY <2>2, <2>3, <2>4, <2>5
  <1>7. rcv' \in Nat /\ rcv' > Len(got) + n
    BY <1>2, <1>4, <1>5
  <1> HIDE DEF E, fresh, last
  <1>8. /\ f \in Seq(Nat) /\ Len(f) = n
        /\ \A i \in 1..n : f[i] = Len(got) + i
    <2>1. f \in Seq(Nat)
      BY <1>1, <1>5, <1>6
    <2> QED BY <1>1, <1>5, <1>6, <2>1
  <1>9. /\ got' \in Seq(Nat) /\ Len(got') = Len(got) + n
        /\ \A i \in 1..(Len(got) + n) : got'[i] = IF i <= Len(got) THEN got[i] ELSE f[i - Len(got)]
    <2>1. /\ got \o f \in Seq(Nat) /\ Len(got \o f) = Len(got) + Len(f)
          /\ \A i \in 1..(Len(got) + Len(f)) :
              (got \o f)[i] = IF i <= Len(got) THEN got[i] ELSE f[i - Len(got)]
      BY <1>4, <1>8, ConcatProperties
    <2> QED BY <1>2, <1>8, <2>1
  <1>10. ASSUME NEW i \in 1..Len(got') PROVE got'[i] = i
    <2>1. CASE i <= Len(got)
      <3>1. i \in 1..Len(got) /\ i \in 1..(Len(got) + n)
        BY <1>4, <1>5, <1>9, <2>1
      <3> QED BY <1>4, <1>9, <2>1, <3>1
    <2>2. CASE ~(i <= Len(got))
      <3>1. i - Len(got) \in 1..n /\ i \in 1..(Len(got) + n)
        BY <1>4, <1>5, <1>9, <2>2
      <3>2. got'[i] = f[i - Len(got)]
        BY <1>9, <2>2, <3>1
      <3> QED BY <1>4, <1>8, <3>1, <3>2
    <2> QED BY <2>1, <2>2
  <1> QED BY <1>2, <1>7, <1>9, <1>10 DEF Accepted, EchoIsPrefix

LEMMA ReceiveStream == ASSUME StreamInv, ClientPkt PROVE StreamInv'
  <1>1. IInv'
    BY ReceiveStep DEF StreamInv
  <1>2. PICK p : /\ toClient # <<>> /\ toClient' = Tail(toClient) /\ p = Head(toClient)
                 /\ UNCHANGED <<server, nxt>>
                 /\ ReceiveSynAck(p) \/ Receive(p) \/ ReceiveRst(p) \/ Ignore(p)
    BY DEF ClientPkt
  <1>3. toClient' \in Seq(Answers) /\ p \in Answers
    BY <1>2, HeadTailProperties DEF StreamInv, Queues
  <1>4. Accepted'
    <2>1. CASE ReceiveSynAck(p)
      <3>1. /\ cstate = "syn" /\ cstate' = "est" /\ UNCHANGED got
            /\ rcv' = p.seq + 1 /\ "SYN" \in p.flags
        BY <2>1 DEF ReceiveSynAck
      <3>2. p.seq = 0 /\ rcv' = 1
        BY <1>3, <3>1 DEF Answers
      <3>3. got = <<>> /\ Len(got) = 0 /\ got \in Seq(Nat)
        BY <3>1 DEF StreamInv, Accepted
      <3> QED BY <3>1, <3>2, <3>3 DEF Accepted, EchoIsPrefix
    <2>2. CASE Receive(p)
      BY <1>3, <2>2, ReceiveBytes
    <2>3. CASE ReceiveRst(p) \/ Ignore(p)
      BY <2>3 DEF ReceiveRst, Ignore, StreamInv, Accepted, EchoIsPrefix
    <2> QED BY <1>2, <2>1, <2>2, <2>3
  <1>5. \/ UNCHANGED <<toServer, faults>>
        \/ \E win \in Windows : Announce(win) /\ Send({"ACK"}, nxt, nxt, 0, win)
    BY <1>2 DEF ReceiveSynAck, Receive, ReceiveRst, Ignore
  <1>6. toServer' \in Seq(Requests) /\ faults' \in 0..MaxFaults
    <2>1. CASE UNCHANGED <<toServer, faults>>
      BY <2>1 DEF StreamInv, Queues, Counters
    <2>2. ASSUME NEW win \in Windows, Announce(win), Send({"ACK"}, nxt, nxt, 0, win)
          PROVE  toServer' \in Seq(Requests) /\ faults' \in 0..MaxFaults
      <3>1. /\ nxt \in Nat /\ rcv' \in Nat /\ toServer \in Seq(Requests)
            /\ faults \in 0..MaxFaults /\ NoOptions
        BY <1>4 DEF StreamInv, IInv, Numbers, Queues, Accepted, Counters
      <3> QED BY <2>2, <3>1, ClientFlags, RequestType, FaultsType DEF Announce
    <2> QED BY <1>5, <2>1, <2>2
  <1>7. UNCHANGED <<toSend, sent, lastAck, alreadySeen, resent>>
    BY <1>2 DEF server, control
  <1> QED BY <1>1, <1>3, <1>4, <1>6, <1>7 DEF StreamInv, Queues, Counters

LEMMA NetworkStream == ASSUME StreamInv, Fault PROVE StreamInv'
  <1>1. IInv'
    BY NetworkStep DEF StreamInv
  <1>2. faults' \in 0..MaxFaults
    BY FaultsType DEF Fault, StreamInv, Counters
  <1>3. UNCHANGED <<toSend, sent, lastAck, alreadySeen, resent, got, rcv, cstate>>
    BY DEF Fault, Resend, server, client, control
  <1>4. Accepted'
    BY <1>3 DEF StreamInv, Accepted, EchoIsPrefix
  <1>5. toServer \in Seq(Requests) /\ toClient \in Seq(Answers)
    BY DEF StreamInv, Queues
  <1>6. CASE Resend
    <2>1. una \in Nat /\ rcv' \in Nat /\ NoOptions
      BY <1>4 DEF StreamInv, IInv, Numbers, Accepted
    <2>2. PICK flags \in Flags, len \in Nat, win \in Windows :
            Send(flags, una, una, len, win) /\ ("FIN" \in flags => len = 0)
      <3>1. \/ \E win \in Windows : Send({"ACK", "FIN"}, una, una, 0, win)
            \/ \E len \in Sizes, win \in Windows : Send({"ACK"}, una, una, len, win)
        BY <1>6 DEF Resend
      <3>2. "FIN" \notin {"ACK"} /\ \A len \in Sizes : len \in Nat
        OBVIOUS
      <3> QED BY <3>1, <3>2, ClientFlags
    <2>3. toServer' \in Seq(Requests)
      BY <1>5, <2>1, <2>2, RequestType
    <2>4. toClient' = toClient
      BY <1>6 DEF Resend
    <2> QED BY <1>1, <1>2, <1>3, <1>4, <1>5, <2>3, <2>4 DEF StreamInv, Queues, Counters
  <1>7. CASE Lose
    <2>1. toServer' \in Seq(Requests) /\ toClient' \in Seq(Answers)
      <3>1. CASE toServer # <<>> /\ toServer' = Tail(toServer) /\ UNCHANGED toClient
        <4>1. Tail(toServer) \in Seq(Requests)
          BY <1>5, <3>1, HeadTailProperties
        <4> QED BY <1>5, <3>1, <4>1
      <3>2. CASE toClient # <<>> /\ toClient' = Tail(toClient) /\ UNCHANGED toServer
        <4>1. Tail(toClient) \in Seq(Answers)
          BY <1>5, <3>2, HeadTailProperties
        <4> QED BY <1>5, <3>2, <4>1
      <3> QED BY <1>7, <3>1, <3>2 DEF Lose
    <2> QED BY <1>1, <1>2, <1>3, <1>4, <2>1 DEF StreamInv, Queues, Counters
  <1>8. CASE Copy
    <2>1. toServer' \in Seq(Requests) /\ toClient' \in Seq(Answers)
      <3>1. CASE /\ toServer # <<>> /\ UNCHANGED toClient
                 /\ toServer' = Append(toServer, Head(toServer))
        <4>1. Head(toServer) \in Requests
          BY <1>5, <3>1, HeadTailProperties
        <4>2. Append(toServer, Head(toServer)) \in Seq(Requests)
          BY <1>5, <4>1, AppendProperties
        <4> QED BY <1>5, <3>1, <4>2
      <3>2. CASE /\ toClient # <<>> /\ UNCHANGED toServer
                 /\ toClient' = Append(toClient, Head(toClient))
        <4>1. Head(toClient) \in Answers
          BY <1>5, <3>2, HeadTailProperties
        <4>2. Append(toClient, Head(toClient)) \in Seq(Answers)
          BY <1>5, <4>1, AppendProperties
        <4> QED BY <1>5, <3>2, <4>2
      <3> QED BY <1>8, <3>1, <3>2 DEF Copy
    <2> QED BY <1>1, <1>2, <1>3, <1>4, <2>1 DEF StreamInv, Queues, Counters
  <1> QED BY <1>6, <1>7, <1>8 DEF Fault

LEMMA StreamInvariant == ASSUME NoOptions PROVE Spec => []StreamInv
  <1>1. Init => StreamInv
    <2> SUFFICES ASSUME Init PROVE StreamInv
      OBVIOUS
    <2>1. Queues
      BY DEF Init, Queues
    <2>2. Accepted
      BY DEF Init, Accepted, EchoIsPrefix
    <2>3. Counters
      <3>1. resent \in BOOLEAN
        BY Zenon DEF Init
      <3> QED BY <3>1 DEF Init, Counters, ResetAfter
    <2> QED BY <2>1, <2>2, <2>3, InitSound DEF StreamInv
  <1>2. StreamInv /\ [Next]_vars => StreamInv'
    <2> SUFFICES ASSUME StreamInv, [Next]_vars PROVE StreamInv'
      OBVIOUS
    <2>1. CASE UNCHANGED vars
      <3>1. IInv'
        BY <2>1, InvKept DEF StreamInv
      <3> QED BY <2>1, <3>1 DEF vars, server, client, control, StreamInv, Queues, Accepted,
                              EchoIsPrefix, Counters
    <2> QED BY <2>1, ServerStream, SendStream, ReceiveStream, NetworkStream DEF Next
  <1> QED BY <1>1, <1>2, PTL DEF Spec

-----------------------------------------------------------------------------
(* A connection without a fault.  Its packets are taken in the order they   *)
(* were sent, and nothing reaches the client a second time: when it has     *)
(* everything and closes, nothing is left under way to it or waiting, so    *)
(* that what meets ack_fin is the acknowledgement of the server's FIN.      *)

\* Parts of the stream, in its order, that lie between two numbers.
Rising(q, lo, hi) ==
    /\ \A i \in 1..Len(q) : lo <= q[i].seq /\ q[i].seq < hi /\ q[i].seq + q[i].len <= hi
    /\ \A i, j \in 1..Len(q) : i < j => q[i].seq + q[i].len <= q[j].seq

\* Packets without a gap between two numbers.
Chain(q, lo, hi) ==
    /\ \A i \in 1..Len(q) :
        lo <= q[i].seq /\ q[i].seq = (IF i = 1 THEN lo ELSE q[i - 1].seq + q[i - 1].len)
    /\ \A i, j \in 1..Len(q) : i < j => q[i].seq + q[i].len <= q[j].seq
    /\ hi = IF q = <<>> THEN lo ELSE q[Len(q)].seq + q[Len(q)].len

Regular(p) == p.flags = {"ACK"} /\ p.win >= MSS

Opening ==
    /\ got = <<>> /\ nxt = 1
    /\ \/ state = "none" /\ toClient = <<>>
          /\ Len(toServer) = 1 /\ toServer[1].flags = {"SYN"} /\ toServer[1].seq = 0
       \/ state = "est" /\ ~closing /\ seqLocal = 1 /\ toSend = <<>> /\ toServer = <<>>
          /\ Len(toClient) = 1 /\ toClient[1].flags = {"SYN", "ACK"}
          /\ toClient[1].seq = 0 /\ toClient[1].ack = 1

Exchange ==
    /\ state = "est" /\ ~closing
    /\ rcv = Len(got) + 1 /\ rcv <= seqLocal
    /\ \A i \in 1..Len(toServer) : Regular(toServer[i])
    /\ Chain(toServer, seqRemote, nxt)
    /\ \A i \in 1..Len(toClient) : toClient[i].flags = {"ACK"}
    /\ Rising(toClient, rcv, seqLocal) /\ Rising(toSend, rcv, seqLocal)
    /\ \A i \in 1..Len(toClient), j \in 1..Len(toSend) :
        toClient[i].seq + toClient[i].len <= toSend[j].seq

\* The client's FIN is the last packet under way.
Closing ==
    /\ state = "est" /\ ~closing
    /\ rcv = Len(got) + 1 /\ rcv = seqLocal /\ nxt = seqLocal + 1
    /\ toClient = <<>> /\ toSend = <<>> /\ toServer # <<>>
    /\ \A i \in 1..Len(toServer) :
        /\ toServer[i].flags = IF i = Len(toServer) THEN {"ACK", "FIN"} ELSE {"ACK"}
        /\ toServer[i].seq = seqRemote /\ toServer[i].len = 0 /\ toServer[i].win >= MSS

\* The server's FIN, or the acknowledgement of it, is the only packet under way.
Closed ==
    /\ state = "ack_fin" /\ nxt = seqLocal
    /\ \/ /\ rcv = Len(got) + 1 /\ rcv + 1 = seqLocal /\ toServer = <<>>
          /\ Len(toClient) = 1 /\ toClient[1].flags = {"ACK", "FIN"}
          /\ toClient[1].seq = rcv /\ toClient[1].len = 0
       \/ /\ rcv = seqLocal /\ toClient = <<>>
          /\ \/ toServer = <<>>
             \/ /\ Len(toServer) = 1 /\ toServer[1].flags = {"ACK"}
                /\ toServer[1].seq = seqRemote /\ toServer[1].ack = seqLocal
                /\ toServer[1].len = 0

Phase ==
    \/ cstate = "closed" /\ state = "none" /\ toServer = <<>> /\ toClient = <<>> /\ got = <<>>
    \/ cstate = "syn" /\ Opening
    \/ cstate = "est" /\ Exchange
    \/ cstate = "fin" /\ (Closing \/ Closed)

CalmInv == calm => Phase

Numbered(q) == IsSeq(q) /\ \A i \in 1..Len(q) : q[i].seq \in Nat /\ q[i].len \in Nat

-----------------------------------------------------------------------------
(* Parts of the stream in order                                             *)

LEMMA RisingTail ==
  ASSUME NEW q, Numbered(q), q # <<>>, NEW lo \in Nat, NEW hi \in Nat, Rising(q, lo, hi),
         NEW low \in Nat, low <= q[1].seq + q[1].len
  PROVE  Rising(Tail(q), low, hi)
  <1>1. /\ Len(Tail(q)) = Len(q) - 1 /\ Len(q) \in Nat /\ Len(q) > 0
        /\ \A i \in 1..Len(Tail(q)) : Tail(q)[i] = q[i + 1]
    BY TailIsSeq DEF Numbered, IsSeq
  <1>2. ASSUME NEW i \in 1..Len(Tail(q))
        PROVE  /\ i + 1 \in 1..Len(q) /\ Tail(q)[i] = q[i + 1]
               /\ low <= q[i + 1].seq /\ q[i + 1].seq < hi /\ q[i + 1].seq + q[i + 1].len <= hi
    <2>1. i + 1 \in 1..Len(q) /\ 1 \in 1..Len(q) /\ 1 < i + 1
      BY <1>1
    <2>2. q[1].seq + q[1].len <= q[i + 1].seq
      BY <2>1 DEF Rising
    <2> QED BY <1>1, <2>1, <2>2 DEF Rising, Numbered
  <1>3. ASSUME NEW i \in 1..Len(Tail(q)), NEW j \in 1..Len(Tail(q)), i < j
        PROVE  Tail(q)[i].seq + Tail(q)[i].len <= Tail(q)[j].seq
    <2>1. i + 1 < j + 1
      BY <1>1, <1>3
    <2> QED BY <1>2, <2>1 DEF Rising
  <1> QED BY <1>2, <1>3 DEF Rising

LEMMA RisingAppend ==
  ASSUME NEW q, Numbered(q), NEW lo \in Nat, NEW mid \in Nat, NEW hi \in Nat, mid <= hi,
         Rising(q, lo, mid), NEW e, e.seq \in Nat, e.len \in Nat,
         \A i \in 1..Len(q) : q[i].seq + q[i].len <= e.seq,
         lo <= e.seq, e.seq < hi, e.seq + e.len <= hi
  PROVE  Rising(Append(q, e), lo, hi)
  <1> DEFINE a == Append(q, e)
  <1>1. /\ Len(a) = Len(q) + 1 /\ Len(q) \in Nat
        /\ \A i \in 1..Len(q) : a[i] = q[i]
        /\ a[Len(q) + 1] = e
    BY AppendIsSeq DEF Numbered, IsSeq
  <1> HIDE DEF a
  <1>2. ASSUME NEW i \in 1..Len(a)
        PROVE  lo <= a[i].seq /\ a[i].seq < hi /\ a[i].seq + a[i].len <= hi
    <2>1. CASE i = Len(q) + 1
      BY <1>1, <2>1
    <2>2. CASE i \in 1..Len(q)
      <3>1. PICK x \in Nat, y \in Nat : x = q[i].seq /\ y = q[i].len /\ a[i] = q[i]
        BY <1>1, <2>2 DEF Numbered
      <3>2. lo <= x /\ x < mid /\ x + y <= mid
        BY <2>2, <3>1 DEF Rising
      <3>3. lo <= x /\ x < hi /\ x + y <= hi
        BY <3>2
      <3> QED BY <3>1, <3>3
    <2> QED BY <1>1, <2>1, <2>2
  <1>3. ASSUME NEW i \in 1..Len(a), NEW j \in 1..Len(a), i < j
        PROVE  a[i].seq + a[i].len <= a[j].seq
    <2>1. i \in 1..Len(q)
      BY <1>1, <1>3
    <2>2. CASE j = Len(q) + 1
      BY <1>1, <2>1, <2>2
    <2>3. CASE j \in 1..Len(q)
      BY <1>1, <1>3, <2>1, <2>3 DEF Rising
    <2> QED BY <1>1, <2>2, <2>3
  <1> QED BY <1>2, <1>3 DEF Rising, a

LEMMA RisingConcat ==
  ASSUME NEW S, NEW q \in Seq(S), NEW r \in Seq(S), Numbered(q), Numbered(r),
         NEW lo \in Nat, NEW mid \in Nat, NEW hi \in Nat, lo <= mid, mid <= hi,
         Rising(q, lo, mid), Rising(r, mid, hi)
  PROVE  Rising(q \o r, lo, hi)
  <1> DEFINE a == q \o r
  <1>1. /\ Len(a) = Len(q) + Len(r) /\ Len(q) \in Nat /\ Len(r) \in Nat
        /\ \A i \in 1..Len(a) : a[i] = IF i <= Len(q) THEN q[i] ELSE r[i - Len(q)]
    BY ConcatProperties, LenProperties
  <1> HIDE DEF a
  <1>2. \A i \in 1..Len(a) : /\ i <= Len(q) => i \in 1..Len(q) /\ a[i] = q[i]
                             /\ i > Len(q) => /\ i - Len(q) \in 1..Len(r)
                                              /\ a[i] = r[i - Len(q)]
    BY <1>1
  <1>3. ASSUME NEW i \in 1..Len(a)
        PROVE  lo <= a[i].seq /\ a[i].seq < hi /\ a[i].seq + a[i].len <= hi
    <2>1. CASE i <= Len(q)
      BY <1>2, <2>1 DEF Rising, Numbered
    <2>2. CASE i > Len(q)
      <3>1. PICK k \in 1..Len(r) : a[i] = r[k]
        BY <1>2, <2>2
      <3> QED BY <3>1 DEF Rising, Numbered
    <2> QED BY <1>1, <2>1, <2>2
  <1>4. ASSUME NEW i \in 1..Len(a), NEW j \in 1..Len(a), i < j
        PROVE  a[i].seq + a[i].len <= a[j].seq
    <2>1. CASE j <= Len(q)
      BY <1>1, <1>2, <1>4, <2>1 DEF Rising
    <2>2. CASE i <= Len(q) /\ j > Len(q)
      <3>1. PICK k \in 1..Len(r) : a[j] = r[k]
        BY <1>2, <2>2
      <3>2. i \in 1..Len(q) /\ a[i] = q[i]
        BY <1>2, <2>2
      <3>3. q[i].seq \in Nat /\ q[i].len \in Nat /\ r[k].seq \in Nat
        BY <3>2 DEF Numbered
      <3>4. PICK u \in Nat, v \in Nat, y \in Nat : u = q[i].seq /\ v = q[i].len /\ y = r[k].seq
        BY <3>3
      <3>5. u + v <= mid /\ mid <= y
        BY <3>2, <3>4 DEF Rising
      <3>6. u + v <= y
        BY <3>5
      <3> QED BY <3>1, <3>2, <3>4, <3>6
    <2>3. CASE i > Len(q)
      <3>1. j > Len(q) /\ i - Len(q) < j - Len(q)
        BY <1>1, <1>4, <2>3
      <3> QED BY <1>2, <2>3, <3>1 DEF Rising
    <2> QED BY <1>1, <2>1, <2>2, <2>3
  <1> QED BY <1>3, <1>4 DEF Rising, a

\* The pieces of a payload lie behind each other, each with at least one byte.
LEMMA RisingEcho ==
  ASSUME NEW p, p.opt = 0, p.len \in Nat, seqLocal \in Nat
  PROVE  /\ Rising(Echo(p), seqLocal, seqLocal + p.len)
         /\ Echo(p) = <<>> => p.len = 0
  <1>1. PICK len, m, n : len = p.len /\ m = MSS /\ n = (len + m - 1) \div m
    OBVIOUS
  <1>2. /\ len \in Nat /\ m \in Nat /\ m > 0 /\ n \in Nat
        /\ n * m <= len + m - 1 /\ len + m - 1 < n * m + m
    <2>1. PICK a : a = len + m - 1
      OBVIOUS
    <2>2. len \in Nat /\ m \in Nat /\ m > 0 /\ a \in Nat /\ n = a \div m
      BY <1>1, <2>1
    <2>3. n \in Nat /\ n * m <= a /\ a < n * m + m
      BY <2>2
    <2> QED BY <2>1, <2>2, <2>3
  <1>3. PICK q : q = Echo(p)
    OBVIOUS
  <1>4. /\ Len(q) = n
        /\ \A i \in 1..n :
            q[i].seq = seqLocal + (i - 1) * m
            /\ q[i].len = IF len - (i - 1) * m < m THEN len - (i - 1) * m ELSE m
    BY <1>1, <1>2, <1>3 DEF Echo, Segment, DataLen
  <1>5. ASSUME NEW i \in 1..n, NEW d \in Nat, i + d \in 1..n
        PROVE  /\ (i - 1) * m \in Nat /\ (i + d - 1) * m = (i - 1) * m + d * m
               /\ d * m \in Nat /\ (d > 0 => d * m >= m) /\ (i + d - 1) * m < len
    <2>1. PICK e : e = n - (i + d)
      OBVIOUS
    <2>2. e \in Nat /\ i - 1 \in Nat /\ n = (i - 1) + d + e + 1
      BY <1>2, <1>5, <2>1
    <2>3. /\ n * m = (i - 1) * m + d * m + e * m + m
          /\ (i - 1) * m \in Nat /\ d * m \in Nat /\ e * m \in Nat
          /\ (i + d - 1) * m = (i - 1) * m + d * m
      BY <1>2, <2>2
    <2>4. d > 0 => d * m >= m
      BY <1>2
    <2> QED BY <1>2, <2>3, <2>4
  <1>6. ASSUME NEW i \in 1..n
        PROVE  /\ seqLocal <= q[i].seq /\ q[i].seq < seqLocal + len
               /\ q[i].seq + q[i].len <= seqLocal + len
    <2>1. PICK k : k = (i - 1) * m
      OBVIOUS
    <2>2. k \in Nat /\ k < len
      <3>1. i + 0 = i /\ i + 0 - 1 = i - 1
        BY <1>2
      <3> QED BY <1>5, <2>1, <3>1
    <2>3. q[i].seq = seqLocal + k /\ q[i].len = IF len - k < m THEN len - k ELSE m
      BY <1>4, <2>1
    <2> QED BY <1>2, <2>2, <2>3
  <1>7. ASSUME NEW i \in 1..n, NEW j \in 1..n, i < j
        PROVE  q[i].seq + q[i].len <= q[j].seq
    <2>1. PICK d : d = j - i
      OBVIOUS
    <2>2. d \in Nat /\ d > 0 /\ j = i + d
      BY <1>2, <1>7, <2>1
    <2>3. PICK k, l : k = (i - 1) * m /\ l = (j - 1) * m
      OBVIOUS
    <2>4. k \in Nat /\ l \in Nat /\ l >= k + m
      BY <1>2, <1>5, <2>2, <2>3
    <2>5. /\ q[i].seq = seqLocal + k /\ q[i].len = IF len - k < m THEN len - k ELSE m
          /\ q[j].seq = seqLocal + l
      BY <1>4, <2>3
    <2> QED BY <1>2, <2>4, <2>5
  <1>8. Echo(p) = <<>> => p.len = 0
    <2> SUFFICES ASSUME q = <<>> PROVE len = 0
      BY <1>1, <1>3
    <2>1. n = 0
      BY <1>4
    <2> QED BY <1>2, <2>1
  <1> QED BY <1>1, <1>3, <1>4, <1>6, <1>7, <1>8 DEF Rising

LEMMA Slice ==
  ASSUME NEW S, NEW q \in Seq(S), NEW a \in Nat, NEW b \in Nat, a <= b, b <= Len(q)
  PROVE  /\ SubSeq(q, a + 1, b) \in Seq(S) /\ Len(SubSeq(q, a + 1, b)) = b - a
         /\ \A j \in 1..(b - a) : SubSeq(q, a + 1, b)[j] = q[a + j] /\ a + j \in 1..Len(q)
  <1>1. PICK m \in Int : m = a + 1
    OBVIOUS
  <1>2. Len(q) \in Nat /\ \A i \in m..b : i \in 1..Len(q)
    BY <1>1, LenProperties
  <1>3. \A i \in m..b : q[i] \in S
    BY <1>2, ElementOfSeq
  <1>4. /\ SubSeq(q, m, b) \in Seq(S)
        /\ Len(SubSeq(q, m, b)) = IF m <= b THEN b - m + 1 ELSE 0
        /\ \A i \in 1..(b - m + 1) : SubSeq(q, m, b)[i] = q[m + i - 1]
    BY <1>3, SubSeqProperties
  <1>5. ASSUME NEW j \in 1..(b - a)
        PROVE  SubSeq(q, m, b)[j] = q[a + j] /\ a + j \in 1..Len(q)
    <2>1. m + j - 1 = a + j /\ j \in 1..(b - m + 1) /\ a + j \in m..b
      BY <1>1
    <2> QED BY <1>2, <1>4, <2>1
  <1>6. (IF m <= b THEN b - m + 1 ELSE 0) = b - a
    BY <1>1
  <1> QED BY <1>1, <1>4, <1>5, <1>6

LEMMA NumberedType ==
  ASSUME NEW S, NEW q \in Seq(S), \A s \in S : s.seq \in Nat /\ s.len \in Nat
  PROVE  Numbered(q)
  <1>1. \A i \in 1..Len(q) : q[i] \in S
    BY ElementOfSeq
  <1> QED BY <1>1, TypedIsSeq, Zenon DEF Numbered

\* A piece of the stream that comes before the waiting ones.
Between(out, rest, lo, hi) ==
    /\ lo <= out.seq /\ out.seq < hi /\ out.seq + out.len <= hi
    /\ \A j \in 1..Len(rest) : out.seq + out.len <= rest[j].seq

\* What the loop of runEst makes of the queue q, whose parts lie between two
\* numbers.
Placed(q, loop, lo, hi) ==
    /\ Rising(loop.rest, lo, hi)
    /\ q = <<>> => loop.moved = <<>> /\ loop.rest = <<>>
    /\ q # <<>> => loop.moved # <<>>
    /\ loop.moved # <<>> => Between(loop.moved[Len(loop.moved)], loop.rest, lo, hi)

LEMMA RisingLoop ==
  ASSUME NEW q \in Seq(InOrder), NEW lo \in Nat, NEW hi \in Nat, Rising(q, lo, hi),
         NEW n \in 0..Len(q), NEW room \in Nat, NEW win \in Nat, win > 0,
         Whole(q, n, room, win), NEW loop, loop = Loop(q, n, room)
  PROVE  Placed(q, loop, lo, hi)
  <1>1. /\ Len(q) \in Nat
        /\ \A i \in 1..Len(q) : q[i].seq \in Nat /\ q[i].len \in Nat
    BY LenProperties, ElementOfSeq DEF InOrder, Segments
  <1>2. /\ n = 0 => room = win
        /\ n < Len(q) => room = 0 \/ q[n + 1].len > room
    BY DEF Whole
  <1>3. Numbered(q) /\ \A s \in InOrder : s.seq \in Nat /\ s.len \in Nat
    BY NumberedType DEF InOrder, Segments
  <1>4. CASE n = Len(q) \/ room = 0
    <2>1. PICK rest, moved :
            /\ rest = SubSeq(q, n + 1, Len(q)) /\ moved = SubSeq(q, 0 + 1, n)
            /\ loop.rest = rest /\ loop.moved = moved
      <3>1. loop = [rest |-> SubSeq(q, n + 1, Len(q)), moved |-> SubSeq(q, 1, n)]
        BY <1>4, Zenon DEF Loop
      <3>2. loop.rest = SubSeq(q, n + 1, Len(q)) /\ loop.moved = SubSeq(q, 0 + 1, n)
        BY <3>1
      <3> QED BY <3>2, Zenon
    <2>2. /\ rest \in Seq(InOrder) /\ Len(rest) = Len(q) - n
          /\ \A j \in 1..Len(rest) : rest[j] = q[n + j] /\ n + j \in 1..Len(q)
      <3>1. n \in Nat /\ n <= Len(q)
        BY <1>1
      <3> QED BY <1>1, <2>1, <3>1, Slice
    <2>3. /\ moved \in Seq(InOrder) /\ Len(moved) = n
          /\ n # 0 => moved[n] = q[n] /\ n \in 1..Len(q)
      <3>1. n \in Nat /\ 0 <= n /\ n <= Len(q) /\ n - 0 = n
        BY <1>1
      <3>2. /\ moved \in Seq(InOrder) /\ Len(moved) = n
            /\ \A j \in 1..n : moved[j] = q[0 + j] /\ 0 + j \in 1..Len(q)
        BY <1>1, <2>1, <3>1, Slice
      <3>3. n # 0 => n \in 1..n /\ 0 + n = n
        BY <3>1
      <3> QED BY <3>2, <3>3
    <2>4. Rising(rest, lo, hi)
      <3>1. ASSUME NEW i \in 1..Len(rest)
            PROVE  lo <= rest[i].seq /\ rest[i].seq < hi /\ rest[i].seq + rest[i].len <= hi
        BY <2>2 DEF Rising
      <3>2. ASSUME NEW i \in 1..Len(rest), NEW j \in 1..Len(rest), i < j
            PROVE  rest[i].seq + rest[i].len <= rest[j].seq
        <4>1. n + i < n + j
          BY <1>1, <2>2, <3>2
        <4> QED BY <2>2, <4>1 DEF Rising
      <3> QED BY <3>1, <3>2 DEF Rising
    <2>5. n = 0 => moved = <<>> /\ q = <<>>
      BY <1>1, <1>2, <1>4, <2>3
    <2>6. n # 0 => moved # <<>> /\ q # <<>>
      BY <1>1, <2>3
    <2>7. q = <<>> => rest = <<>>
      BY <1>1, <2>2
    <2>8. ASSUME n # 0
          PROVE  /\ lo <= moved[n].seq /\ moved[n].seq < hi
                 /\ moved[n].seq + moved[n].len <= hi
                 /\ \A j \in 1..Len(rest) : moved[n].seq + moved[n].len <= rest[j].seq
      <3>1. n \in 1..Len(q) /\ moved[n] = q[n]
        BY <2>3, <2>8
      <3>2. \A j \in 1..Len(rest) : n < n + j
        BY <1>1, <2>2
      <3> QED BY <2>2, <3>1, <3>2 DEF Rising
    <2> QED BY <2>1, <2>3, <2>4, <2>5, <2>6, <2>7, <2>8 DEF Between, Placed
  <1>5. CASE ~(n = Len(q) \/ room = 0)
    <2>1. /\ n \in Nat /\ n + 1 \in Nat /\ n < Len(q) /\ n + 1 <= Len(q) /\ n + 1 \in 1..Len(q)
          /\ q[n + 1].len > room
      BY <1>1, <1>2, <1>5
    <2>2. PICK s, a, b, t, m :
            /\ s = q[n + 1] /\ a = Segment(s.seq + room, s.from, 0) /\ b = Segment(s.seq, s.from, 0)
            /\ t = SubSeq(q, n + 2, Len(q)) /\ m = SubSeq(q, 1, n)
            /\ loop.rest = <<a>> \o t /\ loop.moved = m \o <<b>>
      BY <1>5 DEF Loop
    <2>3. s \in InOrder /\ s.seq \in Nat /\ s.len \in Nat /\ s.from \in Int /\ s.len > room
      <3>1. s \in InOrder
        BY <2>1, <2>2, ElementOfSeq
      <3> QED BY <2>1, <2>2, <3>1 DEF InOrder, Segments
    <2>4. /\ room > 0 /\ lo <= s.seq /\ s.seq < hi /\ s.seq + s.len <= hi
          /\ a.seq = s.seq + room /\ a.len = 0 /\ b.seq = s.seq /\ b.len = 0
      BY <1>5, <2>1, <2>2 DEF Segment, Rising
    <2>5. a \in InOrder /\ b \in InOrder
      <3>1. PICK x, y : x = s.seq + room /\ y = s.seq
        OBVIOUS
      <3>2. x \in Nat /\ y \in Nat
        BY <2>3, <3>1
      <3>3. a = [seq |-> x, from |-> s.from, len |-> 0] /\ b = [seq |-> y, from |-> s.from, len |-> 0]
        BY <2>2, <3>1, Zenon DEF Segment
      <3> QED BY <2>3, <3>2, <3>3 DEF InOrder, Segments
    <2>6. /\ t \in Seq(InOrder) /\ Len(t) = Len(q) - (n + 1)
          /\ \A j \in 1..Len(t) : t[j] = q[(n + 1) + j] /\ (n + 1) + j \in 1..Len(q)
      <3>1. PICK k, z : k = n + 1 /\ z = Len(q)
        OBVIOUS
      <3>2. k \in Nat /\ z \in Nat /\ k <= z /\ z <= Len(q) /\ t = SubSeq(q, k + 1, z)
        BY <1>1, <2>1, <2>2, <3>1
      <3>3. /\ t \in Seq(InOrder) /\ Len(t) = z - k
            /\ \A j \in 1..(z - k) : t[j] = q[k + j] /\ k + j \in 1..Len(q)
        BY <3>2, Slice
      <3> QED BY <3>1, <3>3
    <2>7. m \in Seq(InOrder) /\ Len(m) = n
      <3>1. 0 <= n /\ n <= Len(q) /\ n - 0 = n
        BY <2>1
      <3> QED BY <1>1, <2>1, <2>2, <3>1, Slice
    <2>8. /\ <<a>> \in Seq(InOrder) /\ <<b>> \in Seq(InOrder)
          /\ Numbered(<<a>>) /\ Numbered(t)
      <3>1. <<a>> \in Seq(InOrder) /\ <<b>> \in Seq(InOrder)
        BY <2>5
      <3> QED BY <1>3, <2>6, <3>1, NumberedType
    <2>9. Rising(<<a>>, lo, s.seq + s.len)
      BY <2>3, <2>4 DEF Rising
    <2>10. Rising(t, s.seq + s.len, hi)
      <3>1. ASSUME NEW i \in 1..Len(t)
            PROVE  s.seq + s.len <= t[i].seq /\ t[i].seq < hi /\ t[i].seq + t[i].len <= hi
        <4>1. n + 1 < (n + 1) + i
          BY <2>1, <2>6
        <4> QED BY <2>1, <2>2, <2>6, <4>1 DEF Rising
      <3>2. ASSUME NEW i \in 1..Len(t), NEW j \in 1..Len(t), i < j
            PROVE  t[i].seq + t[i].len <= t[j].seq
        <4>1. (n + 1) + i < (n + 1) + j
          BY <2>1, <2>6, <3>2
        <4> QED BY <2>6, <4>1 DEF Rising
      <3> QED BY <3>1, <3>2 DEF Rising
    <2>11. Rising(loop.rest, lo, hi)
      <3>1. PICK e : e = s.seq + s.len
        OBVIOUS
      <3>2. e \in Nat /\ lo <= e /\ e <= hi /\ Rising(<<a>>, lo, e) /\ Rising(t, e, hi)
        BY <2>3, <2>4, <2>9, <2>10, <3>1
      <3>3. Rising(<<a>> \o t, lo, hi)
        BY <2>6, <2>8, <3>2, RisingConcat
      <3> QED BY <2>2, <3>3
    <2>12. /\ loop.moved # <<>> /\ loop.moved[Len(loop.moved)] = b /\ q # <<>>
      <3>1. Len(<<b>>) = 1 /\ <<b>>[1] = b
        OBVIOUS
      <3>2. /\ Len(loop.moved) = n + 1
            /\ \A i \in 1..(n + 1) :
                loop.moved[i] = IF i <= n THEN m[i] ELSE <<b>>[i - n]
        <4>1. PICK c : c = <<b>>
          OBVIOUS
        <4>2. c \in Seq(InOrder) /\ Len(c) = 1 /\ loop.moved = m \o c
          BY <2>2, <2>8, <3>1, <4>1
        <4>3. /\ Len(m \o c) = Len(m) + Len(c)
              /\ \A i \in 1..(Len(m) + Len(c)) :
                  (m \o c)[i] = IF i <= Len(m) THEN m[i] ELSE c[i - Len(m)]
          BY <2>7, <4>2, ConcatProperties
        <4> QED BY <2>7, <4>1, <4>2, <4>3
      <3>3. n + 1 \in 1..(n + 1) /\ ~(n + 1 <= n) /\ (n + 1) - n = 1 /\ n + 1 # 0
        BY <2>1
      <3>4. loop.moved[n + 1] = b
        BY <3>1, <3>2, <3>3, Zenon
      <3>5. loop.moved # <<>> /\ q # <<>>
        BY <2>1, <3>2, <3>3
      <3> QED BY <3>2, <3>4, <3>5, Zenon
    <2>13. \A j \in 1..Len(loop.rest) : s.seq <= loop.rest[j].seq
      <3>1. /\ s.seq + s.len \in Nat /\ s.seq <= s.seq + s.len /\ s.seq + s.len <= hi
            /\ Rising(<<a>>, s.seq, s.seq + s.len)
        BY <2>3, <2>4 DEF Rising
      <3>2. Rising(loop.rest, s.seq, hi)
        <4>1. PICK l, e : l = s.seq /\ e = s.seq + s.len
          OBVIOUS
        <4>2. l \in Nat /\ e \in Nat /\ l <= e /\ e <= hi /\ Rising(<<a>>, l, e) /\ Rising(t, e, hi)
          BY <2>3, <2>10, <3>1, <4>1
        <4>3. Rising(<<a>> \o t, l, hi)
          BY <2>6, <2>8, <4>2, RisingConcat
        <4> QED BY <2>2, <4>1, <4>3
      <3> QED BY <3>2 DEF Rising
    <2> QED BY <2>3, <2>4, <2>11, <2>12, <2>13 DEF Between, Placed
  <1> QED BY <1>4, <1>5

LEMMA ChainTail ==
  ASSUME NEW q, Numbered(q), q # <<>>, NEW lo \in Nat, NEW hi \in Nat, Chain(q, lo, hi)
  PROVE  q[1].seq = lo /\ Chain(Tail(q), lo + q[1].len, hi)
  <1>1. /\ Len(Tail(q)) = Len(q) - 1 /\ Len(q) \in Nat /\ Len(q) > 0
        /\ \A i \in 1..Len(Tail(q)) : Tail(q)[i] = q[i + 1]
    BY TailIsSeq DEF Numbered, IsSeq
  <1>2. PICK r : r = Tail(q)
    OBVIOUS
  <1>3. q[1].seq = lo /\ q[1].len \in Nat /\ 1 \in 1..Len(q)
    BY <1>1 DEF Chain, Numbered
  <1>4. \A i \in 1..Len(r) : i + 1 \in 1..Len(q) /\ 1 < i + 1 /\ r[i] = q[i + 1]
    BY <1>1, <1>2
  <1>5. ASSUME NEW i \in 1..Len(r)
        PROVE  lo + q[1].len <= r[i].seq
    BY <1>3, <1>4 DEF Chain
  <1>6. ASSUME NEW i \in 1..Len(r)
        PROVE  r[i].seq = IF i = 1 THEN lo + q[1].len ELSE r[i - 1].seq + r[i - 1].len
    <2>1. r[i].seq = q[i].seq + q[i].len
      <3>1. i + 1 # 1 /\ (i + 1) - 1 = i
        BY <1>1, <1>2
      <3>2. r[i].seq = q[(i + 1) - 1].seq + q[(i + 1) - 1].len
        BY <1>4, <3>1 DEF Chain
      <3> QED BY <3>1, <3>2
    <2>2. CASE i = 1
      BY <1>3, <2>1, <2>2
    <2>3. CASE i # 1
      <3>1. i - 1 \in 1..Len(r) /\ (i - 1) + 1 = i
        BY <1>1, <1>2, <2>3
      <3>2. r[i - 1] = q[i]
        BY <1>4, <3>1
      <3> QED BY <2>1, <2>3, <3>2
    <2> QED BY <2>2, <2>3
  <1>7. ASSUME NEW i \in 1..Len(r), NEW j \in 1..Len(r), i < j
        PROVE  r[i].seq + r[i].len <= r[j].seq
    <2>1. i + 1 < j + 1
      BY <1>1, <1>2, <1>7
    <2> QED BY <1>4, <2>1 DEF Chain
  <1>8. hi = IF r = <<>> THEN lo + q[1].len ELSE r[Len(r)].seq + r[Len(r)].len
    <2>1. hi = q[Len(q)].seq + q[Len(q)].len
      BY <1>1 DEF Chain
    <2>2. CASE r = <<>>
      <3>1. Len(q) = 1
        BY <1>1, <1>2, <2>2
      <3> QED BY <1>3, <2>1, <2>2, <3>1
    <2>3. CASE r # <<>>
      <3>1. IsSeq(r)
        BY <1>1, <1>2, TailIsSeq DEF Numbered
      <3>2. Len(r) # 0
        BY <2>3, <3>1 DEF IsSeq
      <3>3. Len(r) \in 1..Len(r) /\ Len(r) + 1 = Len(q)
        BY <1>1, <1>2, <3>2
      <3>4. r[Len(r)] = q[Len(q)]
        BY <1>4, <3>3
      <3> QED BY <2>1, <2>3, <3>4
    <2> QED BY <2>2, <2>3
  <1> QED BY <1>2, <1>3, <1>5, <1>6, <1>7, <1>8 DEF Chain

LEMMA ChainAppend ==
  ASSUME NEW q, Numbered(q), NEW lo \in Nat, NEW hi \in Nat, Chain(q, lo, hi),
         NEW e, e.seq = hi, e.len \in Nat
  PROVE  Chain(Append(q, e), lo, hi + e.len)
  <1>1. PICK a : a = Append(q, e)
    OBVIOUS
  <1>2. /\ Len(a) = Len(q) + 1 /\ Len(q) \in Nat
        /\ \A i \in 1..Len(q) : a[i] = q[i]
        /\ a[Len(q) + 1] = e
    BY <1>1, AppendIsSeq DEF Numbered, IsSeq
  <1>3. q = <<>> <=> Len(q) = 0
    BY DEF Numbered, IsSeq
  <1>4. /\ lo <= hi
        /\ \A i \in 1..Len(q) : q[i].seq + q[i].len <= hi
    <2>1. CASE q = <<>>
      BY <1>3, <2>1 DEF Chain
    <2>2. CASE q # <<>>
      <3>1. Len(q) \in 1..Len(q) /\ hi = q[Len(q)].seq + q[Len(q)].len
        BY <1>2, <1>3, <2>2 DEF Chain
      <3>2. lo <= q[Len(q)].seq /\ q[Len(q)].seq \in Nat /\ q[Len(q)].len \in Nat
        BY <3>1 DEF Chain, Numbered
      <3>3. ASSUME NEW i \in 1..Len(q) PROVE q[i].seq + q[i].len <= hi
        <4>1. CASE i = Len(q)
          BY <3>1, <3>2, <4>1
        <4>2. CASE i < Len(q)
          <5>1. q[i].seq + q[i].len <= q[Len(q)].seq
            BY <3>1, <4>2 DEF Chain
          <5>2. q[i].seq \in Nat /\ q[i].len \in Nat
            BY DEF Numbered
          <5> QED BY <3>1, <3>2, <5>1, <5>2
        <4> QED BY <1>2, <4>1, <4>2
      <3> QED BY <3>1, <3>2, <3>3
    <2> QED BY <2>1, <2>2
  <1>5. ASSUME NEW i \in 1..Len(a)
        PROVE  /\ lo <= a[i].seq
               /\ a[i].seq = IF i = 1 THEN lo ELSE a[i - 1].seq + a[i - 1].len
    <2>1. CASE i = Len(q) + 1
      <3>1. a[i] = e
        BY <1>2, <2>1
      <3>2. CASE q = <<>>
        BY <1>2, <1>3, <1>4, <2>1, <3>1, <3>2 DEF Chain
      <3>3. CASE q # <<>>
        <4>1. i # 1 /\ i - 1 = Len(q) /\ Len(q) \in 1..Len(q)
          BY <1>2, <1>3, <2>1, <3>3
        <4>2. a[i - 1] = q[Len(q)]
          BY <1>2, <4>1
        <4> QED BY <1>4, <3>1, <3>3, <4>1, <4>2 DEF Chain
      <3> QED BY <3>2, <3>3
    <2>2. CASE i \in 1..Len(q)
      <3>1. a[i] = q[i] /\ (i # 1 => a[i - 1] = q[i - 1])
        BY <1>2, <2>2
      <3> QED BY <2>2, <3>1 DEF Chain
    <2> QED BY <1>2, <2>1, <2>2
  <1>6. ASSUME NEW i \in 1..Len(a), NEW j \in 1..Len(a), i < j
        PROVE  a[i].seq + a[i].len <= a[j].seq
    <2>1. i \in 1..Len(q) /\ a[i] = q[i]
      BY <1>2, <1>6
    <2>2. CASE j = Len(q) + 1
      BY <1>2, <1>4, <2>1, <2>2
    <2>3. CASE j \in 1..Len(q)
      BY <1>2, <1>6, <2>1, <2>3 DEF Chain
    <2> QED BY <1>2, <2>2, <2>3
  <1>7. a # <<>> /\ a[Len(a)] = e
    BY <1>2
  <1> QED BY <1>1, <1>5, <1>6, <1>7 DEF Chain

-----------------------------------------------------------------------------
(* The steps of a calm connection                                           *)

LEMMA StreamFacts ==
  ASSUME StreamInv
  PROVE  /\ toSend \in Seq(InOrder) /\ toServer \in Seq(Requests) /\ toClient \in Seq(Answers)
         /\ Numbered(toSend) /\ Numbered(toServer) /\ Numbered(toClient)
         /\ seqLocal \in Nat /\ seqRemote \in Nat /\ nxt \in Nat /\ rcv \in Nat
         /\ got \in Seq(Nat) /\ Len(got) \in Nat /\ closing \in BOOLEAN
         /\ state = "est" /\ ~closing => seqRemote = seqLocal
         /\ state = "ack_fin" => seqRemote = seqLocal
         /\ \A i \in 1..Len(toServer) : Sound(toServer[i])
  <1>1. toSend \in Seq(InOrder) /\ toServer \in Seq(Requests) /\ toClient \in Seq(Answers)
    BY DEF StreamInv, Queues
  <1>2. /\ \A s \in InOrder : s.seq \in Nat /\ s.len \in Nat
        /\ \A s \in Requests : s.seq \in Nat /\ s.len \in Nat
        /\ \A s \in Answers : s.seq \in Nat /\ s.len \in Nat
    BY DEF InOrder, Requests, Answers, Segments, Packets
  <1>3. Numbered(toSend) /\ Numbered(toServer) /\ Numbered(toClient)
    BY <1>1, <1>2, NumberedType, Zenon
  <1>4. got \in Seq(Nat) /\ Len(got) \in Nat
    BY LenProperties DEF StreamInv, Accepted
  <1>5. closing \in BOOLEAN
    BY DEF StreamInv, IInv, Numbers
  <1>6. \A i \in 1..Len(toServer) : Sound(toServer[i])
    BY DEF StreamInv, IInv, Queued
  <1>7. /\ state = "est" /\ ~closing => seqRemote = seqLocal
        /\ state = "ack_fin" => seqRemote = seqLocal
    BY DEF StreamInv, IInv, Numbers, BytesCounted, EchoedOnce
  <1>8. seqLocal \in Nat /\ seqRemote \in Nat /\ nxt \in Nat /\ rcv \in Nat
    BY DEF StreamInv, IInv, Numbers, Accepted
  <1> QED BY <1>1, <1>3, <1>4, <1>5, <1>6, <1>7, <1>8

LEMMA NothingRequeued ==
  ASSUME StreamInv, NEW ack, ToRepeat(ack) = {}
  PROVE  Requeued(ack) = toSend
  <1>1. Part(sent, {}) = <<>>
    <2>1. Cardinality({}) = 0 /\ 1..0 = {}
      BY FS_EmptySet
    <2>2. Part(sent, {}) \in Seq(InOrder)
      BY PartType DEF StreamInv, Queues
    <2>3. Len(Part(sent, {})) = 0
      BY <2>1 DEF Part
    <2> QED BY <2>2, <2>3, EmptySeq
  <1>2. Reverse(<<>>) = <<>>
    <2>1. Reverse(<<>>) \in Seq(InOrder)
      BY ReverseType, EmptySeq
    <2>2. Len(Reverse(<<>>)) = 0
      BY DEF Reverse
    <2> QED BY <2>1, <2>2, EmptySeq
  <1>3. <<>> \o toSend = toSend
    BY ConcatEmptySeq DEF StreamInv, Queues
  <1> QED BY <1>1, <1>2, <1>3 DEF Requeued

\* runEst takes the packet p: rest stays in dataToSend, moved went through the
\* loop, and out is what the answer carries.
TakesAs(p, rest, moved, out) ==
    /\ toSend' = rest /\ out = Payload(p, moved)
    /\ \A lo \in Nat : lo <= seqLocal /\ Rising(toSend, lo, seqLocal) =>
         /\ Rising(rest, lo, seqLocal + p.len)
         /\ moved # <<>> => Between(out, rest, lo, seqLocal + p.len)
    /\ moved = <<>> => rest = <<>> /\ p.len = 0
    /\ toSend = <<>> /\ p.len = 0 => moved = <<>>
    /\ "FIN" \in p.flags /\ rest = <<>> =>
         /\ state' = "ack_fin" /\ seqLocal' = seqLocal + p.len + 1
         /\ Answer({"ACK", "FIN"}, out.seq, seqRemote', out.from, out.len)
    /\ "FIN" \notin p.flags =>
         /\ state' = "est" /\ seqLocal' = seqLocal + p.len /\ ~closing'
         /\ IF moved = <<>> THEN UNCHANGED toClient
            ELSE Answer({"ACK"}, out.seq, seqRemote', out.from, out.len)

LEMMA TakeCalm ==
  ASSUME StreamInv, NEW p \in Requests, EstTake(p), ~closing, p.win >= MSS, ~resent',
         rcv <= seqLocal, Rising(toSend, rcv, seqLocal)
  PROVE  \E rest \in Seq(InOrder), moved \in Seq(InOrder) : \E out : TakesAs(p, rest, moved, out)
  <1>1. /\ p.len \in Nat /\ p.win \in Nat /\ p.win > 0 /\ p.from \in Nat /\ p.from = p.seq
        /\ seqLocal \in Nat /\ seqLocal + p.len \in Nat /\ toSend \in Seq(InOrder)
        /\ p.seq = seqLocal /\ p.opt = 0 /\ DataLen(p) = p.len
    <2>1. /\ p.len \in Nat /\ p.win \in Nat /\ p.from \in Nat /\ p.from = p.seq
          /\ p.opt = 0 /\ DataLen(p) = p.len
      BY NoOptionBytes DEF Requests, Packets
    <2>2. /\ seqLocal \in Nat /\ seqRemote \in Nat /\ toSend \in Seq(InOrder)
          /\ state = "est" /\ ~closing => seqRemote = seqLocal
      BY StreamFacts
    <2>3. state = "est" /\ p.seq = seqRemote
      BY DEF EstTake
    <2> QED BY <2>1, <2>2, <2>3
  <1>2. Requeued(p.ack) = toSend
    <2>1. ToRepeat(p.ack) = {}
      BY Zenon DEF EstTake, CountAck
    <2> QED BY <2>1, NothingRequeued
  <1>3. PICK q, n, room, loop, fin :
          /\ fin \in BOOLEAN
          /\ q = toSend \o Echo(p) /\ n \in 0..Len(q) /\ room \in 0..p.win
          /\ loop = Loop(q, n, room) /\ Whole(q, n, room, p.win)
          /\ toSend' = loop.rest
          /\ fin <=> closing' /\ loop.rest = <<>>
          /\ seqLocal' = seqLocal + p.len + (IF fin THEN 1 ELSE 0)
          /\ state' = IF fin THEN "ack_fin" ELSE "est"
          /\ IF p.len = 0 /\ loop.moved = <<>> /\ ~fin
             THEN UNCHANGED toClient
             ELSE Answer(IF fin THEN {"ACK", "FIN"} ELSE {"ACK"}, Payload(p, loop.moved).seq,
                         seqRemote', Payload(p, loop.moved).from, Payload(p, loop.moved).len)
    <2>1. PICK q, n, room, loop :
            /\ q = toSend \o Echo(p) /\ n \in 0..Len(q) /\ room \in 0..p.win
            /\ loop = Loop(q, n, room) /\ Whole(q, n, room, p.win)
            /\ toSend' = loop.rest
            /\ seqLocal' = seqLocal + DataLen(p)
                             + (IF closing' /\ loop.rest = <<>> THEN 1 ELSE 0)
            /\ state' = IF closing' /\ loop.rest = <<>> THEN "ack_fin" ELSE "est"
            /\ IF DataLen(p) = 0 /\ loop.moved = <<>> /\ ~(closing' /\ loop.rest = <<>>)
               THEN UNCHANGED toClient
               ELSE Answer(IF closing' /\ loop.rest = <<>> THEN {"ACK", "FIN"} ELSE {"ACK"},
                           Payload(p, loop.moved).seq, seqRemote',
                           Payload(p, loop.moved).from, Payload(p, loop.moved).len)
      BY <1>2, Zenon DEF EstTake
    <2>2. PICK fin \in BOOLEAN : fin <=> closing' /\ loop.rest = <<>>
      BY Zenon
    <2>3. DataLen(p) = p.len
      BY <1>1
    <2> QED BY <2>1, <2>2, <2>3
  <1>4. closing' <=> "FIN" \in p.flags
    BY Zenon DEF EstTake
  <1>5. /\ Echo(p) \in Seq(InOrder) /\ Numbered(Echo(p)) /\ Numbered(toSend)
        /\ Rising(Echo(p), seqLocal, seqLocal + p.len)
        /\ Echo(p) = <<>> => p.len = 0
    <2>1. Echo(p) \in Seq(InOrder)
      BY <1>1, EchoType
    <2>2. \A s \in InOrder : s.seq \in Nat /\ s.len \in Nat
      BY DEF InOrder, Segments
    <2> QED BY <1>1, <2>1, <2>2, NumberedType, RisingEcho
  <1>6. q \in Seq(InOrder) /\ (q = <<>> <=> toSend = <<>> /\ Echo(p) = <<>>)
    BY <1>1, <1>3, <1>5, ConcatProperties, EmptySeq
  <1>7. room \in Nat
    BY <1>1, <1>3
  <1>8. \A lo \in Nat : lo <= seqLocal /\ Rising(toSend, lo, seqLocal) =>
                        Rising(q, lo, seqLocal + p.len)
    BY <1>1, <1>3, <1>5, RisingConcat
  <1>9. loop.rest \in Seq(InOrder) /\ loop.moved \in Seq(InOrder)
    BY <1>3, <1>6, <1>7, LoopType
  <1>10. PICK out : out = Payload(p, loop.moved)
    OBVIOUS
  <1>11. ASSUME NEW lo \in Nat, Rising(q, lo, seqLocal + p.len)
         PROVE  /\ Rising(loop.rest, lo, seqLocal + p.len)
                /\ q = <<>> => loop.moved = <<>> /\ loop.rest = <<>>
                /\ q # <<>> => loop.moved # <<>>
                /\ loop.moved # <<>> => Between(out, loop.rest, lo, seqLocal + p.len)
    <2>1. PICK hi \in Nat : hi = seqLocal + p.len
      BY <1>1
    <2>2. /\ Rising(q, lo, hi) /\ q \in Seq(InOrder) /\ n \in 0..Len(q) /\ room \in Nat
          /\ Whole(q, n, room, p.win) /\ loop = Loop(q, n, room)
      BY <1>3, <1>6, <1>7, <1>11, <2>1
    <2>3. PICK win \in Nat : win = p.win /\ win > 0
      BY <1>1
    <2>4. Placed(q, loop, lo, hi)
      BY <2>2, <2>3, RisingLoop
    <2>5. loop.moved # <<>> => out = loop.moved[Len(loop.moved)]
      BY <1>10 DEF Payload
    <2> QED BY <2>1, <2>4, <2>5 DEF Placed
  <1>12. /\ loop.moved = <<>> => loop.rest = <<>> /\ p.len = 0
         /\ toSend = <<>> /\ p.len = 0 => loop.moved = <<>>
    <2>1. rcv \in Nat /\ Rising(q, rcv, seqLocal + p.len)
      BY <1>8, StreamFacts
    <2>2. p.len = 0 => Echo(p) = <<>>
      <3>1. Len(Echo(p)) \in Nat /\ (Len(Echo(p)) = 0 => Echo(p) = <<>>)
        BY <1>5, LenProperties, EmptySeq
      <3>2. ASSUME p.len = 0, Len(Echo(p)) # 0 PROVE FALSE
        <4>1. 1 \in 1..Len(Echo(p))
          BY <3>1, <3>2
        <4>2. Echo(p)[1].seq \in Nat /\ seqLocal <= Echo(p)[1].seq /\ Echo(p)[1].seq < seqLocal + p.len
          BY <1>5, <4>1 DEF Rising, Numbered
        <4> QED BY <1>1, <3>2, <4>2
      <3> QED BY <3>1, <3>2
    <2> QED BY <1>5, <1>6, <1>11, <2>1, <2>2
  <1>13. \A lo \in Nat : lo <= seqLocal /\ Rising(toSend, lo, seqLocal) =>
           /\ Rising(loop.rest, lo, seqLocal + p.len)
           /\ loop.moved # <<>> => Between(out, loop.rest, lo, seqLocal + p.len)
    BY <1>8, <1>11
  <1>14. "FIN" \in p.flags /\ loop.rest = <<>> =>
           /\ state' = "ack_fin" /\ seqLocal' = seqLocal + p.len + 1
           /\ Answer({"ACK", "FIN"}, out.seq, seqRemote', out.from, out.len)
    BY <1>3, <1>4, <1>10
  <1>15. "FIN" \notin p.flags =>
           /\ state' = "est" /\ seqLocal' = seqLocal + p.len /\ ~closing'
           /\ IF loop.moved = <<>> THEN UNCHANGED toClient
              ELSE Answer({"ACK"}, out.seq, seqRemote', out.from, out.len)
    <2> SUFFICES ASSUME "FIN" \notin p.flags
                 PROVE  /\ state' = "est" /\ seqLocal' = seqLocal + p.len /\ ~closing'
                        /\ IF loop.moved = <<>> THEN UNCHANGED toClient
                           ELSE Answer({"ACK"}, out.seq, seqRemote', out.from, out.len)
      OBVIOUS
    <2>1. ~fin /\ ~closing'
      BY <1>3, <1>4
    <2>2. seqLocal' = seqLocal + p.len
      BY <1>1, <1>3, <2>1
    <2> QED BY <1>3, <1>10, <1>12, <2>1, <2>2
  <1>16. toSend' = loop.rest
    BY <1>3
  <1>17. TakesAs(p, loop.rest, loop.moved, out)
    BY <1>10, <1>12, <1>13, <1>14, <1>15, <1>16, Zenon DEF TakesAs
  <1> QED BY <1>9, <1>17, Zenon

LEMMA FirstOf ==
  ASSUME NEW q, Numbered(q), q # <<>>
  PROVE  /\ Head(q) = q[1] /\ 1 \in 1..Len(q) /\ Len(q) \in Nat /\ Len(Tail(q)) = Len(q) - 1
         /\ Numbered(Tail(q))
         /\ \A i \in 1..Len(Tail(q)) : i + 1 \in 1..Len(q) /\ Tail(q)[i] = q[i + 1]
         /\ Len(q) = 1 => Tail(q) = <<>>
  <1>1. /\ IsSeq(Tail(q)) /\ Len(Tail(q)) = Len(q) - 1 /\ Len(q) > 0 /\ Len(q) \in Nat
        /\ Head(q) = q[1]
        /\ \A i \in 1..Len(Tail(q)) : Tail(q)[i] = q[i + 1]
    BY TailIsSeq DEF Numbered, IsSeq
  <1>2. \A i \in 1..Len(Tail(q)) : i + 1 \in 1..Len(q)
    BY <1>1
  <1>3. Numbered(Tail(q))
    BY <1>1, <1>2 DEF Numbered
  <1>4. Len(q) = 1 => Tail(q) = <<>>
    <2>1. PICK t : t = Tail(q)
      OBVIOUS
    <2>2. PICK S : t \in Seq(S)
      <3>1. IsSeq(t)
        BY <1>1, <2>1
      <3> QED BY <3>1, SeqTyped
    <2>3. Len(q) = 1 => Len(t) = 0
      BY <1>1, <2>1
    <2> QED BY <2>1, <2>2, <2>3, EmptySeq
  <1> QED BY <1>1, <1>2, <1>3, <1>4

LEMMA ExchangeTake ==
  ASSUME StreamInv, Exchange, toServer # <<>>, toServer' = Tail(toServer),
         EstTake(Head(toServer)), UNCHANGED client, ~resent'
  PROVE  Exchange'
  <1>1. PICK p : p = Head(toServer)
    OBVIOUS
  <1>2. /\ p = toServer[1] /\ p \in Requests /\ EstTake(p)
        /\ p.flags = {"ACK"} /\ p.win >= MSS /\ p.seq \in Nat /\ p.len \in Nat
    BY <1>1, StreamFacts, FirstOf, ElementOfSeq DEF Exchange, Regular, Numbered
  <1>3. /\ ~closing /\ rcv <= seqLocal /\ Rising(toSend, rcv, seqLocal)
        /\ Rising(toClient, rcv, seqLocal)
        /\ \A i \in 1..Len(toClient) : toClient[i].flags = {"ACK"}
        /\ \A i \in 1..Len(toClient), j \in 1..Len(toSend) :
            toClient[i].seq + toClient[i].len <= toSend[j].seq
        /\ Numbered(toClient) /\ Numbered(toSend)
        /\ seqLocal \in Nat /\ seqRemote \in Nat /\ nxt \in Nat /\ rcv \in Nat
    BY StreamFacts DEF Exchange
  <1>4. PICK rest, moved, out :
           /\ toSend' = rest /\ out = Payload(p, moved)
           /\ \A lo \in Nat : lo <= seqLocal /\ Rising(toSend, lo, seqLocal) =>
                /\ Rising(rest, lo, seqLocal + p.len)
                /\ moved # <<>> => Between(out, rest, lo, seqLocal + p.len)
           /\ moved = <<>> => rest = <<>> /\ p.len = 0
           /\ state' = "est" /\ seqLocal' = seqLocal + p.len /\ ~closing'
           /\ IF moved = <<>> THEN UNCHANGED toClient
              ELSE Answer({"ACK"}, out.seq, seqRemote', out.from, out.len)
           /\ moved \in Seq(InOrder)
    <2>1. "FIN" \notin p.flags
      BY <1>2
    <2>2. rcv <= seqLocal /\ Rising(toSend, rcv, seqLocal) /\ ~closing /\ p.win >= MSS
      BY <1>2, <1>3
    <2>3. PICK rest, moved, out : TakesAs(p, rest, moved, out) /\ moved \in Seq(InOrder)
      <3>1. \E rest \in Seq(InOrder), moved \in Seq(InOrder) : \E out : TakesAs(p, rest, moved, out)
        BY <1>2, <2>2, TakeCalm
      <3> QED BY <3>1, Zenon
    <2> QED BY <2>1, <2>3, Zenon DEF TakesAs
  <1>5. seqRemote' = seqRemote + p.len
    <2>1. seqRemote' = seqRemote + p.len + Fin(p)
      BY <1>2 DEF EstTake
    <2>2. Fin(p) = 0
      BY <1>2 DEF Fin
    <2> QED BY <1>2, <1>3, <2>1, <2>2
  <1>6. Chain(toServer', seqRemote', nxt')
    <2>1. Chain(Tail(toServer), seqRemote + toServer[1].len, nxt)
      BY <1>3, StreamFacts, ChainTail DEF Exchange
    <2>2. nxt' = nxt
      BY DEF client
    <2> QED BY <1>2, <1>5, <2>1, <2>2
  <1>7. \A i \in 1..Len(toServer') : toServer'[i].flags = {"ACK"} /\ toServer'[i].win >= MSS
    BY StreamFacts, FirstOf DEF Exchange, Regular
  <1>8. /\ seqLocal' \in Nat /\ seqLocal <= seqLocal' /\ Rising(rest, rcv, seqLocal')
    BY <1>2, <1>3, <1>4
  <1>9. \A i \in 1..Len(toClient) :
          LET lo == toClient[i].seq + toClient[i].len
          IN  lo \in Nat /\ lo <= seqLocal /\ Rising(toSend, lo, seqLocal)
    <2> SUFFICES ASSUME NEW i \in 1..Len(toClient)
                 PROVE  LET lo == toClient[i].seq + toClient[i].len
                        IN  lo \in Nat /\ lo <= seqLocal /\ Rising(toSend, lo, seqLocal)
      OBVIOUS
    <2>1. PICK lo : lo = toClient[i].seq + toClient[i].len
      OBVIOUS
    <2>2. lo \in Nat /\ lo <= seqLocal
      BY <1>3, <2>1 DEF Rising, Numbered
    <2>3. Rising(toSend, lo, seqLocal)
      <3>1. \A j \in 1..Len(toSend) : lo <= toSend[j].seq
        BY <1>3, <2>1
      <3> QED BY <1>3, <3>1 DEF Rising
    <2> QED BY <2>1, <2>2, <2>3
  <1>10. /\ Rising(toClient', rcv, seqLocal')
         /\ \A i \in 1..Len(toClient') : toClient'[i].flags = {"ACK"}
         /\ \A i \in 1..Len(toClient'), j \in 1..Len(rest) :
              toClient'[i].seq + toClient'[i].len <= rest[j].seq
    <2>1. ASSUME NEW i \in 1..Len(toClient), NEW j \in 1..Len(rest)
          PROVE  toClient[i].seq + toClient[i].len <= rest[j].seq
      <3>1. PICK lo \in Nat : lo = toClient[i].seq + toClient[i].len
        BY <1>9
      <3>2. Rising(rest, lo, seqLocal + p.len)
        BY <1>4, <1>9, <3>1
      <3> QED BY <3>1, <3>2 DEF Rising
    <2>2. CASE moved = <<>>
      <3>1. toClient' = toClient
        BY <1>4, <2>2
      <3>2. Rising(toClient, rcv, seqLocal')
        BY <1>3, <1>8 DEF Rising, Numbered
      <3> QED BY <1>3, <2>1, <3>1, <3>2
    <2>3. CASE moved # <<>>
      <3>1. PICK e : e = Packet({"ACK"}, out.seq, seqRemote', out.from, out.len, 0, 0)
        OBVIOUS
      <3>2. toClient' = Append(toClient, e) /\ e.flags = {"ACK"} /\ e.seq = out.seq /\ e.len = out.len
        BY <1>4, <2>3, <3>1 DEF Answer, Packet
      <3>3. Between(out, rest, rcv, seqLocal')
        BY <1>3, <1>4, <2>3
      <3>4. \A i \in 1..Len(toClient) : toClient[i].seq + toClient[i].len <= out.seq
        <4>1. ASSUME NEW i \in 1..Len(toClient)
              PROVE  toClient[i].seq + toClient[i].len <= out.seq
          <5>1. PICK lo \in Nat : lo = toClient[i].seq + toClient[i].len
            BY <1>9
          <5>2. Between(out, rest, lo, seqLocal + p.len)
            BY <1>4, <1>9, <2>3, <5>1
          <5> QED BY <5>1, <5>2 DEF Between
        <4> QED BY <4>1
      <3>5. out.seq \in Nat /\ out.len \in Nat
        <4>1. out = moved[Len(moved)]
          BY <1>4, <2>3 DEF Payload
        <4>2. Len(moved) \in 1..Len(moved)
          BY <1>4, <2>3, LenProperties, EmptySeq
        <4> QED BY <1>4, <4>1, <4>2, ElementOfSeq DEF InOrder, Segments
      <3>6. Rising(toClient', rcv, seqLocal')
        BY <1>3, <1>8, <3>2, <3>3, <3>4, <3>5, RisingAppend DEF Between
      <3>7. /\ Len(toClient') = Len(toClient) + 1 /\ toClient'[Len(toClient) + 1] = e
            /\ \A i \in 1..Len(toClient) : toClient'[i] = toClient[i]
            /\ Len(toClient) \in Nat
        BY <1>3, <3>2, AppendIsSeq DEF Numbered, IsSeq
      <3>8. ASSUME NEW i \in 1..Len(toClient')
            PROVE  /\ toClient'[i].flags = {"ACK"}
                   /\ \A j \in 1..Len(rest) : toClient'[i].seq + toClient'[i].len <= rest[j].seq
        <4>1. CASE i = Len(toClient) + 1
          BY <3>2, <3>3, <3>7, <4>1 DEF Between
        <4>2. CASE i \in 1..Len(toClient)
          BY <1>3, <2>1, <3>7, <4>2
        <4> QED BY <3>7, <4>1, <4>2
      <3> QED BY <3>6, <3>8
    <2> QED BY <2>2, <2>3
  <1>11. /\ rcv' = rcv /\ got' = got /\ rcv = Len(got) + 1 /\ rcv <= seqLocal'
    BY <1>2, <1>3, <1>4 DEF client, Exchange
  <1>12. /\ Rising(toClient, rcv, seqLocal)' /\ Rising(toSend, rcv, seqLocal)'
         /\ Chain(toServer, seqRemote, nxt)'
    BY <1>4, <1>6, <1>8, <1>10, <1>11
  <1> QED BY <1>4, <1>7, <1>10, <1>11, <1>12 DEF Exchange, Regular

\* Acknowledgements before the FIN change nothing; the FIN is answered with the
\* server's own at once, as nothing is waiting.
LEMMA ClosingTake ==
  ASSUME StreamInv, Closing, toServer # <<>>, toServer' = Tail(toServer),
         EstTake(Head(toServer)), UNCHANGED client, ~resent'
  PROVE  (Closing \/ Closed)'
  <1>1. PICK p : p = Head(toServer)
    OBVIOUS
  <1>2. /\ p = toServer[1] /\ p \in Requests /\ EstTake(p) /\ Len(toServer) \in Nat
        /\ p.flags = (IF 1 = Len(toServer) THEN {"ACK", "FIN"} ELSE {"ACK"})
        /\ p.win >= MSS /\ p.len = 0 /\ 1 \in 1..Len(toServer)
    <2>1. /\ Head(toServer) = toServer[1] /\ 1 \in 1..Len(toServer) /\ Len(toServer) \in Nat
          /\ toServer \in Seq(Requests)
      BY StreamFacts, FirstOf
    <2>2. p = toServer[1] /\ p \in Requests
      BY <1>1, <2>1, ElementOfSeq
    <2> QED BY <1>1, <2>1, <2>2 DEF Closing
  <1>3. /\ ~closing /\ rcv = seqLocal /\ toSend = <<>> /\ toClient = <<>> /\ nxt = seqLocal + 1
        /\ seqLocal \in Nat /\ seqRemote \in Nat /\ seqRemote = seqLocal /\ rcv = Len(got) + 1
    BY StreamFacts DEF Closing
  <1>4. PICK rest, moved, out :
           /\ toSend' = rest /\ out = Payload(p, moved) /\ moved = <<>> /\ rest = <<>>
           /\ "FIN" \in p.flags =>
                /\ state' = "ack_fin" /\ seqLocal' = seqLocal + p.len + 1
                /\ Answer({"ACK", "FIN"}, out.seq, seqRemote', out.from, out.len)
           /\ "FIN" \notin p.flags =>
                /\ state' = "est" /\ seqLocal' = seqLocal + p.len /\ ~closing'
                /\ UNCHANGED toClient
    <2>1. rcv <= seqLocal /\ Rising(toSend, rcv, seqLocal)
      BY <1>3 DEF Rising
    <2>2. PICK rest, moved, out : TakesAs(p, rest, moved, out)
      BY <1>2, <1>3, <2>1, TakeCalm
    <2> QED BY <1>2, <1>3, <2>2 DEF TakesAs
  <1>5. rcv' = rcv /\ got' = got /\ nxt' = nxt
    BY DEF client
  <1>6. seqRemote' = seqRemote + Fin(p)
    BY <1>2, <1>3 DEF EstTake, Fin
  <1>7. CASE Len(toServer) = 1
    <2>1. "FIN" \in p.flags /\ seqLocal' = seqLocal + 1 /\ state' = "ack_fin"
      BY <1>2, <1>3, <1>4, <1>7
    <2>2. seqRemote' = seqRemote + 1
      BY <1>6, <2>1 DEF Fin
    <2>3. toServer' = <<>>
      BY <1>7, StreamFacts, FirstOf
    <2>4. PICK e : /\ e = Packet({"ACK", "FIN"}, out.seq, seqRemote', out.from, out.len, 0, 0)
                   /\ toClient' = <<e>>
      <3>1. \A e : Append(<<>>, e) = <<e>>
        OBVIOUS
      <3> QED BY <1>3, <1>4, <2>1, <3>1 DEF Answer
    <2>5. e.flags = {"ACK", "FIN"} /\ e.seq = seqLocal /\ e.len = 0
      <3>1. p.opt = 0 /\ DataLen(p) = 0
        <4>1. p.opt = 0 /\ p.from \in Int
          BY <1>2 DEF Requests, Packets
        <4> QED BY <1>2, <4>1, NoOptionBytes
      <3>2. out.seq = seqLocal /\ out.len = 0
        BY <1>4, <3>1 DEF Payload, Segment
      <3> QED BY <2>4, <3>2 DEF Packet
    <2>6. Len(toClient') = 1 /\ toClient'[1] = e
      BY <2>4
    <2> QED BY <1>3, <1>5, <2>1, <2>3, <2>5, <2>6 DEF Closed
  <1>8. CASE Len(toServer) # 1
    <2>1. "FIN" \notin p.flags /\ Fin(p) = 0
      BY <1>2, <1>8 DEF Fin
    <2>2. /\ state' = "est" /\ ~closing' /\ seqLocal' = seqLocal /\ seqRemote' = seqRemote
          /\ toClient' = <<>> /\ toSend' = <<>>
      <3>1. state' = "est" /\ ~closing' /\ toClient' = <<>> /\ toSend' = <<>>
        BY <1>3, <1>4, <2>1
      <3>2. seqLocal' = seqLocal
        <4>1. seqLocal' = seqLocal + p.len
          BY <1>4, <2>1
        <4>2. seqLocal \in Nat /\ p.len = 0
          BY <1>2, StreamFacts
        <4> QED BY <4>1, <4>2
      <3>3. seqRemote' = seqRemote
        <4>1. seqRemote \in Nat /\ seqRemote' = seqRemote + Fin(p) /\ Fin(p) = 0
          BY <1>6, <2>1, StreamFacts
        <4> QED BY <4>1
      <3> QED BY <3>1, <3>2, <3>3
    <2>3. /\ Len(toServer') = Len(toServer) - 1
          /\ \A i \in 1..Len(toServer') : i + 1 \in 1..Len(toServer) /\ toServer'[i] = toServer[i + 1]
      <3>1. Numbered(toServer)
        BY StreamFacts
      <3> QED BY <3>1, FirstOf
    <2>4. toServer' # <<>>
      <3>1. Len(toServer') # 0
        BY <1>2, <1>8, <2>3
      <3> QED BY <3>1
    <2>5. ASSUME NEW i \in 1..Len(toServer')
          PROVE  /\ toServer'[i].flags = IF i = Len(toServer') THEN {"ACK", "FIN"} ELSE {"ACK"}
                 /\ toServer'[i].seq = seqRemote /\ toServer'[i].len = 0 /\ toServer'[i].win >= MSS
      <3>1. PICK z \in Nat : z = Len(toServer) /\ Len(toServer') = z - 1
        BY <1>2, <2>3
      <3>2. i = Len(toServer') <=> i + 1 = Len(toServer)
        BY <3>1
      <3>3. PICK k \in 1..Len(toServer) : k = i + 1 /\ toServer'[i] = toServer[k]
        BY <2>3
      <3> QED BY <3>2, <3>3 DEF Closing
    <2> QED BY <1>3, <1>5, <2>2, <2>4, <2>5 DEF Closing
  <1> QED BY <1>7, <1>8

LEMMA ServerCalm == ASSUME StreamInv, Phase, ServerPkt, ~resent' PROVE Phase'
  <1>1. PICK p : /\ toServer # <<>> /\ toServer' = Tail(toServer) /\ p = Head(toServer)
                 /\ UNCHANGED client /\ cstate' = cstate
                 /\ \/ SynAck(p) \/ SynAckRefuse(p) \/ EstRefuse(p) \/ EstUnexpected(p)
                    \/ EstTake(p) \/ AckFinRefuse(p) \/ AckFinLast(p) \/ AckFinWait(p)
    BY DEF ServerPkt, client
  <1>2. /\ p = toServer[1] /\ 1 \in 1..Len(toServer) /\ Len(toServer) \in Nat
        /\ Len(toServer) = 1 => toServer' = <<>>
    BY <1>1, StreamFacts, FirstOf
  <1>3. rcv' = rcv /\ got' = got /\ nxt' = nxt
    BY <1>1 DEF client
  <1>4. CASE cstate = "closed"
    BY <1>1, <1>4 DEF Phase
  <1>5. CASE cstate = "syn"
    <2>1. /\ state = "none" /\ toClient = <<>> /\ Len(toServer) = 1 /\ got = <<>> /\ nxt = 1
          /\ p.flags = {"SYN"} /\ p.seq = 0
      BY <1>1, <1>2, <1>5 DEF Phase, Opening
    <2>2. SynAck(p)
      BY <1>1, <2>1 DEF SynAckRefuse, EstRefuse, EstUnexpected, EstTake, AckFinRefuse,
                        AckFinLast, AckFinWait
    <2>3. /\ state' = "est" /\ closing' = FALSE /\ seqLocal' = 1 /\ toSend' = <<>>
          /\ Answer({"SYN", "ACK"}, 0, p.seq + 1, 0, 0)
      BY <2>2 DEF SynAck
    <2>4. PICK e : e = Packet({"SYN", "ACK"}, 0, 1, 0, 0, 0, 0) /\ toClient' = <<e>>
      <3>1. \A e : Append(<<>>, e) = <<e>>
        OBVIOUS
      <3>2. p.seq + 1 = 1
        BY <2>1
      <3> QED BY <2>1, <2>3, <3>1, <3>2 DEF Answer
    <2>5. /\ Len(toClient') = 1 /\ toClient'[1].flags = {"SYN", "ACK"}
          /\ toClient'[1].seq = 0 /\ toClient'[1].ack = 1
      BY <2>4 DEF Packet
    <2>6. ~closing'
      BY <2>3
    <2> QED BY <1>1, <1>2, <1>3, <1>5, <2>1, <2>3, <2>5, <2>6 DEF Phase, Opening
  <1>6. CASE cstate = "est"
    <2>1. Exchange
      BY <1>6 DEF Phase
    <2>2. state = "est" /\ p.flags = {"ACK"} /\ p.seq = seqRemote
      <3>1. state = "est" /\ p.flags = {"ACK"}
        BY <1>2, <2>1 DEF Exchange, Regular
      <3>2. toServer[1].seq = seqRemote
        BY <1>1, <2>1, StreamFacts, ChainTail DEF Exchange
      <3> QED BY <1>2, <3>1, <3>2
    <2>3. EstTake(p)
      BY <1>1, <2>2 DEF SynAck, SynAckRefuse, EstRefuse, EstUnexpected, AckFinRefuse,
                        AckFinLast, AckFinWait
    <2>4. Exchange'
      BY <1>1, <2>1, <2>3, ExchangeTake
    <2> QED BY <1>1, <1>6, <2>4 DEF Phase
  <1>7. CASE cstate = "fin" /\ Closing
    <2>1. /\ state = "est" /\ p.seq = seqRemote
          /\ "ACK" \in p.flags /\ "SYN" \notin p.flags /\ "RST" \notin p.flags
      BY <1>2, <1>7 DEF Closing
    <2>2. EstTake(p)
      BY <1>1, <2>1 DEF SynAck, SynAckRefuse, EstRefuse, EstUnexpected, AckFinRefuse,
                        AckFinLast, AckFinWait
    <2>3. (Closing \/ Closed)'
      BY <1>1, <1>7, <2>2, ClosingTake
    <2> QED BY <1>1, <1>7, <2>3 DEF Phase
  <1>8. CASE cstate = "fin" /\ Closed
    <2>1. /\ state = "ack_fin" /\ rcv = seqLocal /\ toClient = <<>> /\ nxt = seqLocal
          /\ Len(toServer) = 1 /\ p.flags = {"ACK"} /\ p.seq = seqRemote /\ p.ack = seqLocal
      BY <1>1, <1>2, <1>8 DEF Closed
    <2>2. AckFinGood(p)
      BY <2>1 DEF AckFinGood
    <2>3. AckFinWait(p)
      BY <1>1, <2>1, <2>2 DEF SynAck, SynAckRefuse, EstRefuse, EstUnexpected, EstTake,
                              AckFinRefuse, AckFinLast
    <2>4. toServer' = <<>> /\ toClient' = toClient /\ state' = state /\ seqLocal' = seqLocal
      BY <1>2, <2>1, <2>3 DEF AckFinWait, server
    <2>5. Closed'
      BY <1>3, <2>1, <2>4 DEF Closed
    <2> QED BY <1>1, <1>8, <2>5 DEF Phase
  <1> QED BY <1>4, <1>5, <1>6, <1>7, <1>8 DEF Phase

LEMMA IrregularCalm ==
  ASSUME Counters, NEW b, Irregular(b), faults' = 0
  PROVE  faults = 0 /\ ~b
  <1>1. CASE b
    BY <1>1 DEF Irregular, Counters
  <1>2. CASE ~b
    BY <1>2 DEF Irregular, Counters
  <1> QED BY <1>1, <1>2

\* A packet of the client goes behind those under way.
LEMMA ExchangeSend ==
  ASSUME StreamInv, Exchange, NEW len \in Nat, NEW win, win >= MSS,
         Send({"ACK"}, nxt, nxt, len, win), nxt' = nxt + len, seqRemote' = seqRemote
  PROVE  /\ \A i \in 1..Len(toServer') : toServer'[i].flags = {"ACK"} /\ toServer'[i].win >= MSS
         /\ Chain(toServer', seqRemote', nxt')
  <1>1. PICK e : /\ e = Packet({"ACK"}, nxt, rcv', nxt, len, win, 0)
                 /\ toServer' = Append(toServer, e)
    BY DEF Send, StreamInv, NoOptions
  <1>2. /\ toServer' = Append(toServer, e)
        /\ e.flags = {"ACK"} /\ e.seq = nxt /\ e.len = len /\ e.win = win
    BY <1>1 DEF Packet
  <1>3. /\ Len(toServer') = Len(toServer) + 1 /\ Len(toServer) \in Nat
        /\ \A i \in 1..Len(toServer) : toServer'[i] = toServer[i]
        /\ toServer'[Len(toServer) + 1] = e
    BY <1>2, StreamFacts, AppendIsSeq DEF Numbered, IsSeq
  <1>4. ASSUME NEW i \in 1..Len(toServer')
        PROVE  toServer'[i].flags = {"ACK"} /\ toServer'[i].win >= MSS
    <2>1. CASE i = Len(toServer) + 1
      BY <1>2, <1>3, <2>1
    <2>2. CASE i \in 1..Len(toServer)
      BY <1>3, <2>2 DEF Exchange, Regular
    <2> QED BY <1>3, <2>1, <2>2
  <1>5. Chain(Append(toServer, e), seqRemote, nxt + e.len)
    BY <1>2, StreamFacts, ChainAppend DEF Exchange
  <1> QED BY <1>2, <1>4, <1>5

LEMMA SendDataCalm ==
  ASSUME StreamInv, Exchange, SendData, faults' = 0
  PROVE  Exchange'
  <1>1. PICK len \in Sizes, win \in Windows :
          /\ nxt' = nxt + len /\ Announce(win) /\ rcv' = rcv
          /\ Send({"ACK"}, nxt, nxt, len, win)
    BY DEF SendData
  <1>2. /\ UNCHANGED <<state, closing, seqLocal, seqRemote, toSend, toClient, got>>
    BY DEF SendData, server
  <1>3. len \in Nat /\ win >= MSS
    <2>1. win \in Nat /\ ~(win < MSS)
      BY <1>1, IrregularCalm DEF Announce, StreamInv
    <2> QED BY <2>1
  <1>4. /\ \A i \in 1..Len(toServer') : toServer'[i].flags = {"ACK"} /\ toServer'[i].win >= MSS
        /\ Chain(toServer', seqRemote', nxt')
    BY <1>1, <1>2, <1>3, ExchangeSend
  <1>5. /\ Rising(toClient, rcv, seqLocal)' /\ Rising(toSend, rcv, seqLocal)'
        /\ Chain(toServer, seqRemote, nxt)'
    BY <1>1, <1>2, <1>4 DEF Exchange
  <1> QED BY <1>1, <1>2, <1>4, <1>5 DEF Exchange, Regular

\* The client has every byte it sent: no packet under way carries one, and what
\* was sent to it has arrived.
LEMMA CloseCalm ==
  ASSUME StreamInv, Exchange, Close, faults' = 0
  PROVE  Closing'
  <1>1. PICK win \in Windows :
          /\ Irregular(win < MSS \/ rcv # nxt) /\ Send({"ACK", "FIN"}, nxt, nxt, 0, win)
          /\ nxt' = nxt + 1 /\ rcv' = rcv
    BY DEF Close
  <1>2. UNCHANGED <<state, closing, seqLocal, seqRemote, toSend, toClient, got>>
    BY DEF Close, server
  <1>3. win >= MSS /\ rcv = nxt
    <2>1. win \in Nat /\ ~(win < MSS \/ rcv # nxt)
      BY <1>1, IrregularCalm DEF StreamInv
    <2> QED BY <2>1
  <1>4. /\ state = "est" /\ ~closing /\ rcv = Len(got) + 1 /\ rcv <= seqLocal
        /\ seqLocal \in Nat /\ seqRemote \in Nat /\ nxt \in Nat /\ seqRemote = seqLocal
    BY StreamFacts DEF Exchange
  <1>5. seqRemote <= nxt
    BY <1>4 DEF StreamInv, IInv, TakenWasSent
  <1>6. seqLocal = nxt /\ rcv = seqLocal
    BY <1>3, <1>4, <1>5
  <1>7. \A q : Numbered(q) /\ Rising(q, rcv, seqLocal) => Len(q) = 0
    <2> SUFFICES ASSUME NEW q, Numbered(q), Rising(q, rcv, seqLocal), Len(q) # 0 PROVE FALSE
      OBVIOUS
    <2>1. 1 \in 1..Len(q)
      BY DEF Numbered, IsSeq
    <2>2. rcv <= q[1].seq /\ q[1].seq < seqLocal /\ q[1].seq \in Nat
      BY <2>1 DEF Rising, Numbered
    <2> QED BY <1>4, <1>6, <2>2
  <1>8. toSend = <<>> /\ toClient = <<>>
    <2>1. Len(toSend) = 0 /\ Len(toClient) = 0
      BY <1>7, StreamFacts DEF Exchange
    <2> QED BY <2>1, StreamFacts, EmptySeq
  <1>9. PICK e : /\ e = Packet({"ACK", "FIN"}, nxt, rcv', nxt, 0, win, 0)
                 /\ toServer' = Append(toServer, e)
    BY <1>1 DEF Send, StreamInv, NoOptions
  <1>10. /\ toServer' = Append(toServer, e)
         /\ e.flags = {"ACK", "FIN"} /\ e.seq = nxt /\ e.len = 0 /\ e.win = win
    BY <1>9 DEF Packet
  <1>11. /\ Len(toServer') = Len(toServer) + 1 /\ Len(toServer) \in Nat
         /\ \A i \in 1..Len(toServer) : toServer'[i] = toServer[i]
         /\ toServer'[Len(toServer) + 1] = e
    BY <1>10, StreamFacts, AppendIsSeq DEF Numbered, IsSeq
  <1>12. ASSUME NEW i \in 1..Len(toServer')
         PROVE  /\ toServer'[i].flags = IF i = Len(toServer') THEN {"ACK", "FIN"} ELSE {"ACK"}
                /\ toServer'[i].seq = seqRemote /\ toServer'[i].len = 0 /\ toServer'[i].win >= MSS
    <2>1. CASE i = Len(toServer) + 1
      BY <1>3, <1>4, <1>6, <1>10, <1>11, <2>1
    <2>2. CASE i \in 1..Len(toServer)
      <3>1. toServer'[i] = toServer[i] /\ i # Len(toServer')
        BY <1>11, <2>2
      <3>2. toServer[i].flags = {"ACK"} /\ toServer[i].win >= MSS /\ seqRemote <= toServer[i].seq
        BY <2>2 DEF Exchange, Regular, Chain
      <3>3. Sound(toServer[i]) /\ Fin(toServer[i]) = 0
        BY <2>2, <3>2, StreamFacts DEF Fin
      <3>4. toServer[i].seq = seqRemote /\ toServer[i].len = 0
        BY <1>4, <1>6, <3>2, <3>3 DEF Sound
      <3> QED BY <3>1, <3>2, <3>4
    <2> QED BY <1>11, <2>1, <2>2
  <1>13. toServer' # <<>>
    BY <1>11
  <1> QED BY <1>1, <1>2, <1>4, <1>6, <1>8, <1>12, <1>13 DEF Closing

\* What arrives is the next part of the stream, and only that is acknowledged.
LEMMA ReceiveCalm ==
  ASSUME StreamInv, Exchange, toClient # <<>>, toClient' = Tail(toClient),
         Receive(Head(toClient)), UNCHANGED <<server, nxt>>, faults' = 0
  PROVE  Exchange'
  <1>1. PICK p : p = Head(toClient)
    OBVIOUS
  <1>2. /\ p = toClient[1] /\ p.flags = {"ACK"} /\ p.seq \in Nat /\ p.len \in Nat
        /\ rcv <= p.seq /\ p.seq < seqLocal /\ p.seq + p.len <= seqLocal
        /\ 1 \in 1..Len(toClient)
    <2>1. Head(toClient) = toClient[1] /\ 1 \in 1..Len(toClient)
      BY StreamFacts, FirstOf
    <2> QED BY <1>1, <2>1, StreamFacts DEF Exchange, Rising, Numbered
  <1>3. /\ rcv \in Nat /\ nxt \in Nat /\ seqLocal \in Nat /\ rcv = Len(got) + 1
        /\ got \in Seq(Nat) /\ Len(got) \in Nat
    BY StreamFacts DEF Exchange
  <1> DEFINE fresh == IF ~Over /\ p.seq <= rcv /\ rcv < p.seq + p.len
                      THEN p.seq + p.len - rcv ELSE 0
             E(i) == p.from + (rcv - p.seq) + i - 1
  <1>4. PICK n, f : /\ n = fresh /\ f = [i \in 1..n |-> E(i)]
                    /\ rcv' = rcv + n /\ got' = got \o f /\ n \in Nat /\ rcv + n <= p.seq + p.len
    <2>1. PICK n, f : n = fresh /\ f = [i \in 1..n |-> E(i)]
      OBVIOUS
    <2>2. n \in Nat /\ rcv + n <= p.seq + p.len
      BY <1>2, <1>3, <2>1
    <2>3. /\ got' = got \o f
          /\ rcv' = rcv + n + (IF ~Over /\ "FIN" \in p.flags /\ p.seq + p.len = rcv + n
                               THEN 1 ELSE 0)
      BY <1>1, <2>1 DEF Receive
    <2>4. rcv' = rcv + n
      <3>1. "FIN" \notin p.flags
        BY <1>2
      <3>2. rcv' = rcv + n + 0
        BY <2>3, <3>1
      <3> QED BY <1>3, <2>2, <3>2
    <2> HIDE DEF fresh, E
    <2> QED BY <2>1, <2>2, <2>3, <2>4, Zenon
  <1>5. rcv' \in Nat /\ rcv' <= p.seq + p.len /\ rcv' <= seqLocal
    <2> HIDE DEF fresh, E
    <2>1. PICK x \in Nat : x = p.seq + p.len /\ x <= seqLocal
      BY <1>2
    <2>2. rcv' = rcv + n /\ n \in Nat /\ rcv + n <= x
      BY <1>4, <2>1
    <2> QED BY <1>3, <2>1, <2>2
  <1>6. rcv' = Len(got') + 1
    <2>1. p \in Answers /\ p.from \in Int
      <3>1. p \in Answers
        BY <1>2, StreamFacts, ElementOfSeq
      <3> QED BY <3>1 DEF Answers, Packets
    <2>2. \A i \in 1..n : E(i) \in Int
      <3>1. n \in Nat /\ p.seq \in Nat
        BY <1>2, <1>4
      <3> QED BY <1>3, <2>1, <3>1
    <2> HIDE DEF E, fresh
    <2>3. f \in Seq(Int) /\ Len(f) = n
      BY <1>4, <2>2
    <2>5. got \in Seq(Int)
      BY <1>3, SeqMonotonic
    <2>6. Len(got') = Len(got) + n
      BY <1>4, <2>3, <2>5, ConcatProperties
    <2> QED BY <1>3, <1>4, <2>6
  <1>7. UNCHANGED <<state, closing, seqLocal, seqRemote, toSend, nxt>>
    BY DEF server
  <1>8. Rising(toClient', rcv', seqLocal')
    <2>1. Rising(Tail(toClient), rcv', seqLocal)
      BY <1>2, <1>3, <1>5, StreamFacts, RisingTail DEF Exchange
    <2> QED BY <1>7, <2>1
  <1>9. Rising(toSend', rcv', seqLocal')
    <2>1. ASSUME NEW j \in 1..Len(toSend) PROVE rcv' <= toSend[j].seq
      <3>1. p.seq + p.len <= toSend[j].seq
        BY <1>2 DEF Exchange
      <3>2. toSend[j].seq \in Nat
        BY StreamFacts DEF Numbered
      <3>3. PICK x, y : x = p.seq + p.len /\ y = toSend[j].seq
        OBVIOUS
      <3>4. x \in Nat /\ y \in Nat /\ rcv' <= x /\ x <= y
        BY <1>2, <1>5, <3>1, <3>2, <3>3
      <3> QED BY <1>5, <3>3, <3>4
    <2>2. Rising(toSend, rcv', seqLocal)
      BY <2>1 DEF Exchange, Rising
    <2> QED BY <1>7, <2>2
  <1>10. /\ \A i \in 1..Len(toClient') : toClient'[i].flags = {"ACK"}
         /\ \A i \in 1..Len(toClient'), j \in 1..Len(toSend) :
              toClient'[i].seq + toClient'[i].len <= toSend[j].seq
    <2>1. \A i \in 1..Len(toClient') : i + 1 \in 1..Len(toClient) /\ toClient'[i] = toClient[i + 1]
      BY StreamFacts, FirstOf
    <2> QED BY <2>1 DEF Exchange
  <1>11. /\ \A i \in 1..Len(toServer') : toServer'[i].flags = {"ACK"} /\ toServer'[i].win >= MSS
         /\ Chain(toServer', seqRemote', nxt')
    <2>1. \/ toServer' = toServer
          \/ \E win \in Windows : Announce(win) /\ Send({"ACK"}, nxt, nxt, 0, win)
      BY DEF Receive
    <2>2. CASE toServer' = toServer
      BY <1>7, <2>2 DEF Exchange, Regular
    <2>3. ASSUME NEW win \in Windows, Announce(win), Send({"ACK"}, nxt, nxt, 0, win)
          PROVE  /\ \A i \in 1..Len(toServer') :
                      toServer'[i].flags = {"ACK"} /\ toServer'[i].win >= MSS
                 /\ Chain(toServer', seqRemote', nxt')
      <3>1. win \in Nat /\ ~(win < MSS)
        BY <2>3, IrregularCalm DEF Announce, StreamInv
      <3>2. win >= MSS /\ nxt' = nxt + 0 /\ seqRemote' = seqRemote
        BY <1>3, <1>7, <3>1
      <3> QED BY <2>3, <3>2, ExchangeSend
    <2> QED BY <2>1, <2>2, <2>3
  <1>12. /\ Rising(toClient, rcv, seqLocal)' /\ Rising(toSend, rcv, seqLocal)'
         /\ Chain(toServer, seqRemote, nxt)'
    BY <1>8, <1>9, <1>11
  <1> QED BY <1>5, <1>6, <1>7, <1>10, <1>11, <1>12 DEF Exchange, Regular

LEMMA ConnectCalm ==
  ASSUME StreamInv, Phase, Connect
  PROVE  Phase'
  <1>1. /\ cstate = "closed" /\ cstate' = "syn" /\ nxt' = 1
        /\ UNCHANGED <<state, toClient, got>>
    BY DEF Connect, server
  <1>2. state = "none" /\ toServer = <<>> /\ toClient = <<>> /\ got = <<>>
    BY <1>1 DEF Phase
  <1>3. PICK e : e.flags = {"SYN"} /\ e.seq = 0 /\ toServer' = <<e>>
    <2>1. PICK win \in Windows : Send({"SYN"}, 0, 0, 0, win)
      BY DEF Connect
    <2>2. PICK e : /\ e = Packet({"SYN"}, 0, rcv', 0, 0, win, 0)
                   /\ toServer' = Append(toServer, e)
      BY <2>1 DEF Send, StreamInv, NoOptions
    <2>3. e.flags = {"SYN"} /\ e.seq = 0
      BY <2>2 DEF Packet
    <2>4. toServer' = Append(<<>>, e)
      BY <1>2, <2>2
    <2> QED BY <2>3, <2>4
  <1>4. Len(toServer') = 1 /\ toServer'[1] = e
    BY <1>3
  <1> QED BY <1>1, <1>2, <1>3, <1>4 DEF Phase, Opening

LEMMA SynAckCalm ==
  ASSUME StreamInv, Opening, toClient # <<>>, toClient' = Tail(toClient),
         ReceiveSynAck(Head(toClient)), UNCHANGED <<server, nxt>>, faults' = 0
  PROVE  Exchange'
  <1>1. /\ state = "est" /\ ~closing /\ seqLocal = 1 /\ nxt = 1 /\ got = <<>>
        /\ toSend = <<>> /\ toServer = <<>> /\ Len(toClient) = 1 /\ toClient[1].seq = 0
    BY DEF Opening
  <1>2. UNCHANGED <<state, closing, seqLocal, seqRemote, toSend, nxt, got>> /\ seqRemote = 1
    BY <1>1, StreamFacts DEF server, ReceiveSynAck
  <1>3. Head(toClient) = toClient[1] /\ toClient' = <<>>
    BY <1>1, StreamFacts, FirstOf
  <1>4. PICK win \in Windows :
          rcv' = 1 /\ Announce(win) /\ Send({"ACK"}, nxt, nxt, 0, win)
    <2>1. Head(toClient).seq + 1 = 1
      BY <1>1, <1>3
    <2> QED BY <2>1 DEF ReceiveSynAck
  <1>5. win >= MSS
    <2>1. win \in Nat /\ ~(win < MSS)
      BY <1>4, IrregularCalm DEF Announce, StreamInv
    <2> QED BY <2>1
  <1>6. PICK e : /\ e = Packet({"ACK"}, nxt, rcv', nxt, 0, win, 0)
                 /\ toServer' = Append(toServer, e)
    BY <1>4 DEF Send, StreamInv, NoOptions
  <1>7. e.flags = {"ACK"} /\ e.seq = 1 /\ e.len = 0 /\ e.win = win /\ toServer' = <<e>>
    <2>1. toServer' = Append(<<>>, e)
      BY <1>1, <1>6
    <2> QED BY <1>1, <1>6, <2>1 DEF Packet
  <1>8. Len(toServer') = 1 /\ toServer'[1] = e /\ toServer' # <<>>
    BY <1>7
  <1>9. \A i \in 1..Len(toServer') : i = 1 /\ toServer'[i] = e
    BY <1>8
  <1>10. Chain(toServer', seqRemote', nxt')
    BY <1>1, <1>2, <1>7, <1>8, <1>9 DEF Chain
  <1>11. /\ Rising(toClient', rcv', seqLocal') /\ Rising(toSend', rcv', seqLocal')
         /\ \A i \in 1..Len(toClient') : toClient'[i].flags = {"ACK"}
         /\ \A i \in 1..Len(toClient'), j \in 1..Len(toSend') :
              toClient'[i].seq + toClient'[i].len <= toSend'[j].seq
    <2>1. toClient' = <<>> /\ toSend' = <<>> /\ 1..Len(<<>>) = {}
      BY <1>1, <1>2, <1>3
    <2>2. \A lo, hi : Rising(<<>>, lo, hi)
      BY <2>1, Zenon DEF Rising
    <2> QED BY <2>1, <2>2, Zenon
  <1>12. rcv' = Len(got') + 1 /\ rcv' <= seqLocal'
    BY <1>1, <1>2, <1>4
  <1>13. \A i \in 1..Len(toServer') : toServer'[i].flags = {"ACK"} /\ toServer'[i].win >= MSS
    BY <1>5, <1>7, <1>9
  <1>14. /\ Rising(toClient, rcv, seqLocal)' /\ Rising(toSend, rcv, seqLocal)'
         /\ Chain(toServer, seqRemote, nxt)'
    BY <1>10, <1>11
  <1> QED BY <1>1, <1>2, <1>11, <1>12, <1>13, <1>14 DEF Exchange, Regular

LEMMA LastAckCalm ==
  ASSUME StreamInv, Closed, toClient # <<>>, toClient' = Tail(toClient),
         Receive(Head(toClient)), UNCHANGED <<server, nxt>>
  PROVE  Closed'
  <1>1. PICK p : p = Head(toClient)
    OBVIOUS
  <1>2. /\ state = "ack_fin" /\ nxt = seqLocal /\ rcv = Len(got) + 1 /\ rcv + 1 = seqLocal
        /\ toServer = <<>> /\ toClient' = <<>> /\ p.flags = {"ACK", "FIN"}
        /\ p.seq = rcv /\ p.len = 0 /\ seqRemote = seqLocal /\ rcv \in Nat /\ nxt \in Nat
        /\ Len(got) \in Nat
    BY <1>1, StreamFacts, FirstOf DEF Closed
  <1>3. UNCHANGED <<state, seqLocal, seqRemote, nxt>>
    BY DEF server
  <1>4. rcv' = seqLocal
    <2>1. ~Over
      BY <1>2 DEF Over
    <2>2. ~(rcv < p.seq + p.len) /\ p.seq + p.len = rcv + 0
      BY <1>2
    <2>3. rcv' = rcv + 0 + 1
      BY <1>1, <1>2, <2>1, <2>2 DEF Receive
    <2> QED BY <1>2, <2>3
  <1>5. PICK win : Send({"ACK"}, nxt, nxt, 0, win)
    BY <1>1, <1>2 DEF Receive
  <1>6. PICK e : /\ e = Packet({"ACK"}, nxt, rcv', nxt, 0, win, 0)
                 /\ toServer' = Append(toServer, e)
    BY <1>5 DEF Send, StreamInv, NoOptions
  <1>7. toServer' = <<e>> /\ e.flags = {"ACK"} /\ e.seq = nxt /\ e.ack = rcv' /\ e.len = 0
    <2>1. toServer' = <<e>>
      <3>1. toServer = <<>> /\ Append(<<>>, e) = <<e>>
        BY <1>2
      <3> QED BY <1>6, <3>1
    <2>2. e.flags = {"ACK"} /\ e.seq = nxt /\ e.ack = rcv' /\ e.len = 0
      BY <1>6 DEF Packet
    <2> QED BY <2>1, <2>2
  <1>8. Len(toServer') = 1 /\ toServer'[1] = e
    BY <1>7
  <1> QED BY <1>2, <1>3, <1>4, <1>7, <1>8 DEF Closed

LEMMA ClientCalm == ASSUME StreamInv, Phase, ClientPkt, faults' = 0 PROVE Phase'
  <1>1. /\ toClient # <<>> /\ toClient' = Tail(toClient) /\ UNCHANGED <<server, nxt>>
        /\ \/ ReceiveSynAck(Head(toClient)) \/ Receive(Head(toClient))
           \/ ReceiveRst(Head(toClient)) \/ Ignore(Head(toClient))
    BY DEF ClientPkt
  <1>2. Head(toClient) = toClient[1] /\ 1 \in 1..Len(toClient)
    BY <1>1, StreamFacts, FirstOf
  <1>3. CASE cstate = "closed"
    BY <1>1, <1>3 DEF Phase
  <1>4. CASE cstate = "syn"
    <2>1. /\ Opening /\ toClient[1].flags = {"SYN", "ACK"} /\ toClient[1].ack = 1
      BY <1>1, <1>4 DEF Phase, Opening
    <2>2. ReceiveSynAck(Head(toClient))
      BY <1>1, <1>2, <1>4, <2>1 DEF Receive, ReceiveRst, Ignore
    <2>3. Exchange'
      BY <1>1, <2>1, <2>2, SynAckCalm
    <2> QED BY <2>2, <2>3 DEF Phase, ReceiveSynAck
  <1>5. CASE cstate = "est"
    <2>1. Exchange /\ toClient[1].flags = {"ACK"}
      BY <1>2, <1>5 DEF Phase, Exchange
    <2>2. Receive(Head(toClient))
      BY <1>1, <1>2, <1>5, <2>1 DEF ReceiveSynAck, ReceiveRst, Ignore
    <2>3. Exchange'
      BY <1>1, <2>1, <2>2, ReceiveCalm
    <2> QED BY <1>5, <2>2, <2>3 DEF Phase, Receive
  <1>6. CASE cstate = "fin"
    <2>1. Closed /\ toClient[1].flags = {"ACK", "FIN"}
      BY <1>1, <1>6 DEF Phase, Closing, Closed
    <2>2. Receive(Head(toClient))
      BY <1>1, <1>2, <1>6, <2>1 DEF ReceiveSynAck, ReceiveRst, Ignore
    <2>3. Closed'
      BY <1>1, <2>1, <2>2, LastAckCalm
    <2> QED BY <1>6, <2>2, <2>3 DEF Phase, Receive
  <1> QED BY <1>3, <1>4, <1>5, <1>6 DEF Phase

LEMMA CalmKept == ASSUME StreamInv, CalmInv, [Next]_vars PROVE CalmInv'
  <1> SUFFICES ASSUME faults' = 0, ~resent' PROVE Phase'
    BY DEF CalmInv, calm
  <1> USE DEF StreamInv
  <1>1. faults \in 0..MaxFaults /\ resent \in BOOLEAN
    BY DEF Counters
  <1>2. CASE ServerPkt
    <2>1. faults = 0
      BY <1>2 DEF ServerPkt
    <2>2. ~resent
      BY <1>1, <1>2, Zenon DEF ServerPkt, SynAck, SynAckRefuse, EstRefuse, EstUnexpected, EstTake,
              AckFinRefuse, AckFinLast, AckFinWait, CountAck, End, server, control
    <2> QED BY <1>2, <2>1, <2>2, ServerCalm DEF CalmInv, calm
  <1>3. CASE Connect
    <2>1. faults = 0 /\ ~resent
      BY <1>3, IrregularCalm DEF Connect, Announce, server, control
    <2> QED BY <1>3, <2>1, ConnectCalm DEF CalmInv, calm
  <1>4. CASE SendData
    <2>1. faults = 0 /\ ~resent /\ cstate = "est" /\ cstate' = "est"
      BY <1>4, IrregularCalm DEF SendData, Announce, server, control
    <2>2. Exchange
      BY <2>1 DEF CalmInv, calm, Phase
    <2> QED BY <1>4, <2>1, <2>2, SendDataCalm DEF Phase
  <1>5. CASE Close
    <2>1. faults = 0 /\ ~resent /\ cstate = "est" /\ cstate' = "fin"
      BY <1>5, IrregularCalm DEF Close, server, control
    <2>2. Exchange
      BY <2>1 DEF CalmInv, calm, Phase
    <2> QED BY <1>5, <2>1, <2>2, CloseCalm DEF Phase
  <1>6. CASE ClientPkt
    <2>1. ~resent
      BY <1>6 DEF ClientPkt, server, control
    <2>2. faults = 0
      <3>1. \/ UNCHANGED faults
            \/ \E win \in Windows : Announce(win)
        BY <1>6 DEF ClientPkt, ReceiveSynAck, Receive, ReceiveRst, Ignore
      <3> QED BY <3>1, IrregularCalm DEF Announce
    <2> QED BY <1>6, <2>1, <2>2, ClientCalm DEF CalmInv, calm
  <1>7. CASE Fault
    <2>1. Irregular(TRUE)
      BY <1>7 DEF Fault
    <2> QED BY <2>1, IrregularCalm
  <1>8. CASE UNCHANGED vars
    BY <1>8 DEF vars, server, client, control, CalmInv, calm, Phase, Opening, Exchange, Closing,
                Closed, Regular, Rising, Chain
  <1> QED BY <1>2, <1>3, <1>4, <1>5, <1>6, <1>7, <1>8 DEF Next

LEMMA CalmInvariant == ASSUME NoOptions PROVE Spec => []CalmInv
  <1>1. Init => CalmInv
    BY DEF Init, CalmInv, Phase
  <1>2. StreamInv /\ CalmInv /\ [Next]_vars => CalmInv'
    BY CalmKept
  <1> QED BY <1>1, <1>2, StreamInvariant, PTL DEF Spec

-----------------------------------------------------------------------------
(* Where the bytes are.  When no segment is split, every byte the client    *)
(* has not got is in one segment, as acknowledgements let go only of what   *)
(* the client has and the loop of runEst only moves segments.  That a wide  *)
(* window splits none needs the sum of a queue, and so an induction; a set  *)
(* of numbers takes the place of the predicate.                             *)

\* A set with 0 and the successor of each of its numbers has them all.
LEMMA SetInduction ==
  ASSUME NEW T, 0 \in T, \A n \in Nat : n \in T => n + 1 \in T
  PROVE  \A n \in Nat : n \in T
  <1> DEFINE M == {n \in Nat : n \notin T}
             Less == OpToRel(<, Nat)
  <1> SUFFICES ASSUME M # {} PROVE FALSE
    OBVIOUS
  <1>1. IsWellFoundedOn(Less, Nat)
    BY NatLessThanWellFounded
  <1>2. M \subseteq Nat
    OBVIOUS
  <1>3. PICK x \in M : \A y \in M : ~(<<y, x>> \in Less)
    <2> HIDE DEF Less, M
    <2> QED BY <1>1, <1>2, WFMin
  <1>4. x # 0 /\ x - 1 \in Nat /\ x \in Nat /\ x \notin T
    OBVIOUS
  <1>5. x - 1 \notin M
    <2>1. <<x - 1, x>> \in Less
      BY <1>4 DEF OpToRel
    <2> QED BY <1>3, <2>1
  <1>6. x - 1 \in T
    BY <1>4, <1>5
  <1>7. (x - 1) + 1 \in T /\ (x - 1) + 1 = x
    BY <1>4, <1>6
  <1> QED BY <1>4, <1>7

\* What Bytes chooses exists.
LEMMA BytesDefined ==
  ASSUME NEW q, Len(q) \in Nat
  PROVE  Bytes(q) = [n \in 0..Len(q) |-> IF n = 0 THEN 0 ELSE Bytes(q)[n - 1] + q[n].len]
  <1> DEFINE Rec(f, m) == [n \in 0..m |-> IF n = 0 THEN 0 ELSE f[n - 1] + q[n].len]
             T == {m \in Nat : \E f : f = Rec(f, m)}
  <1>1. 0 \in T
    <2>1. PICK f : f = [n \in 0..0 |-> 0]
      OBVIOUS
    <2>2. f = Rec(f, 0)
      BY <2>1
    <2> QED BY <2>2
  <1>2. ASSUME NEW m \in Nat, m \in T PROVE m + 1 \in T
    <2>1. PICK f : f = Rec(f, m)
      BY <1>2
    <2>2. PICK g : g = [n \in 0..(m + 1) |-> IF n <= m THEN f[n] ELSE f[m] + q[m + 1].len]
      OBVIOUS
    <2>3. ASSUME NEW n \in 0..(m + 1)
          PROVE  g[n] = IF n = 0 THEN 0 ELSE g[n - 1] + q[n].len
      <3>1. CASE n = 0
        <4>1. f[0] = 0 /\ g[0] = f[0]
          BY <2>1, <2>2
        <4> QED BY <3>1, <4>1
      <3>2. CASE n # 0 /\ n <= m
        <4>1. n \in 0..m /\ n - 1 \in 0..m /\ n - 1 <= m /\ n - 1 \in 0..(m + 1)
          BY <3>2
        <4>2. f[n] = f[n - 1] + q[n].len
          BY <2>1, <3>2, <4>1
        <4>3. g[n] = f[n] /\ g[n - 1] = f[n - 1]
          BY <2>2, <3>2, <4>1
        <4> QED BY <3>2, <4>2, <4>3
      <3>3. CASE n = m + 1
        <4>1. ~(n <= m) /\ n # 0 /\ n - 1 = m /\ m \in 0..(m + 1)
          BY <3>3
        <4>2. g[n] = f[m] + q[m + 1].len /\ g[m] = f[m]
          BY <2>2, <4>1
        <4> QED BY <3>3, <4>1, <4>2
      <3> QED BY <3>1, <3>2, <3>3
    <2>4. g = Rec(g, m + 1)
      BY <2>2, <2>3
    <2> QED BY <2>4
  <1> HIDE DEF T
  <1>3. Len(q) \in T
    BY <1>1, <1>2, SetInduction
  <1>4. \E f : f = Rec(f, Len(q))
    BY <1>3 DEF T
  <1>5. Bytes(q) = CHOOSE f : f = Rec(f, Len(q))
    BY DEF Bytes
  <1> HIDE DEF Rec
  <1>6. Bytes(q) = Rec(Bytes(q), Len(q))
    BY <1>4, <1>5, Zenon
  <1> QED BY <1>6 DEF Rec

\* Bytes adds the lengths up.
LEMMA BytesAdds ==
  ASSUME NEW q, Len(q) \in Nat
  PROVE  /\ Bytes(q)[0] = 0
         /\ \A n \in Nat : n < Len(q) => Bytes(q)[n + 1] = Bytes(q)[n] + q[n + 1].len
  <1>1. PICK b : b = Bytes(q)
    OBVIOUS
  <1>2. b = [n \in 0..Len(q) |-> IF n = 0 THEN 0 ELSE b[n - 1] + q[n].len]
    BY <1>1, BytesDefined, Zenon
  <1>3. b[0] = 0
    <2>1. 0 \in 0..Len(q)
      OBVIOUS
    <2> QED BY <1>2, <2>1
  <1>4. ASSUME NEW n \in Nat, n < Len(q) PROVE b[n + 1] = b[n] + q[n + 1].len
    <2>1. PICK m : m = n + 1
      OBVIOUS
    <2>2. m \in 0..Len(q) /\ m # 0 /\ m - 1 = n
      BY <1>4, <2>1
    <2>3. b[m] = b[m - 1] + q[m].len
      BY <1>2, <2>2
    <2> QED BY <2>1, <2>2, <2>3
  <1> QED BY <1>1, <1>3, <1>4

-----------------------------------------------------------------------------

\* The segment s holds the byte with number k.
Holds(s, k) == s.seq > 0 /\ s.seq <= k /\ k < s.seq + s.len

Somewhere(q, k) == \E i \in 1..Len(q) : Holds(q[i], k)

\* No byte is in two segments of q.
Single(q) ==
    \A k \in Nat, i, j \in 1..Len(q) : Holds(q[i], k) /\ Holds(q[j], k) => i = j

Apart(q, r) == \A k \in Nat : ~(Somewhere(q, k) /\ Somewhere(r, k))

\* Segments of the stream before a number; the SYN's is none.
Old(end) ==
    {s \in InOrder : s.seq > 0 => s.seq + s.len <= end /\ s.seq + s.len <= MaxData + 1}

Waiting(end) == {s \in Old(end) : s.seq > 0}

\* A window is closed or has room for all the client sends.
WideWindows == \A win \in Windows : win = 0 \/ win >= MaxData

LEMMA BytesFit ==
  ASSUME NEW end, NEW q \in Seq(Waiting(end)), Single(q)
  PROVE  \A n \in Nat : n <= Len(q) => Bytes(q)[n] \in 0..MaxData
  <1> DEFINE In(n) == {k \in 1..MaxData : \E i \in 1..n : Holds(q[i], k)}
             Counted(n) == n <= Len(q) => Bytes(q)[n] = Cardinality(In(n))
             T == {n \in Nat : Counted(n)}
  <1>1. Len(q) \in Nat /\ \A i \in 1..Len(q) : q[i] \in Waiting(end)
    BY LenProperties, ElementOfSeq
  <1>2. \A i \in 1..Len(q) : /\ q[i].seq \in Nat /\ q[i].seq > 0 /\ q[i].len \in Nat
                             /\ q[i].seq + q[i].len <= MaxData + 1
    BY <1>1 DEF Waiting, Old, InOrder, Segments
  <1>3. PICK b : b = Bytes(q)
    OBVIOUS
  <1>4. b[0] = 0 /\ \A n \in Nat : n < Len(q) => b[n + 1] = b[n] + q[n + 1].len
    BY <1>1, <1>3, BytesAdds, Zenon
  <1>5. IsFiniteSet(1..MaxData) /\ Cardinality(1..MaxData) = MaxData
    BY FS_Interval
  <1>6. \A n \in Nat : /\ IsFiniteSet(In(n)) /\ Cardinality(In(n)) \in Nat
                       /\ Cardinality(In(n)) \in 0..MaxData
    <2> TAKE n \in Nat
    <2>1. In(n) \in SUBSET (1..MaxData)
      OBVIOUS
    <2> HIDE DEF In
    <2> QED BY <1>5, <2>1, FS_Subset, FS_CardinalityType
  <1>7. Counted(0)
    <2>1. In(0) = {}
      OBVIOUS
    <2> HIDE DEF In
    <2> QED BY <1>3, <1>4, <2>1, FS_EmptySet
  <1>8. ASSUME NEW n \in Nat, Counted(n) PROVE Counted(n + 1)
    <2> SUFFICES ASSUME n + 1 <= Len(q) PROVE b[n + 1] = Cardinality(In(n + 1))
      BY <1>3
    <2>1. PICK m : m = n + 1
      OBVIOUS
    <2>2. m \in 1..Len(q) /\ n < Len(q) /\ n <= Len(q)
      BY <1>1, <2>1
    <2>3. PICK s, S : s = q[m] /\ S = s.seq..(s.seq + s.len - 1)
      OBVIOUS
    <2>4. /\ s.seq \in Nat /\ s.seq > 0 /\ s.len \in Nat /\ s.seq + s.len <= MaxData + 1
          /\ b[m] = b[n] + s.len
      BY <1>2, <1>4, <2>1, <2>2, <2>3
    <2>5. IsFiniteSet(S) /\ Cardinality(S) = s.len
      <3>1. s.seq \in Int /\ s.seq + s.len - 1 \in Int
        BY <2>4
      <3>2. IsFiniteSet(S) /\ Cardinality(S) = IF s.seq > s.seq + s.len - 1 THEN 0
                                               ELSE (s.seq + s.len - 1) - s.seq + 1
        BY <2>3, <3>1, FS_Interval
      <3> QED BY <2>4, <3>2
    <2>6. \A k \in Nat : k \in S <=> Holds(s, k)
      BY <2>3, <2>4 DEF Holds
    <2>7. S \in SUBSET (1..MaxData)
      BY <2>3, <2>4
    <2>8. In(m) = In(n) \cup S
      <3>1. \A i : i \in 1..m <=> i \in 1..n \/ i = m
        BY <2>1
      <3>2. \A k \in 1..MaxData : k \in In(m) <=> k \in In(n) \/ Holds(s, k)
        BY <2>3, <3>1, Zenon
      <3>3. \A k \in 1..MaxData : k \in Nat
        OBVIOUS
      <3>4. In(m) \in SUBSET (1..MaxData) /\ In(n) \in SUBSET (1..MaxData)
        OBVIOUS
      <3> HIDE DEF In
      <3> QED BY <2>6, <2>7, <3>2, <3>3, <3>4
    <2>9. In(n) \cap S = {}
      <3> SUFFICES ASSUME NEW k \in 1..MaxData, k \in In(n), k \in S PROVE FALSE
        OBVIOUS
      <3>1. PICK i \in 1..n : Holds(q[i], k)
        OBVIOUS
      <3>2. k \in Nat /\ Holds(q[m], k)
        BY <2>3, <2>6
      <3>3. i \in 1..Len(q) /\ i # m
        BY <2>1, <2>2
      <3> QED BY <2>2, <3>1, <3>2, <3>3 DEF Single
    <2> HIDE DEF In
    <2>10. b[n] = Cardinality(In(n))
      BY <1>3, <1>8, <2>2
    <2>11. Cardinality(In(m)) = Cardinality(In(n)) + s.len
      <3>1. IsFiniteSet(In(n)) /\ Cardinality(In(n)) \in Nat
        BY <1>6, Zenon
      <3>2. Cardinality(In(n) \cup S)
              = Cardinality(In(n)) + Cardinality(S) - Cardinality(In(n) \cap S)
        BY <2>5, <3>1, FS_Union
      <3>3. Cardinality(In(n) \cap S) = 0
        BY <2>9, FS_EmptySet
      <3> QED BY <2>4, <2>5, <2>8, <3>1, <3>2, <3>3
    <2> QED BY <2>1, <2>4, <2>10, <2>11
  <1>9. \A n \in Nat : Counted(n)
    <2> HIDE DEF Counted
    <2>1. 0 \in T /\ \A n \in Nat : n \in T => n + 1 \in T
      BY <1>7, <1>8
    <2> HIDE DEF T
    <2>2. \A n \in Nat : n \in T
      BY <2>1, SetInduction
    <2> QED BY <2>2 DEF T
  <1> HIDE DEF In
  <1> QED BY <1>6, <1>9

\* In such a window the loop of runEst sends every segment whole.
LEMMA LoopWhole ==
  ASSUME WideWindows, NEW end, NEW q \in Seq(Waiting(end)), Single(q), NEW win \in Windows,
         NEW n \in 0..Len(q), NEW room \in 0..win, Whole(q, n, room, win)
  PROVE  Loop(q, n, room) = [rest |-> SubSeq(q, n + 1, Len(q)), moved |-> SubSeq(q, 1, n)]
  <1>1. Len(q) \in Nat /\ n \in Nat /\ n <= Len(q) /\ win \in Nat /\ room \in Nat
    BY LenProperties
  <1>2. PICK b : b = Bytes(q)
    OBVIOUS
  <1>3. /\ b[0] = 0
        /\ \A i \in Nat : i < Len(q) => b[i + 1] = b[i] + q[i + 1].len
        /\ \A i \in Nat : i <= Len(q) => b[i] \in 0..MaxData
    BY <1>1, <1>2, BytesAdds, BytesFit
  <1>4. /\ IF n = 0 THEN room = win ELSE b[n - 1] < win /\ b[n] + room = win
        /\ n < Len(q) => room = 0 \/ q[n + 1].len > room
    BY <1>2 DEF Whole
  <1>5. n = Len(q) \/ room = 0
    <2> SUFFICES ASSUME n < Len(q), room > 0 PROVE FALSE
      BY <1>1
    <2>1. win >= MaxData
      BY <1>1, <1>4 DEF WideWindows
    <2>2. PICK len : len = q[n + 1].len
      OBVIOUS
    <2>3. b[n] \in 0..MaxData /\ b[n + 1] = b[n] + len /\ b[n + 1] \in 0..MaxData /\ len > room
      <3>1. n + 1 \in Nat /\ n + 1 <= Len(q)
        BY <1>1
      <3> QED BY <1>1, <1>3, <1>4, <2>2, <3>1
    <2>4. b[n] + room = win
      BY <1>1, <1>3, <1>4
    <2>5. PICK x, y : x = b[n] /\ y = b[n + 1]
      OBVIOUS
    <2>6. len = y - x \/ len \notin Int
      BY <2>3, <2>5
    <2>7. q[n + 1].len \in Nat
      <3>1. n + 1 \in 1..Len(q)
        BY <1>1
      <3>2. q[n + 1] \in Waiting(end)
        BY <3>1, ElementOfSeq
      <3> QED BY <3>2 DEF Waiting, Old, InOrder, Segments
    <2> QED BY <1>1, <2>1, <2>2, <2>3, <2>4, <2>5, <2>7
  <1> QED BY <1>5 DEF Loop

-----------------------------------------------------------------------------
(* Taking some of the segments                                              *)

\* r has the segments of q that I numbers, in any order.
Picks(r, q, I) ==
    \E f \in [1..Len(r) -> I] :
        /\ \A i \in I : \E j \in 1..Len(r) : f[j] = i
        /\ \A j, k \in 1..Len(r) : f[j] = f[k] => j = k
        /\ \A j \in 1..Len(r) : r[j] = q[f[j]]

LEMMA PartPicks ==
  ASSUME NEW S, NEW q \in Seq(S), NEW I, I \in SUBSET (1..Len(q))
  PROVE  Picks(Part(q, I), q, I)
  <1>1. Len(q) \in Nat
    BY LenProperties
  <1>2. IsFiniteSet(I) /\ I \in SUBSET Nat
    <2>1. IsFiniteSet(1..Len(q)) /\ (1..Len(q)) \in SUBSET Nat
      BY <1>1, FS_Interval
    <2>2. IsFiniteSet(I)
      BY <2>1, FS_Subset
    <2> QED BY <2>1, <2>2
  <1> DEFINE Rank(i) == Cardinality({j \in I : j <= i})
             At(k) == CHOOSE i \in I : Rank(i) = k
             n == Cardinality(I)
  <1>3. n \in Nat
    BY <1>2, FS_CardinalityType
  <1>4. \A k \in 1..n : At(k) \in I /\ Rank(At(k)) = k
    <2>1. \A k \in 1..n : \E i \in I : Rank(i) = k
      BY <1>2, RankOnto
    <2> HIDE DEF Rank, n
    <2> QED BY <2>1
  <1>5. \A i \in I : Rank(i) \in 1..n
    <2> TAKE i \in I
    <2>1. {j \in I : j <= i} \in SUBSET I /\ i \in {j \in I : j <= i}
      BY <1>2
    <2>2. /\ IsFiniteSet({j \in I : j <= i}) /\ Rank(i) <= n
      BY <1>2, <2>1, FS_Subset
    <2>3. Rank(i) \in Nat /\ Rank(i) # 0
      BY <2>1, <2>2, FS_CardinalityType, FS_EmptySet
    <2> HIDE DEF Rank, n
    <2> QED BY <1>3, <2>2, <2>3
  <1>6. \A i, j \in I : Rank(i) = Rank(j) => i = j
    <2>1. ASSUME NEW i \in I, NEW j \in I, i < j PROVE Rank(i) # Rank(j)
      <3> DEFINE A == {x \in I : x <= i}
                 B == {x \in I : x <= j}
      <3>0. /\ i \in Nat /\ j \in Nat /\ j <= j /\ ~(j <= i)
            /\ \A x \in I : x <= i => x <= j
        BY <1>2, <2>1
      <3>1. A \in SUBSET B /\ j \in B /\ j \notin A /\ B \in SUBSET I
        BY <3>0, Zenon
      <3> HIDE DEF A, B
      <3>2. IsFiniteSet(B)
        BY <1>2, <3>1, FS_Subset
      <3>3. Cardinality(A) # Cardinality(B)
        BY <3>1, <3>2, FS_Subset
      <3> QED BY <3>3 DEF A, B
    <2> HIDE DEF Rank
    <2>2. \A i, j \in I : i = j \/ i < j \/ j < i
      BY <1>2
    <2> QED BY <2>1, <2>2
  <1> HIDE DEF Rank
  <1>7. PICK r : r = Part(q, I)
    OBVIOUS
  <1>8. r = [k \in 1..n |-> q[At(k)]]
    BY <1>7, Zenon DEF Part, At, n, Rank
  <1> HIDE DEF n
  <1>9. Len(r) = n /\ \A k \in 1..n : r[k] = q[At(k)]
    <2> HIDE DEF At
    <2> QED BY <1>3, <1>8
  <1>10. PICK f : f = [k \in 1..n |-> At(k)]
    OBVIOUS
  <1>11. f \in [1..n -> I] /\ \A k \in 1..n : f[k] = At(k)
    <2> HIDE DEF At
    <2> QED BY <1>4, <1>10
  <1> HIDE DEF At
  <1>12. \A i \in I : \E j \in 1..n : f[j] = i
    <2> TAKE i \in I
    <2>1. Rank(i) \in 1..n
      BY <1>5
    <2>2. At(Rank(i)) \in I /\ Rank(At(Rank(i))) = Rank(i)
      BY <1>4, <2>1
    <2>3. At(Rank(i)) = i
      BY <1>6, <2>2
    <2> QED BY <1>11, <2>1, <2>3
  <1>13. \A j, k \in 1..n : f[j] = f[k] => j = k
    BY <1>4, <1>11
  <1> QED BY <1>7, <1>9, <1>11, <1>12, <1>13 DEF Picks

LEMMA ReversePicks ==
  ASSUME NEW S, NEW r \in Seq(S), NEW q, NEW I, Picks(r, q, I)
  PROVE  Picks(Reverse(r), q, I)
  <1>1. Len(r) \in Nat
    BY LenProperties
  <1>2. PICK n, t : n = Len(r) /\ t = Reverse(r)
    OBVIOUS
  <1>3. Len(t) = n /\ \A j \in 1..n : t[j] = r[(n - j) + 1]
    BY <1>1, <1>2 DEF Reverse
  <1>4. PICK f \in [1..n -> I] :
          /\ \A i \in I : \E j \in 1..n : f[j] = i
          /\ \A j, k \in 1..n : f[j] = f[k] => j = k
          /\ \A j \in 1..n : r[j] = q[f[j]]
    BY <1>2 DEF Picks
  <1>5. PICK g : g = [j \in 1..n |-> f[(n - j) + 1]]
    OBVIOUS
  <1>6. \A j \in 1..n : (n - j) + 1 \in 1..n /\ (n - ((n - j) + 1)) + 1 = j
    BY <1>1, <1>2
  <1>7. g \in [1..n -> I] /\ \A j \in 1..n : g[j] = f[(n - j) + 1]
    BY <1>5, <1>6
  <1>8. \A i \in I : \E j \in 1..n : g[j] = i
    <2> TAKE i \in I
    <2>1. PICK j \in 1..n : f[j] = i
      BY <1>4
    <2>2. g[(n - j) + 1] = i
      BY <1>6, <1>7, <2>1
    <2> QED BY <1>6, <2>2
  <1>9. \A j, k \in 1..n : g[j] = g[k] => j = k
    <2> TAKE j, k \in 1..n
    <2> HAVE g[j] = g[k]
    <2>1. PICK x, y : x = (n - j) + 1 /\ y = (n - k) + 1
      OBVIOUS
    <2>2. x \in 1..n /\ y \in 1..n /\ f[x] = f[y]
      BY <1>6, <1>7, <2>1
    <2>3. x = y
      BY <1>4, <2>2
    <2> QED BY <1>6, <2>1, <2>3
  <1>10. \A j \in 1..n : t[j] = q[g[j]]
    <2> TAKE j \in 1..n
    <2>1. PICK i : i = (n - j) + 1
      OBVIOUS
    <2>2. i \in 1..n /\ t[j] = r[i] /\ g[j] = f[i]
      BY <1>3, <1>6, <1>7, <2>1
    <2> QED BY <1>4, <2>2
  <1>11. Picks(t, q, I)
    <2>1. g \in [1..Len(t) -> I]
      BY <1>3, <1>7, Zenon
    <2>2. /\ \A i \in I : \E j \in 1..Len(t) : g[j] = i
          /\ \A j, k \in 1..Len(t) : g[j] = g[k] => j = k
          /\ \A j \in 1..Len(t) : t[j] = q[g[j]]
      BY <1>3, <1>8, <1>9, <1>10, Zenon
    <2> QED BY <2>1, <2>2, Zenon DEF Picks
  <1> QED BY <1>2, <1>11

LEMMA SlicePicks ==
  ASSUME NEW S, NEW q \in Seq(S), NEW a \in Nat, NEW b \in Nat, a <= b, b <= Len(q)
  PROVE  /\ Picks(SubSeq(q, a + 1, b), q, (a + 1)..b)
         /\ SubSeq(q, a + 1, b) \in Seq(S)
  <1>1. PICK t, n : t = SubSeq(q, a + 1, b) /\ n = b - a
    OBVIOUS
  <1>2. t \in Seq(S) /\ Len(t) = n /\ \A j \in 1..n : t[j] = q[a + j]
    BY <1>1, Slice
  <1>3. PICK f : f = [j \in 1..n |-> a + j]
    OBVIOUS
  <1>4. f \in [1..n -> (a + 1)..b] /\ \A j \in 1..n : f[j] = a + j
    BY <1>1, <1>3
  <1>5. \A i \in (a + 1)..b : \E j \in 1..n : f[j] = i
    <2> TAKE i \in (a + 1)..b
    <2>1. i - a \in 1..n /\ a + (i - a) = i
      BY <1>1
    <2> QED BY <1>4, <2>1
  <1>6. \A j, k \in 1..n : f[j] = f[k] => j = k
    BY <1>1, <1>4
  <1>7. \A j \in 1..n : t[j] = q[f[j]]
    BY <1>2, <1>4
  <1>8. Picks(t, q, (a + 1)..b)
    <2>1. f \in [1..Len(t) -> (a + 1)..b]
      BY <1>2, <1>4, Zenon
    <2>2. /\ \A i \in (a + 1)..b : \E j \in 1..Len(t) : f[j] = i
          /\ \A j, k \in 1..Len(t) : f[j] = f[k] => j = k
          /\ \A j \in 1..Len(t) : t[j] = q[f[j]]
      BY <1>2, <1>5, <1>6, <1>7, Zenon
    <2> QED BY <2>1, <2>2, Zenon DEF Picks
  <1> QED BY <1>1, <1>2, <1>8

\* What holds a byte among the picked segments.
LEMMA PicksSomewhere ==
  ASSUME NEW r, NEW q, NEW I, Picks(r, q, I), NEW k
  PROVE  Somewhere(r, k) <=> \E i \in I : Holds(q[i], k)
  <1>1. PICK f \in [1..Len(r) -> I] :
          /\ \A i \in I : \E j \in 1..Len(r) : f[j] = i
          /\ \A j \in 1..Len(r) : r[j] = q[f[j]]
    BY DEF Picks
  <1>2. ASSUME NEW j \in 1..Len(r), Holds(r[j], k) PROVE \E i \in I : Holds(q[i], k)
    BY <1>1, <1>2
  <1>3. ASSUME NEW i \in I, Holds(q[i], k) PROVE \E j \in 1..Len(r) : Holds(r[j], k)
    BY <1>1, <1>3
  <1> QED BY <1>2, <1>3 DEF Somewhere

LEMMA PicksSingle ==
  ASSUME NEW r, NEW q, NEW I, I \subseteq 1..Len(q), Picks(r, q, I), Single(q)
  PROVE  Single(r)
  <1>1. PICK f \in [1..Len(r) -> I] :
          /\ \A j, k \in 1..Len(r) : f[j] = f[k] => j = k
          /\ \A j \in 1..Len(r) : r[j] = q[f[j]]
    BY DEF Picks
  <1>2. ASSUME NEW k \in Nat, NEW i \in 1..Len(r), NEW j \in 1..Len(r),
               Holds(r[i], k), Holds(r[j], k)
        PROVE  i = j
    <2>1. f[i] \in 1..Len(q) /\ f[j] \in 1..Len(q) /\ Holds(q[f[i]], k) /\ Holds(q[f[j]], k)
      BY <1>1, <1>2
    <2>2. f[i] = f[j]
      BY <2>1 DEF Single
    <2> QED BY <1>1, <2>2
  <1> QED BY <1>2 DEF Single

LEMMA PicksApart ==
  ASSUME NEW q, Single(q), NEW r, NEW I, I \subseteq 1..Len(q), Picks(r, q, I),
         NEW s, NEW J, J \subseteq 1..Len(q), Picks(s, q, J), I \cap J = {}
  PROVE  Apart(r, s)
  <1> SUFFICES ASSUME NEW k \in Nat, Somewhere(r, k), Somewhere(s, k) PROVE FALSE
    BY DEF Apart
  <1>1. PICK i \in I : Holds(q[i], k)
    BY PicksSomewhere
  <1>2. PICK j \in J : Holds(q[j], k)
    BY PicksSomewhere
  <1>3. i = j
    BY <1>1, <1>2 DEF Single
  <1> QED BY <1>3

LEMMA PicksIn ==
  ASSUME NEW r, NEW q, NEW I, Picks(r, q, I), Len(q) \in Nat, I \subseteq 1..Len(q), NEW k, Somewhere(r, k)
  PROVE  Somewhere(q, k)
  BY PicksSomewhere DEF Somewhere

LEMMA Joined ==
  ASSUME NEW S, NEW q \in Seq(S), NEW r \in Seq(S)
  PROVE  /\ \A k : Somewhere(q \o r, k) <=> Somewhere(q, k) \/ Somewhere(r, k)
         /\ Single(q) /\ Single(r) /\ Apart(q, r) => Single(q \o r)
  <1>1. PICK c, m, n : c = q \o r /\ m = Len(q) /\ n = Len(r)
    OBVIOUS
  <1>2. /\ m \in Nat /\ n \in Nat /\ Len(c) = m + n
        /\ \A i \in 1..(m + n) : c[i] = IF i <= m THEN q[i] ELSE r[i - m]
    BY <1>1, ConcatProperties, LenProperties
  <1>3. \A i \in 1..m : i \in 1..(m + n) /\ c[i] = q[i]
    BY <1>2
  <1>4. \A i \in 1..n : i + m \in 1..(m + n) /\ c[i + m] = r[i]
    <2> TAKE i \in 1..n
    <2>1. i + m \in 1..(m + n) /\ ~(i + m <= m) /\ (i + m) - m = i
      BY <1>2
    <2> QED BY <1>2, <2>1
  <1>5. \A i \in 1..(m + n) : i \in 1..m \/ \E j \in 1..n : i = j + m
    <2> TAKE i \in 1..(m + n)
    <2>1. i \in 1..m \/ (i - m \in 1..n /\ i = (i - m) + m)
      BY <1>2
    <2> QED BY <2>1
  <1>6. \A k : Somewhere(c, k) <=> Somewhere(q, k) \/ Somewhere(r, k)
    <2> TAKE k
    <2>1. ASSUME NEW i \in 1..(m + n), Holds(c[i], k) PROVE Somewhere(q, k) \/ Somewhere(r, k)
      <3>1. CASE i \in 1..m
        BY <1>1, <1>3, <2>1, <3>1 DEF Somewhere
      <3>2. ASSUME NEW j \in 1..n, i = j + m PROVE Somewhere(r, k)
        BY <1>1, <1>4, <2>1, <3>2 DEF Somewhere
      <3> QED BY <1>5, <3>1, <3>2
    <2>2. ASSUME NEW i \in 1..m, Holds(q[i], k) PROVE Somewhere(c, k)
      BY <1>2, <1>3, <2>2 DEF Somewhere
    <2>3. ASSUME NEW i \in 1..n, Holds(r[i], k) PROVE Somewhere(c, k)
      BY <1>2, <1>4, <2>3 DEF Somewhere
    <2> QED BY <1>1, <1>2, <2>1, <2>2, <2>3 DEF Somewhere
  <1>7. ASSUME Single(q), Single(r), Apart(q, r), NEW k \in Nat,
               NEW i \in 1..(m + n), NEW j \in 1..(m + n), Holds(c[i], k), Holds(c[j], k)
        PROVE  i = j
    <2>1. CASE i \in 1..m /\ j \in 1..m
      BY <1>1, <1>3, <1>7, <2>1 DEF Single
    <2>2. ASSUME NEW x \in 1..m, NEW y \in 1..n, Holds(c[x], k), Holds(c[y + m], k) PROVE FALSE
      BY <1>1, <1>3, <1>4, <1>7, <2>2 DEF Apart, Somewhere
    <2>3. ASSUME NEW x \in 1..n, NEW y \in 1..n, i = x + m, j = y + m PROVE i = j
      <3>1. Holds(r[x], k) /\ Holds(r[y], k)
        BY <1>4, <1>7, <2>3
      <3> QED BY <1>1, <1>7, <2>3, <3>1 DEF Single
    <2> QED BY <1>5, <1>7, <2>1, <2>2, <2>3
  <1> QED BY <1>1, <1>2, <1>6, <1>7 DEF Single

-----------------------------------------------------------------------------
(* The segments of a connection                                             *)

\* Those that wait and those that were sent have every byte of the stream at
\* most once, and the ones from low on.
HeldBy(wait, done, end, low) ==
    /\ wait \in Seq(Waiting(end)) /\ done \in Seq(Old(end))
    /\ Single(wait) /\ Single(done) /\ Apart(wait, done)
    /\ \A k \in Nat : 1 <= k /\ low <= k /\ k < end => Somewhere(wait, k) \/ Somewhere(done, k)

LEMMA SeqRetyped ==
  ASSUME NEW S, NEW T, NEW q \in Seq(S), \A i \in 1..Len(q) : q[i] \in T
  PROVE  q \in Seq(T)
  <1>1. PICK R : R = {q[i] : i \in 1..Len(q)}
    OBVIOUS
  <1>2. q \in Seq(R)
    BY <1>1, TypedIsSeq, SeqTyped
  <1>3. R \subseteq T
    BY <1>1
  <1> QED BY <1>2, <1>3, SeqMonotonic, Zenon

LEMMA WaitingIsOld ==
  ASSUME NEW end, NEW q \in Seq(Waiting(end))
  PROVE  q \in Seq(Old(end))
  <1>1. Waiting(end) \subseteq Old(end)
    BY DEF Waiting
  <1> QED BY <1>1, SeqMonotonic, Zenon

\* An acknowledgement lets only bytes go that the client has, and moves the rest.
LEMMA AckHeld ==
  ASSUME NEW end, NEW low \in Nat, HeldBy(toSend, sent, end, low), NEW ack \in Nat, ack <= low
  PROVE  HeldBy(Requeued(ack), StillSent(ack), end, low)
  <1> DEFINE J == ToRepeat(ack)
             I == Unacked(ack) \ J
             R == Part(sent, J)
             still == StillSent(ack)
             again == Reverse(R)
  <1>1. /\ toSend \in Seq(Waiting(end)) /\ sent \in Seq(Old(end))
        /\ Single(toSend) /\ Single(sent) /\ Apart(toSend, sent)
    BY DEF HeldBy
  <1>2. Len(sent) \in Nat /\ DOMAIN sent = 1..Len(sent) /\ \A i \in 1..Len(sent) : sent[i] \in Old(end)
    BY <1>1, LenProperties, ElementOfSeq
  <1>3. /\ Unacked(ack) \in SUBSET (1..Len(sent)) /\ J \in SUBSET (1..Len(sent))
        /\ J \subseteq Unacked(ack) /\ \A i \in J : sent[i].seq > ack
    BY <1>2 DEF Unacked, ToRepeat
  <1> HIDE DEF J
  <1>4. I \in SUBSET (1..Len(sent)) /\ I \cap J = {} /\ Unacked(ack) = I \cup J
    BY <1>3
  <1> HIDE DEF I
  <1>5. Picks(still, sent, I) /\ still \in Seq(Old(end))
    BY <1>1, <1>4, PartPicks, PartType DEF StillSent, I, J
  <1>6. Picks(R, sent, J) /\ R \in Seq(Old(end))
    BY <1>1, <1>3, PartPicks, PartType
  <1> HIDE DEF R
  <1>7. Picks(again, sent, J) /\ again \in Seq(Old(end))
    BY <1>6, ReversePicks, ReverseType
  <1>8. Requeued(ack) = again \o toSend
    BY DEF Requeued, R, J
  <1> HIDE DEF again, still
  <1>9. again \in Seq(Waiting(end))
    <2>1. PICK f \in [1..Len(again) -> J] : \A j \in 1..Len(again) : again[j] = sent[f[j]]
      BY <1>7 DEF Picks
    <2>2. \A i \in J : sent[i] \in Waiting(end)
      <3> TAKE i \in J
      <3>1. sent[i] \in Old(end) /\ sent[i].seq > ack
        BY <1>2, <1>3
      <3>2. sent[i].seq \in Nat
        BY <3>1 DEF Old, InOrder, Segments
      <3> QED BY <3>1, <3>2 DEF Waiting
    <2>3. \A j \in 1..Len(again) : again[j] \in Waiting(end)
      BY <2>1, <2>2
    <2> QED BY <1>7, <2>3, SeqRetyped
  <1>10. Single(still) /\ Single(again)
    BY <1>1, <1>3, <1>4, <1>5, <1>7, PicksSingle
  <1>11. Apart(again, still)
    BY <1>1, <1>3, <1>4, <1>5, <1>7, PicksApart
  <1>12. /\ \A k : Somewhere(again, k) => Somewhere(sent, k)
         /\ \A k : Somewhere(still, k) => Somewhere(sent, k)
    BY <1>2, <1>3, <1>4, <1>5, <1>7, PicksIn
  <1>13. Apart(again, toSend) /\ Apart(toSend, still)
    BY <1>1, <1>12 DEF Apart
  <1>14. /\ again \o toSend \in Seq(Waiting(end)) /\ Single(again \o toSend)
         /\ \A k : Somewhere(again \o toSend, k) <=> Somewhere(again, k) \/ Somewhere(toSend, k)
    BY <1>1, <1>9, <1>10, <1>13, Joined, ConcatProperties
  <1>15. Apart(again \o toSend, still)
    BY <1>11, <1>13, <1>14 DEF Apart
  <1>16. ASSUME NEW k \in Nat, 1 <= k, low <= k, k < end
         PROVE  Somewhere(again \o toSend, k) \/ Somewhere(still, k)
    <2>1. CASE Somewhere(toSend, k)
      BY <1>14, <2>1
    <2>2. CASE Somewhere(sent, k)
      <3>1. PICK i \in 1..Len(sent) : Holds(sent[i], k)
        BY <2>2 DEF Somewhere
      <3>2. i \in Unacked(ack)
        <4>1. sent[i].seq \in Nat /\ sent[i].len \in Nat
          BY <1>2 DEF Old, InOrder, Segments
        <4>2. ack <= sent[i].seq + sent[i].len
          BY <1>16, <3>1, <4>1 DEF Holds
        <4> QED BY <1>2, <4>2 DEF Unacked
      <3>3. CASE i \in I
        BY <1>5, <3>1, <3>3, PicksSomewhere
      <3>4. CASE i \in J
        BY <1>7, <1>14, <3>1, <3>4, PicksSomewhere
      <3> QED BY <1>4, <3>2, <3>3, <3>4
    <2> QED BY <1>16, <2>1, <2>2 DEF HeldBy
  <1> QED BY <1>5, <1>8, <1>10, <1>14, <1>15, <1>16 DEF HeldBy, still

\* The loop of runEst moves segments from the one queue to the other.
LEMMA LoopHeld ==
  ASSUME NEW end, NEW low, NEW q, NEW done, HeldBy(q, done, end, low), NEW n \in 0..Len(q)
  PROVE  HeldBy(SubSeq(q, n + 1, Len(q)), done \o SubSeq(q, 1, n), end, low)
  <1>1. /\ q \in Seq(Waiting(end)) /\ done \in Seq(Old(end))
        /\ Single(q) /\ Single(done) /\ Apart(q, done)
    BY DEF HeldBy
  <1>2. Len(q) \in Nat /\ n \in Nat /\ n <= Len(q) /\ 0 <= n
    BY <1>1, LenProperties
  <1>3. PICK rest, moved : rest = SubSeq(q, n + 1, Len(q)) /\ moved = SubSeq(q, 1, n)
    OBVIOUS
  <1>4. Picks(rest, q, (n + 1)..Len(q)) /\ rest \in Seq(Waiting(end))
    BY <1>1, <1>2, <1>3, SlicePicks
  <1>5. Picks(moved, q, 1..n) /\ moved \in Seq(Waiting(end))
    <2>1. /\ Picks(SubSeq(q, 0 + 1, n), q, (0 + 1)..n)
          /\ SubSeq(q, 0 + 1, n) \in Seq(Waiting(end))
      <3>1. 0 \in Nat
        OBVIOUS
      <3> QED BY <1>1, <1>2, <3>1, SlicePicks
    <2>2. 0 + 1 = 1
      OBVIOUS
    <2> QED BY <1>3, <2>1, <2>2
  <1>6. /\ (n + 1)..Len(q) \subseteq 1..Len(q) /\ 1..n \subseteq 1..Len(q)
        /\ ((n + 1)..Len(q)) \cap (1..n) = {}
        /\ \A i \in 1..Len(q) : i \in (n + 1)..Len(q) \/ i \in 1..n
    BY <1>2
  <1>7. Single(rest) /\ Single(moved) /\ Apart(rest, moved)
    BY <1>1, <1>4, <1>5, <1>6, PicksSingle, PicksApart
  <1>8. /\ \A k : Somewhere(rest, k) => Somewhere(q, k)
        /\ \A k : Somewhere(moved, k) => Somewhere(q, k)
    BY <1>2, <1>4, <1>5, <1>6, PicksIn
  <1>9. Apart(rest, done) /\ Apart(done, moved)
    BY <1>1, <1>8 DEF Apart
  <1>10. moved \in Seq(Old(end))
    BY <1>5, WaitingIsOld
  <1>11. /\ done \o moved \in Seq(Old(end)) /\ Single(done \o moved)
         /\ \A k : Somewhere(done \o moved, k) <=> Somewhere(done, k) \/ Somewhere(moved, k)
    BY <1>1, <1>7, <1>9, <1>10, Joined, ConcatProperties
  <1>12. Apart(rest, done \o moved)
    BY <1>7, <1>9, <1>11 DEF Apart
  <1>13. ASSUME NEW k, Somewhere(q, k) PROVE Somewhere(rest, k) \/ Somewhere(moved, k)
    <2>1. PICK i \in 1..Len(q) : Holds(q[i], k)
      BY <1>13 DEF Somewhere
    <2> QED BY <1>4, <1>5, <1>6, <2>1, PicksSomewhere
  <1>14. ASSUME NEW k \in Nat, 1 <= k, low <= k, k < end
         PROVE  Somewhere(rest, k) \/ Somewhere(done \o moved, k)
    BY <1>11, <1>13, <1>14 DEF HeldBy
  <1> QED BY <1>3, <1>4, <1>7, <1>11, <1>12, <1>14 DEF HeldBy

LEMMA RisingSingle ==
  ASSUME NEW S, NEW q \in Seq(S), NEW lo, NEW hi, Rising(q, lo, hi),
         \A s \in S : s.seq \in Nat /\ s.len \in Nat
  PROVE  Single(q)
  <1>1. Len(q) \in Nat /\ \A i \in 1..Len(q) : q[i].seq \in Nat /\ q[i].len \in Nat
    BY LenProperties, ElementOfSeq
  <1>2. ASSUME NEW k \in Nat, NEW i \in 1..Len(q), NEW j \in 1..Len(q),
               Holds(q[i], k), Holds(q[j], k), i < j
        PROVE  FALSE
    <2>1. q[i].seq + q[i].len <= q[j].seq
      BY <1>2 DEF Rising
    <2> QED BY <1>1, <1>2, <2>1 DEF Holds
  <1>3. \A i, j \in 1..Len(q) : i = j \/ i < j \/ j < i
    BY <1>1
  <1> QED BY <1>2, <1>3 DEF Single

\* Every byte of the payload is in one of the pieces.
LEMMA EchoCovers ==
  ASSUME NEW p, p.opt = 0, p.len \in Nat, seqLocal \in Nat, seqLocal > 0,
         NEW k \in Nat, seqLocal <= k, k < seqLocal + p.len
  PROVE  Somewhere(Echo(p), k)
  <1>1. PICK len, m, n : len = p.len /\ m = MSS /\ n = (len + m - 1) \div m
    OBVIOUS
  <1>2. /\ len \in Nat /\ m \in Nat /\ m > 0 /\ n \in Nat /\ len + m - 1 < n * m + m
    <2>1. PICK a : a = len + m - 1
      OBVIOUS
    <2>2. len \in Nat /\ m \in Nat /\ m > 0 /\ a \in Nat /\ n = a \div m
      BY <1>1, <2>1
    <2>3. n \in Nat /\ a < n * m + m
      BY <2>2
    <2> QED BY <2>1, <2>2, <2>3
  <1>3. PICK q : q = Echo(p)
    OBVIOUS
  <1>4. /\ Len(q) = n
        /\ \A i \in 1..n :
            q[i].seq = seqLocal + (i - 1) * m
            /\ q[i].len = IF len - (i - 1) * m < m THEN len - (i - 1) * m ELSE m
    <2>1. DataLen(p) = len
      BY <1>1, <1>2 DEF DataLen
    <2>2. q = [i \in 1..n |-> Segment(seqLocal + (i - 1) * m, Start(p) + (i - 1) * m,
                                     IF len - (i - 1) * m < m THEN len - (i - 1) * m ELSE m)]
      BY <1>1, <1>3, <2>1, Zenon DEF Echo
    <2> QED BY <1>2, <2>2 DEF Segment
  <1>5. PICK x, y : x = k - seqLocal /\ y = x \div m
    OBVIOUS
  <1>6. x \in Nat /\ x < len /\ y \in Nat /\ y * m <= x /\ x < y * m + m
    <2>1. x \in Nat /\ x < len
      BY <1>1, <1>5
    <2> QED BY <1>2, <1>5, <2>1
  <1>7. y < n
    <2> SUFFICES ASSUME y >= n PROVE FALSE
      BY <1>2, <1>6
    <2>1. PICK d : d = y - n
      OBVIOUS
    <2>2. d \in Nat /\ y = n + d
      BY <1>2, <1>6, <2>1
    <2>3. y * m = n * m + d * m /\ d * m \in Nat /\ n * m \in Nat
      BY <1>2, <2>2
    <2> QED BY <1>2, <1>6, <2>3
  <1>8. PICK i, z : i = y + 1 /\ z = y * m
    OBVIOUS
  <1>9. i \in 1..n /\ i - 1 = y
    BY <1>2, <1>6, <1>7, <1>8
  <1>10. q[i].seq = seqLocal + z /\ q[i].len = IF len - z < m THEN len - z ELSE m
    BY <1>4, <1>8, <1>9
  <1>11. z \in Nat /\ z <= x /\ x < z + m
    BY <1>2, <1>6, <1>8
  <1>12. Holds(q[i], k)
    BY <1>2, <1>5, <1>6, <1>10, <1>11 DEF Holds
  <1> QED BY <1>3, <1>4, <1>9, <1>12 DEF Somewhere

\* The echo protocol adds the bytes that follow.
LEMMA EchoHeld ==
  ASSUME NEW p, p.opt = 0, p.len \in Nat, p.from \in Nat, seqLocal \in Nat, seqLocal > 0,
         p.len > 0 => p.from = seqLocal /\ seqLocal + p.len <= MaxData + 1,
         NEW low, NEW wait, NEW done, HeldBy(wait, done, seqLocal, low)
  PROVE  HeldBy(wait \o Echo(p), done, seqLocal + p.len, low)
  <1>1. /\ wait \in Seq(Waiting(seqLocal)) /\ done \in Seq(Old(seqLocal))
        /\ Single(wait) /\ Single(done) /\ Apart(wait, done)
    BY DEF HeldBy
  <1>2. PICK q, end : q = Echo(p) /\ end = seqLocal + p.len
    OBVIOUS
  <1>3. end \in Nat /\ end >= seqLocal
    BY <1>2
  <1>4. q \in Seq(InOrder) /\ Rising(q, seqLocal, end)
    BY <1>2, EchoType, RisingEcho
  <1>5. Single(q)
    <2>1. \A s \in InOrder : s.seq \in Nat /\ s.len \in Nat
      BY DEF InOrder, Segments
    <2> QED BY <1>4, <2>1, RisingSingle
  <1>6. Len(q) \in Nat /\ \A i \in 1..Len(q) :
            /\ q[i] \in InOrder /\ q[i].seq \in Nat /\ q[i].len \in Nat
            /\ seqLocal <= q[i].seq /\ q[i].seq < end /\ q[i].seq + q[i].len <= end
    <2>1. Len(q) \in Nat /\ \A i \in 1..Len(q) : q[i] \in InOrder
      BY <1>4, LenProperties, ElementOfSeq
    <2> QED BY <1>4, <2>1 DEF Rising, InOrder, Segments
  <1>7. q \in Seq(Waiting(end))
    <2>1. ASSUME NEW i \in 1..Len(q) PROVE q[i] \in Waiting(end)
      <3>1. p.len > 0 /\ end <= MaxData + 1
        BY <1>2, <1>6
      <3>2. PICK s : s = q[i]
        OBVIOUS
      <3>3. /\ s \in InOrder /\ s.seq \in Nat /\ s.len \in Nat /\ s.seq > 0
            /\ s.seq + s.len <= end /\ s.seq + s.len <= MaxData + 1
        BY <1>3, <1>6, <3>1, <3>2
      <3> QED BY <3>2, <3>3 DEF Waiting, Old
    <2> QED BY <1>4, <2>1, SeqRetyped
  <1>8. wait \in Seq(Waiting(end)) /\ done \in Seq(Old(end))
    <2>1. Old(seqLocal) \subseteq Old(end)
      BY <1>3 DEF Old, InOrder, Segments
    <2>2. Waiting(seqLocal) \subseteq Waiting(end)
      BY <2>1 DEF Waiting
    <2> QED BY <1>1, <2>1, <2>2, SeqMonotonic, Zenon
  <1>9. \A k \in Nat : Somewhere(q, k) => seqLocal <= k
    BY <1>6 DEF Somewhere, Holds
  <1>10. ASSUME NEW S, NEW r \in Seq(S), S \subseteq Old(seqLocal), NEW k \in Nat, Somewhere(r, k)
         PROVE  k < seqLocal
    <2>1. PICK i \in 1..Len(r) : Holds(r[i], k)
      BY <1>10 DEF Somewhere
    <2>2. r[i] \in Old(seqLocal)
      BY <1>10, ElementOfSeq
    <2> QED BY <2>1, <2>2 DEF Holds, Old, InOrder, Segments
  <1>11. Apart(wait, q) /\ Apart(q, done)
    <2>1. \A k \in Nat : Somewhere(wait, k) => k < seqLocal
      <3>1. Waiting(seqLocal) \subseteq Old(seqLocal)
        BY DEF Waiting
      <3> QED BY <1>1, <1>10, <3>1
    <2>2. \A k \in Nat : Somewhere(done, k) => k < seqLocal
      BY <1>1, <1>10
    <2>3. \A k \in Nat : ~(k < seqLocal /\ seqLocal <= k)
      OBVIOUS
    <2> QED BY <1>9, <2>1, <2>2, <2>3, Zenon DEF Apart
  <1>12. /\ wait \o q \in Seq(Waiting(end)) /\ Single(wait \o q)
         /\ \A k : Somewhere(wait \o q, k) <=> Somewhere(wait, k) \/ Somewhere(q, k)
    BY <1>1, <1>5, <1>7, <1>8, <1>11, Joined, ConcatProperties
  <1>13. Apart(wait \o q, done)
    BY <1>1, <1>11, <1>12, Zenon DEF Apart
  <1>14. ASSUME NEW k \in Nat, 1 <= k, low <= k, k < end
         PROVE  Somewhere(wait \o q, k) \/ Somewhere(done, k)
    <2>1. CASE k < seqLocal
      BY <1>12, <1>14, <2>1 DEF HeldBy
    <2>2. CASE seqLocal <= k
      <3>1. Somewhere(q, k)
        BY <1>2, <1>14, <2>2, EchoCovers
      <3> QED BY <1>12, <3>1
    <2> QED BY <2>1, <2>2
  <1> QED BY <1>1, <1>2, <1>8, <1>12, <1>13, <1>14 DEF HeldBy

-----------------------------------------------------------------------------
(* The invariant                                                            *)

\* Packets that acknowledge what the client has and carry its bytes.
Offers(r) ==
    {p \in Requests : /\ p.win \in Windows /\ p.ack <= r
                      /\ p.len > 0 => p.seq + p.len <= MaxData + 1}

Offered ==
    /\ toServer \in Seq(Offers(rcv))
    /\ cstate \in {"closed", "syn"} => rcv = 0
    /\ nxt <= MaxData + (IF cstate \in {"fin", "reset"} THEN 2 ELSE 1)

Held == state # "none" => StreamEnd > 0 /\ HeldBy(toSend, sent, StreamEnd, rcv)

HeldInv == Offered /\ Held

LEMMA OffersGrow ==
  ASSUME NEW r \in Nat, NEW s \in Nat, r <= s, NEW q \in Seq(Offers(r))
  PROVE  q \in Seq(Offers(s))
  <1>1. Offers(r) \subseteq Offers(s)
    BY DEF Offers, Requests, Packets
  <1> QED BY <1>1, SeqMonotonic, Zenon

LEMMA SendOffered ==
  ASSUME NoOptions, toServer \in Seq(Offers(rcv)), rcv \in Nat, rcv' \in Nat, rcv <= rcv',
         NEW flags \in Flags, NEW seq \in Nat, NEW len \in Nat, NEW win \in Windows,
         "FIN" \in flags => len = 0, len > 0 => seq + len <= MaxData + 1,
         Send(flags, seq, seq, len, win)
  PROVE  toServer' \in Seq(Offers(rcv'))
  <1>1. PICK p : /\ p = [flags |-> flags, seq |-> seq, ack |-> rcv', from |-> seq, len |-> len,
                         win |-> win, opt |-> 0]
                 /\ toServer' = Append(toServer, p)
    BY DEF Send, Packet, NoOptions
  <1>2. p \in Offers(rcv')
    BY <1>1 DEF Offers, Requests, Packets
  <1>3. toServer \in Seq(Offers(rcv'))
    BY OffersGrow
  <1> QED BY <1>1, <1>2, <1>3, AppendProperties

\* The steps of the client leave the server's segments alone.
LEMMA HeldKept ==
  ASSUME Held, UNCHANGED server, rcv \in Nat, rcv' \in Nat, rcv <= rcv'
  PROVE  Held'
  <1>1. UNCHANGED <<state, toSend, sent, seqLocal>> /\ StreamEnd' = StreamEnd
    BY DEF server, StreamEnd
  <1> SUFFICES ASSUME state # "none" PROVE StreamEnd > 0 /\ HeldBy(toSend, sent, StreamEnd, rcv')
    BY <1>1 DEF Held, HeldBy, Old, Waiting, Apart, Single
  <1>2. StreamEnd > 0 /\ HeldBy(toSend, sent, StreamEnd, rcv)
    BY DEF Held
  <1>3. \A k \in Nat : rcv' <= k => rcv <= k
    OBVIOUS
  <1> QED BY <1>2, <1>3, Zenon DEF HeldBy

LEMMA TakeHeld ==
  ASSUME WideWindows, StreamInv, Held, NEW p \in Offers(rcv), Sound(p), EstTake(p), rcv' = rcv
  PROVE  Held'
  <1>1. /\ state = "est" /\ p.seq = seqRemote
        /\ p.flags \in Flags /\ p.seq \in Nat /\ p.len \in Nat /\ p.from = p.seq
        /\ p.ack \in Nat /\ p.ack <= rcv /\ p.win \in Windows
        /\ p.len > 0 => p.seq + p.len <= MaxData + 1
        /\ p.opt = 0 /\ DataLen(p) = p.len
    <2>1. /\ p.flags \in Flags /\ p.seq \in Nat /\ p.len \in Nat /\ p.from = p.seq
          /\ p.ack \in Nat /\ p.ack <= rcv /\ p.win \in Windows /\ p.opt = 0
          /\ p.len > 0 => p.seq + p.len <= MaxData + 1
      BY DEF Offers, Requests, Packets
    <2>2. DataLen(p) = p.len
      BY <2>1, NoOptionBytes
    <2>3. state = "est" /\ p.seq = seqRemote
      BY DEF EstTake
    <2> QED BY <2>1, <2>2, <2>3
  <1>2. rcv \in Nat /\ seqLocal \in Nat
    BY DEF StreamInv, IInv, Numbers, Accepted
  <1>3. p.len > 0 => p.from = seqLocal /\ seqLocal + p.len <= MaxData + 1
    <2>1. Fin(p) \in Nat /\ seqRemote \in Nat
      BY DEF Fin, StreamInv, IInv, Numbers
    <2>2. CASE closing
      BY <1>1, <1>2, <2>1, <2>2 DEF StreamInv, IInv, Numbers, TakenWasSent, Sound
    <2>3. CASE ~closing
      <3>1. seqRemote = seqLocal
        BY <1>1, <1>2, <2>3 DEF StreamInv, IInv, BytesCounted, EchoedOnce
      <3> QED BY <1>1, <1>2, <3>1
    <2> QED BY <2>2, <2>3
  <1>4. PICK q : /\ q = Requeued(p.ack) \o Echo(p)
                 /\ \E n \in 0..Len(q), room \in 0..p.win, fin \in BOOLEAN :
                      /\ Whole(q, n, room, p.win)
                      /\ toSend' = Loop(q, n, room).rest
                      /\ sent' = StillSent(p.ack) \o Loop(q, n, room).moved
                      /\ seqLocal' = seqLocal + p.len + (IF fin THEN 1 ELSE 0)
                      /\ state' = IF fin THEN "ack_fin" ELSE "est"
    BY <1>1, Zenon DEF EstTake
  <1>5. PICK n \in 0..Len(q), room \in 0..p.win, fin \in BOOLEAN :
          /\ Whole(q, n, room, p.win)
          /\ toSend' = Loop(q, n, room).rest
          /\ sent' = StillSent(p.ack) \o Loop(q, n, room).moved
          /\ seqLocal' = seqLocal + p.len + (IF fin THEN 1 ELSE 0)
          /\ state' = IF fin THEN "ack_fin" ELSE "est"
    BY <1>4
  <1>6. StreamEnd = seqLocal /\ seqLocal > 0 /\ HeldBy(toSend, sent, seqLocal, rcv)
    BY <1>1 DEF Held, StreamEnd
  <1>7. HeldBy(Requeued(p.ack), StillSent(p.ack), seqLocal, rcv)
    BY <1>1, <1>2, <1>6, AckHeld
  <1>8. PICK end : end = seqLocal + p.len
    OBVIOUS
  <1>9. HeldBy(q, StillSent(p.ack), end, rcv)
    <2>1. p.from \in Nat /\ p.len \in Nat /\ p.opt = 0
      BY <1>1
    <2>2. PICK wait, done : wait = Requeued(p.ack) /\ done = StillSent(p.ack)
      OBVIOUS
    <2>3. HeldBy(wait, done, seqLocal, rcv)
      BY <1>7, <2>2
    <2>4. HeldBy(wait \o Echo(p), done, seqLocal + p.len, rcv)
      BY <1>2, <1>3, <1>6, <2>1, <2>3, EchoHeld
    <2> QED BY <1>4, <1>8, <2>2, <2>4
  <1>10. Loop(q, n, room) = [rest |-> SubSeq(q, n + 1, Len(q)), moved |-> SubSeq(q, 1, n)]
    <2>1. q \in Seq(Waiting(end)) /\ Single(q)
      BY <1>9 DEF HeldBy
    <2>2. PICK win \in Windows : win = p.win
      BY <1>1
    <2>3. n \in 0..Len(q) /\ room \in 0..win /\ Whole(q, n, room, win)
      BY <1>5, <2>2
    <2> QED BY <2>1, <2>3, LoopWhole
  <1>11. toSend' = SubSeq(q, n + 1, Len(q)) /\ sent' = StillSent(p.ack) \o SubSeq(q, 1, n)
    BY <1>5, <1>10
  <1>12. HeldBy(SubSeq(q, n + 1, Len(q)), StillSent(p.ack) \o SubSeq(q, 1, n), end, rcv)
    BY <1>5, <1>9, LoopHeld
  <1>13. StreamEnd' = end /\ end > 0
    BY <1>1, <1>2, <1>5, <1>6, <1>8 DEF StreamEnd
  <1>14. PICK wait, done, low : wait = toSend' /\ done = sent' /\ low = rcv'
    OBVIOUS
  <1>15. HeldBy(wait, done, end, low)
    BY <1>11, <1>12, <1>14
  <1> QED BY <1>13, <1>14, <1>15 DEF Held, HeldBy, Old, Waiting, Apart, Single

LEMMA ServerHeld ==
  ASSUME WideWindows, StreamInv, HeldInv, ServerPkt PROVE HeldInv'
  <1>1. PICK p : /\ toServer # <<>> /\ toServer' = Tail(toServer) /\ p = Head(toServer)
                 /\ UNCHANGED <<client, faults>>
                 /\ \/ SynAck(p) \/ SynAckRefuse(p) \/ EstRefuse(p) \/ EstUnexpected(p)
                    \/ EstTake(p) \/ AckFinRefuse(p) \/ AckFinLast(p) \/ AckFinWait(p)
    BY DEF ServerPkt
  <1>2. p \in Offers(rcv) /\ Tail(toServer) \in Seq(Offers(rcv))
    BY <1>1, HeadTailProperties DEF HeldInv, Offered
  <1>3. Offered'
    BY <1>1, <1>2 DEF HeldInv, Offered, client, Offers
  <1>4. Sound(p)
    <2>1. Grows
      BY <1>1 DEF Grows, StreamInv, IInv, Numbers, client
    <2> QED BY <1>1, <2>1, QueuedTail DEF StreamInv, IInv
  <1>5. rcv' = rcv /\ rcv \in Nat /\ p.ack \in Nat /\ p.ack <= rcv
    BY <1>1, <1>2 DEF client, StreamInv, Accepted, Offers, Requests, Packets
  <1>6. CASE EstTake(p)
    BY <1>2, <1>3, <1>4, <1>5, <1>6, TakeHeld DEF HeldInv
  <1>7. CASE EstUnexpected(p)
    <2>1. /\ state = "est" /\ state' = state /\ seqLocal' = seqLocal
          /\ toSend' = Requeued(p.ack) /\ sent' = StillSent(p.ack)
      BY <1>7 DEF EstUnexpected
    <2>2. StreamEnd = seqLocal /\ StreamEnd' = StreamEnd
      BY <2>1 DEF StreamEnd
    <2>3. StreamEnd > 0 /\ HeldBy(toSend, sent, StreamEnd, rcv)
      BY <2>1 DEF HeldInv, Held
    <2>4. PICK wait, done, low, end : wait = toSend' /\ done = sent' /\ low = rcv' /\ end = StreamEnd
      OBVIOUS
    <2>5. HeldBy(wait, done, end, low)
      BY <1>5, <2>1, <2>3, <2>4, AckHeld
    <2>6. Held'
      BY <2>2, <2>3, <2>4, <2>5 DEF Held, HeldBy, Old, Waiting, Apart, Single
    <2> QED BY <1>3, <2>6 DEF HeldInv
  <1>8. CASE SynAck(p)
    <2>1. PICK s : s = [seq |-> 0, from |-> 0, len |-> SynLen]
      OBVIOUS
    <2>2. /\ state' = "est" /\ seqLocal' = 1 /\ toSend' = <<>> /\ sent' = <<s>>
      BY <1>8, <2>1 DEF SynAck, Segment
    <2>3. StreamEnd' = 1
      BY <2>2 DEF StreamEnd
    <2>4. PICK wait, done, low : wait = <<>> /\ done = <<s>> /\ low = rcv'
      OBVIOUS
    <2>5. wait \in Seq(Waiting(1)) /\ done \in Seq(Old(1)) /\ Len(wait) = 0 /\ Len(done) = 1
      BY <2>1, <2>4 DEF Old, InOrder, Segments
    <2>6. Single(wait) /\ Single(done) /\ Apart(wait, done)
      BY <2>5 DEF Single, Apart, Somewhere
    <2>7. HeldBy(wait, done, 1, low)
      BY <2>5, <2>6 DEF HeldBy
    <2>8. Held'
      BY <2>2, <2>3, <2>4, <2>7 DEF Held, HeldBy, Old, Waiting, Apart, Single
    <2> QED BY <1>3, <2>8 DEF HeldInv
  <1>9. CASE SynAckRefuse(p) \/ EstRefuse(p) \/ AckFinRefuse(p) \/ AckFinLast(p)
    <2>1. Held'
      BY <1>9 DEF SynAckRefuse, EstRefuse, AckFinRefuse, AckFinLast, End, Held
    <2> QED BY <1>3, <2>1 DEF HeldInv
  <1>10. CASE AckFinWait(p)
    <2>1. Held'
      BY <1>5, <1>10, HeldKept DEF AckFinWait, HeldInv
    <2> QED BY <1>3, <2>1 DEF HeldInv
  <1> QED BY <1>1, <1>6, <1>7, <1>8, <1>9, <1>10

LEMMA SendHeld ==
  ASSUME StreamInv, StreamInv', HeldInv, Connect \/ SendData \/ Close PROVE HeldInv'
  <1>1. /\ nxt \in Nat /\ rcv \in Nat /\ rcv' \in Nat /\ toServer \in Seq(Offers(rcv))
        /\ nxt <= MaxData + (IF cstate \in {"fin", "reset"} THEN 2 ELSE 1)
        /\ cstate \in {"closed", "syn"} => rcv = 0
        /\ NoOptions
    BY DEF StreamInv, IInv, Numbers, Accepted, HeldInv, Offered
  <1>2. rcv' = rcv /\ UNCHANGED server
    BY <1>1 DEF Connect, SendData, Close
  <1>3. toServer' \in Seq(Offers(rcv'))
    <2>1. CASE Connect
      <3>1. PICK win \in Windows : Send({"SYN"}, 0, 0, 0, win)
        BY <2>1 DEF Connect
      <3>2. "FIN" \notin {"SYN"} /\ 0 \in Nat
        OBVIOUS
      <3> QED BY <1>1, <1>2, <3>1, <3>2, ClientFlags, SendOffered
    <2>2. CASE SendData
      <3>1. PICK len \in Sizes, win \in Windows :
              nxt + len <= MaxData + 1 /\ Send({"ACK"}, nxt, nxt, len, win)
        BY <2>2 DEF SendData
      <3>2. "FIN" \notin {"ACK"} /\ len \in Nat
        OBVIOUS
      <3> QED BY <1>1, <1>2, <3>1, <3>2, ClientFlags, SendOffered
    <2>3. CASE Close
      <3>1. PICK win \in Windows : Send({"ACK", "FIN"}, nxt, nxt, 0, win)
        BY <2>3 DEF Close
      <3> QED BY <1>1, <1>2, <3>1, ClientFlags, SendOffered
    <2> QED BY <2>1, <2>2, <2>3
  <1>4. /\ cstate' \in {"closed", "syn"} => rcv' = 0
        /\ nxt' <= MaxData + (IF cstate' \in {"fin", "reset"} THEN 2 ELSE 1)
    <2>1. CASE Connect
      BY <1>1, <2>1 DEF Connect
    <2>2. CASE SendData
      BY <1>1, <2>2 DEF SendData
    <2>3. CASE Close
      <3>1. /\ cstate = "est" /\ cstate' = "fin" /\ nxt' = nxt + 1
        BY <2>3 DEF Close
      <3> QED BY <1>1, <3>1
    <2> QED BY <2>1, <2>2, <2>3
  <1>5. Held'
    BY <1>1, <1>2, HeldKept DEF HeldInv
  <1> QED BY <1>3, <1>4, <1>5 DEF HeldInv, Offered

LEMMA ReceiveHeld ==
  ASSUME StreamInv, StreamInv', HeldInv, ClientPkt PROVE HeldInv'
  <1>1. /\ nxt \in Nat /\ rcv \in Nat /\ rcv' \in Nat /\ toServer \in Seq(Offers(rcv))
        /\ nxt <= MaxData + (IF cstate \in {"fin", "reset"} THEN 2 ELSE 1)
        /\ cstate \in {"closed", "syn"} => rcv = 0
        /\ NoOptions
    BY DEF StreamInv, IInv, Numbers, Accepted, HeldInv, Offered
  <1>2. PICK p : /\ toClient # <<>> /\ p = Head(toClient) /\ UNCHANGED <<server, nxt>>
                 /\ ReceiveSynAck(p) \/ Receive(p) \/ ReceiveRst(p) \/ Ignore(p)
    BY DEF ClientPkt
  <1>3. p \in Answers
    BY <1>2, HeadTailProperties DEF StreamInv, Queues
  <1>4. rcv <= rcv'
    <2>1. CASE ReceiveSynAck(p)
      BY <1>1, <2>1 DEF ReceiveSynAck
    <2>2. CASE Receive(p)
      <3> DEFINE more == IF ~Over /\ p.seq <= rcv /\ rcv < p.seq + p.len
                         THEN p.seq + p.len - rcv ELSE 0
                 last == ~Over /\ "FIN" \in p.flags /\ p.seq + p.len = rcv + more
      <3>1. PICK fresh : fresh = more /\ rcv' = rcv + fresh + (IF last THEN 1 ELSE 0)
        BY <2>2 DEF Receive
      <3> HIDE DEF last
      <3>2. fresh \in Nat
        BY <1>1, <1>3, <3>1 DEF Answers, Packets
      <3> QED BY <1>1, <3>1, <3>2
    <2>3. CASE ReceiveRst(p) \/ Ignore(p)
      BY <1>1, <2>3 DEF ReceiveRst, Ignore
    <2> QED BY <1>2, <2>1, <2>2, <2>3
  <1>5. toServer' \in Seq(Offers(rcv'))
    <2>1. CASE UNCHANGED toServer
      BY <1>1, <1>4, <2>1, OffersGrow
    <2>2. ASSUME NEW win \in Windows, Send({"ACK"}, nxt, nxt, 0, win)
          PROVE  toServer' \in Seq(Offers(rcv'))
      <3>1. "FIN" \notin {"ACK"} /\ 0 \in Nat
        OBVIOUS
      <3> QED BY <1>1, <1>4, <2>2, <3>1, ClientFlags, SendOffered
    <2>3. UNCHANGED toServer \/ \E win \in Windows : Send({"ACK"}, nxt, nxt, 0, win)
      BY <1>2 DEF ReceiveSynAck, Receive, ReceiveRst, Ignore
    <2> QED BY <2>1, <2>2, <2>3
  <1>6. /\ cstate' \in {"closed", "syn"} => rcv' = 0
        /\ nxt' <= MaxData + (IF cstate' \in {"fin", "reset"} THEN 2 ELSE 1)
    <2>1. CASE ReceiveSynAck(p)
      BY <1>1, <1>2, <2>1 DEF ReceiveSynAck
    <2>2. CASE Receive(p)
      BY <1>1, <1>2, <2>2 DEF Receive
    <2>3. CASE ReceiveRst(p)
      <3>1. cstate' = "reset" /\ nxt' = nxt
        BY <1>2, <2>3 DEF ReceiveRst
      <3> QED BY <1>1, <3>1
    <2>4. CASE Ignore(p)
      BY <1>1, <1>2, <2>4 DEF Ignore
    <2> QED BY <1>2, <2>1, <2>2, <2>3, <2>4
  <1>7. Held'
    BY <1>1, <1>2, <1>4, HeldKept DEF HeldInv
  <1> QED BY <1>5, <1>6, <1>7 DEF HeldInv, Offered

LEMMA NetworkHeld ==
  ASSUME StreamInv, StreamInv', HeldInv, Fault PROVE HeldInv'
  <1>1. /\ nxt \in Nat /\ una \in Nat /\ rcv \in Nat /\ toServer \in Seq(Offers(rcv))
        /\ nxt <= MaxData + (IF cstate \in {"fin", "reset"} THEN 2 ELSE 1)
        /\ NoOptions
    BY DEF StreamInv, IInv, Numbers, Accepted, HeldInv, Offered
  <1>2. UNCHANGED <<server, rcv, nxt, cstate>>
    BY DEF Fault, Resend, client
  <1>3. toServer' \in Seq(Offers(rcv))
    <2>1. CASE Resend
      <3>1. PICK data, end : data = end - una /\ end = IF cstate = "fin" THEN nxt - 1 ELSE nxt
        OBVIOUS
      <3>2. end \in Int /\ end <= MaxData + 1
        BY <1>1, <2>1, <3>1 DEF Resend
      <3>3. CASE \E win \in Windows : Send({"ACK", "FIN"}, una, una, 0, win)
        BY <1>1, <1>2, <3>3, ClientFlags, SendOffered
      <3>4. CASE \E len \in Sizes, win \in Windows : len <= data /\ Send({"ACK"}, una, una, len, win)
        <4>1. PICK len \in Sizes, win \in Windows : len <= data /\ Send({"ACK"}, una, una, len, win)
          BY <3>4
        <4>2. "FIN" \notin {"ACK"} /\ len \in Nat /\ una + len <= MaxData + 1
          BY <1>1, <3>1, <3>2, <4>1
        <4> QED BY <1>1, <1>2, <4>1, <4>2, ClientFlags, SendOffered
      <3> QED BY <2>1, <3>1, <3>3, <3>4 DEF Resend
    <2>2. CASE Lose
      <3>1. \/ toServer' = toServer
            \/ toServer # <<>> /\ toServer' = Tail(toServer)
        BY <2>2 DEF Lose
      <3> QED BY <1>1, <3>1, HeadTailProperties
    <2>3. CASE Copy
      <3>1. \/ toServer' = toServer
            \/ toServer # <<>> /\ toServer' = Append(toServer, Head(toServer))
        BY <2>3 DEF Copy
      <3> QED BY <1>1, <3>1, HeadTailProperties, AppendProperties
    <2> QED BY <2>1, <2>2, <2>3 DEF Fault
  <1>4. Held'
    BY <1>1, <1>2, HeldKept DEF HeldInv
  <1> QED BY <1>2, <1>3, <1>4 DEF HeldInv, Offered, Offers

LEMMA HeldInvariant == ASSUME NoOptions, WideWindows PROVE Spec => []HeldInv
  <1>1. Init => HeldInv
    BY DEF Init, HeldInv, Offered, Held
  <1>2. StreamInv /\ StreamInv' /\ HeldInv /\ [Next]_vars => HeldInv'
    <2> SUFFICES ASSUME StreamInv, StreamInv', HeldInv, [Next]_vars PROVE HeldInv'
      OBVIOUS
    <2>1. CASE UNCHANGED vars
      <3>1. UNCHANGED <<server, rcv, toServer, cstate, nxt>> /\ rcv \in Nat
        BY <2>1 DEF vars, client, StreamInv, Accepted
      <3>2. Held'
        BY <3>1, HeldKept DEF HeldInv
      <3> QED BY <3>1, <3>2 DEF HeldInv, Offered, Offers
    <2> QED BY <2>1, ServerHeld, SendHeld, ReceiveHeld, NetworkHeld DEF Next
  <1> QED BY <1>1, <1>2, StreamInvariant, PTL DEF Spec

\* At most one segment of such queues has a byte.
LEMMA InQueueCounts ==
  ASSUME NEW S, NEW q \in Seq(S), Single(q), NEW k \in Nat
  PROVE  Cardinality(InQueue(q, k)) = IF Somewhere(q, k) THEN 1 ELSE 0
  <1>1. InQueue(q, k) = {i \in 1..Len(q) : Holds(q[i], k)}
    BY LenProperties DEF InQueue, Holds
  <1>2. CASE Somewhere(q, k)
    <2>1. PICK i \in 1..Len(q) : Holds(q[i], k)
      BY <1>2 DEF Somewhere
    <2>2. InQueue(q, k) = {i}
      BY <1>1, <2>1 DEF Single
    <2> QED BY <1>2, <2>2, FS_Singleton
  <1>3. CASE ~Somewhere(q, k)
    <2>1. InQueue(q, k) = {}
      BY <1>1, <1>3 DEF Somewhere
    <2> QED BY <1>3, <2>1, FS_EmptySet
  <1> QED BY <1>2, <1>3

-----------------------------------------------------------------------------

\* The server never acknowledges a number the client has not used, and it believes
\* that the client closed only when it did, with its FIN counted once (runSynAck,
\* runEst), with and without options.
THEOREM TakenCorrect == Spec => []TakenWasSent
  <1>1. IInv => TakenWasSent
    BY DEF IInv
  <1> QED BY <1>1, Invariant, PTL

\* The members of the connection, the segments and the packets keep their types,
\* whatever is lost, copied or repeated, for a client without options; the server's state is one of the two with a
\* function, or the entry is gone.
THEOREM TcpTypeCorrect == ASSUME NoOptions PROVE Spec => []TypeOK
  <1>1. StreamInv => TypeOK
    <2>1. InOrder \in SUBSET Segments /\ Requests \in SUBSET Packets /\ Answers \in SUBSET Packets
      BY DEF InOrder, Requests, Answers
    <2>2. Seq(Nat) \in SUBSET Seq(Int)
      BY SeqMonotonic
    <2> QED BY <2>1, <2>2, SeqMonotonic DEF StreamInv, IInv, Numbers, Queues, Accepted, Counters, TypeOK
  <1> QED BY <1>1, StreamInvariant, PTL

\* The client gets its own bytes back in their order: moving, repeating and
\* renumbering segments (runEst, TcpConCtlSimple) never puts a byte under another
\* number, for a client without options and every segment size, window and number of
\* faults.
THEOREM EchoIsPrefixCorrect == ASSUME NoOptions PROVE Spec => []EchoIsPrefix
  <1>1. StreamInv => EchoIsPrefix
    BY DEF StreamInv, Accepted
  <1> QED BY <1>1, StreamInvariant, PTL

\* While nothing is lost, held back or closed early, and the server has sent no
\* segment again, no handler refuses a packet of the client (runSynAck, runEst,
\* runAckFin), for a client without options and every segment size, window, payload
\* and amount of data.
THEOREM CalmNoResetCorrect == ASSUME NoOptions PROVE Spec => []CalmNoReset
  <1>1. CalmInv => CalmNoReset
    BY DEF CalmInv, Phase, CalmNoReset
  <1> QED BY <1>1, CalmInvariant, PTL

\* The segments of a connection hold every byte the client has not got, and no
\* byte twice, for a client without options and windows that are closed or hold all
\* the client sends.
THEOREM BytesHeldOnceCorrect == ASSUME NoOptions, WideWindows PROVE Spec => []BytesHeldOnce
  <1>1. StreamInv /\ HeldInv => BytesHeldOnce
    <2> SUFFICES ASSUME StreamInv, HeldInv, state # "none", NEW k \in 1..(StreamEnd - 1)
                 PROVE  LET held == Cardinality(InQueue(toSend, k)) + Cardinality(InQueue(sent, k))
                        IN  held <= 1 /\ (k >= rcv => held = 1)
      BY DEF BytesHeldOnce
    <2>1. HeldBy(toSend, sent, StreamEnd, rcv)
      BY DEF HeldInv, Held
    <2>2. StreamEnd \in Int /\ k \in Nat /\ 1 <= k /\ k < StreamEnd /\ rcv \in Nat
      BY DEF StreamInv, IInv, Numbers, Accepted, StreamEnd
    <2>3. /\ Cardinality(InQueue(toSend, k)) = IF Somewhere(toSend, k) THEN 1 ELSE 0
          /\ Cardinality(InQueue(sent, k)) = IF Somewhere(sent, k) THEN 1 ELSE 0
      BY <2>1, <2>2, InQueueCounts DEF HeldBy
    <2>4. /\ ~(Somewhere(toSend, k) /\ Somewhere(sent, k))
          /\ rcv <= k => Somewhere(toSend, k) \/ Somewhere(sent, k)
      BY <2>1, <2>2 DEF HeldBy, Apart
    <2> QED BY <2>2, <2>3, <2>4
  <1> QED BY <1>1, StreamInvariant, HeldInvariant, PTL
=============================================================================
