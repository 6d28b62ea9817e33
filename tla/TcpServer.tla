------------------------------ MODULE TcpServer ------------------------------
(***************************************************************************)
(* The TCP server with its echo protocol (tcp.cpp, tcp.hpp,                *)
(* tcpConCtlSimple.hpp, tcpProtoJoke.hpp) and one connection of it.        *)
(*                                                                         *)
(* The client is external: a TCP that opens the connection, sends its      *)
(* bytes in order, accepts bytes in order, acknowledges what it gets,      *)
(* closes, and sends again from its first unacknowledged byte.  The byte   *)
(* numbers of both sides start at 0 and do not wrap.  A payload is the     *)
(* position of its first byte in the client's stream (from) and a length.  *)
(* A client's segment may carry option bytes in front of its payload.  The *)
(* server offers none, so an ordinary client sends none once it has the    *)
(* SYN-ACK (Options = {0}); the code echoes them as if they were payload   *)
(* but does not count them as received, and so does the model.             *)
(***************************************************************************)
EXTENDS Integers, Sequences, FiniteSets, SequencesExt

CONSTANTS
    MSS,            \* 1460 in the code
    SynLen,         \* length of the whole SYN-ACK frame, 54 in the code
    MaxData,        \* bound: bytes the client sends
    Sizes,          \* payload sizes of the client's packets
    Windows,        \* receive windows the client announces
    Options,        \* numbers of option bytes in the headers of its packets
    MaxFaults       \* bound: faults of the network and of the client, see below

ASSUME TcpAssumption ==
    /\ MSS \in Nat \ {0} /\ SynLen \in Nat /\ MaxData \in Nat /\ MaxFaults \in Nat
    /\ Sizes \subseteq Nat \ {0} /\ Windows \subseteq Nat
    /\ Options \subseteq Nat /\ 0 \in Options

VARIABLES
    state,                  \* of the table's entry; "none" when there is none
    seqLocal, seqRemote, closing,       \* struct connection
    toSend, sent,           \* dataToSend, dataAlreadySent
    lastAck, alreadySeen,   \* TcpConCtlSimple
    toServer, toClient,     \* packets under way, in order
    cstate,                 \* of the client
    nxt, una, rcv,          \* its next and first unacknowledged number, and the expected one
    got,                    \* positions of the bytes it accepted
    faults,                 \* packets lost, copied or sent again, full windows, early closes
    resent                  \* history: the server sent a segment again

control == <<lastAck, alreadySeen, resent>>

server == <<state, seqLocal, seqRemote, closing, toSend, sent, control>>

client == <<cstate, nxt, una, rcv, got>>

vars == <<server, toServer, toClient, client, faults>>

\* No fault so far, and the server has not taken packets with the same number
\* for repeated acknowledgements.
calm == faults = 0 /\ ~resent

Segment(seq, from, len) == [seq |-> seq, from |-> from, len |-> len]

Packet(flags, seq, ack, from, len, win, opt) ==
    [flags |-> flags, seq |-> seq, ack |-> ack, from |-> from, len |-> len, win |-> win,
     opt |-> opt]

\* Repeated acknowledgements that make TcpConCtlSimple reset.
ResetAfter == 3

\* Faulty variant for the checks: every packet that meets a closing connection
\* counts as its FIN.
Fin_Closing(p) == IF "FIN" \in p.flags \/ closing THEN 1 ELSE 0

Fin(p) == IF "FIN" \in p.flags THEN 1 ELSE 0

\* setOffset(5) before the second look at the header: what follows its first 20
\* bytes, the options too, is payload now.  Option bytes are no bytes of the
\* stream; they get the positions before the payload's, which nothing takes for
\* the expected ones.
DataLen(p) == p.len + p.opt

Start(p) == p.from - p.opt

Init ==
    /\ state = "none"
    /\ seqLocal = 0 /\ seqRemote = 0 /\ closing = FALSE
    /\ toSend = <<>> /\ sent = <<>>
    /\ lastAck = 0 /\ alreadySeen = 0
    /\ toServer = <<>> /\ toClient = <<>>
    /\ cstate = "closed" /\ nxt = 0 /\ una = 0 /\ rcv = 0 /\ got = <<>>
    /\ faults = 0 /\ resent = FALSE

-----------------------------------------------------------------------------
(* The server's functions; p is the packet being processed.                *)

\* The packet goes back as the answer, with these fields.
Answer(flags, seq, ack, from, len) ==
    toClient' = Append(toClient, Packet(flags, seq, ack, from, len, 0, 0))

\* A refusal cut to 20 bytes of header.  The offset is left as it was, so with
\* options the packet is shorter than its own header: no TCP takes it.
Refusal(p, seq, ack) ==
    IF p.opt = 0 THEN Answer({"RST"}, seq, ack, p.from, 0) ELSE UNCHANGED toClient

\* Faulty variant for the checks: the transition to fin, which has no function.
End_Fin ==
    /\ state' = "fin"
    /\ UNCHANGED <<seqLocal, seqRemote, closing, toSend, sent, control>>

\* Transition to END: the entry of the table goes, the connection object and
\* its segments are lost.
End ==
    /\ state' = "none"
    /\ UNCHANGED <<seqLocal, seqRemote, closing, toSend, sent, control>>

SynAck(p) ==
    /\ state = "none" /\ p.flags = {"SYN"}
    /\ state' = "est"
    /\ seqRemote' = p.seq + 1 /\ seqLocal' = 1 /\ closing' = FALSE
    /\ toSend' = <<>> /\ sent' = <<Segment(0, 0, SynLen)>>
    /\ lastAck' = 0 /\ alreadySeen' = 0 /\ UNCHANGED resent
    /\ Answer({"SYN", "ACK"}, 0, p.seq + 1, 0, 0)

SynAckRefuse(p) ==
    /\ state = "none" /\ p.flags # {"SYN"}
    /\ Refusal(p, p.seq, p.ack)
    /\ End

EstRefuse(p) ==
    /\ state = "est" /\ ("SYN" \in p.flags \/ "ACK" \notin p.flags \/ "RST" \in p.flags)
    /\ Refusal(p, seqLocal, 0)
    /\ End

\* The segments of q that I numbers, in the order of q.
Part(q, I) ==
    [k \in 1..Cardinality(I) |->
        q[CHOOSE i \in I : Cardinality({j \in I : j <= i}) = k]]

Unacked(ack) == {i \in DOMAIN sent : ack <= sent[i].seq + sent[i].len}

\* TcpConCtlSimple::handlePacket: how often this acknowledgement was repeated.
\* Nothing tells a larger number from ResetAfter.
Repeats(ack) ==
    IF lastAck = ack /\ ack < seqLocal
    THEN IF alreadySeen < ResetAfter THEN alreadySeen + 1 ELSE ResetAfter
    ELSE 0

\* TcpConCtlSimple::reset asks for the segments behind the last acknowledgement.
ToRepeat(ack) ==
    {i \in Unacked(ack) : Repeats(ack) = ResetAfter /\ sent[i].seq > ack}

\* Faulty variant for the checks: the segments are copied, not moved.
StillSent_All(ack) == Part(sent, Unacked(ack))

StillSent(ack) == Part(sent, Unacked(ack) \ ToRepeat(ack))

\* The segments move to the front one by one, which turns their order around.
Requeued(ack) == Reverse(Part(sent, ToRepeat(ack))) \o toSend

CountAck(ack) ==
    /\ lastAck' = ack /\ alreadySeen' = Repeats(ack)
    /\ resent' = (resent \/ ToRepeat(ack) # {})

\* A packet with another number than the expected one is not used: go-back-n.
EstUnexpected(p) ==
    /\ state = "est" /\ "ACK" \in p.flags /\ p.flags \cap {"SYN", "RST"} = {}
    /\ p.seq # seqRemote
    /\ CountAck(p.ack)
    /\ toSend' = Requeued(p.ack) /\ sent' = StillSent(p.ack)
    /\ Answer({"ACK"}, IF toSend' = <<>> THEN seqLocal ELSE Head(toSend').seq,
              seqRemote, p.from, 0)
    /\ UNCHANGED <<state, seqLocal, seqRemote, closing>>

\* Faulty variant for the checks: the bytes are counted before their segments get
\* their numbers.
Echo_Counted(p) ==
    [i \in 1..((DataLen(p) + MSS - 1) \div MSS) |->
        Segment(seqLocal + DataLen(p) + (i - 1) * MSS, Start(p) + (i - 1) * MSS,
                IF DataLen(p) - (i - 1) * MSS < MSS THEN DataLen(p) - (i - 1) * MSS ELSE MSS)]

\* TcpIface::sendData of the received payload, in segments of at most MSS.
Echo(p) ==
    [i \in 1..((DataLen(p) + MSS - 1) \div MSS) |->
        Segment(seqLocal + (i - 1) * MSS, Start(p) + (i - 1) * MSS,
                IF DataLen(p) - (i - 1) * MSS < MSS THEN DataLen(p) - (i - 1) * MSS ELSE MSS)]

\* Bytes in the first n segments of q.
Bytes(q) == LET b[n \in 0..Len(q)] == IF n = 0 THEN 0 ELSE b[n - 1] + q[n].len IN b

\* The loop sends the first n segments of q whole and has then so much room left
\* in the window.
Whole(q, n, room, win) ==
    LET b == Bytes(q)
    IN  /\ IF n = 0 THEN room = win ELSE b[n - 1] < win /\ b[n] + room = win
        /\ n < Len(q) => room = 0 \/ q[n + 1].len > room

\* The loop of runEst with n whole segments: what it leaves in dataToSend and
\* what it appends to dataAlreadySent.  Of a segment that does not fit neither
\* the part that is sent nor the rest keeps a byte.
Loop(q, n, room) ==
    IF n = Len(q) \/ room = 0
    THEN [rest |-> SubSeq(q, n + 1, Len(q)), moved |-> SubSeq(q, 1, n)]
    ELSE LET s == q[n + 1]
         IN  [rest |-> <<Segment(s.seq + room, s.from, 0)>> \o SubSeq(q, n + 2, Len(q)),
              moved |-> SubSeq(q, 1, n) \o <<Segment(s.seq, s.from, 0)>>]

\* Faulty variant for the checks: the number of the answer is not set again in
\* the loop.
Payload_OldNumber(p, moved) ==
    IF moved = <<>> THEN Segment(seqLocal, Start(p), DataLen(p))
    ELSE Segment(seqLocal, moved[Len(moved)].from, moved[Len(moved)].len)

\* The payload of the answer: every segment of the loop is written into the same
\* packet, so the last one is sent.  Without any the packet keeps its own.
Payload(p, moved) ==
    IF moved = <<>> THEN Segment(seqLocal, Start(p), DataLen(p)) ELSE moved[Len(moved)]

EstTake(p) ==
    /\ state = "est" /\ "ACK" \in p.flags /\ p.flags \cap {"SYN", "RST"} = {}
    /\ p.seq = seqRemote
    /\ CountAck(p.ack)
    /\ closing' = (closing \/ "FIN" \in p.flags)
    /\ seqRemote' = seqRemote + p.len + Fin(p)
    /\ \E q \in {Requeued(p.ack) \o Echo(p)} :
       \E n \in 0..Len(q), room \in 0..p.win : \E loop \in {Loop(q, n, room)} :
        LET out == Payload(p, loop.moved)
            fin == closing' /\ loop.rest = <<>>
        IN  /\ Whole(q, n, room, p.win)
            /\ toSend' = loop.rest
            /\ sent' = StillSent(p.ack) \o loop.moved
            /\ seqLocal' = seqLocal + DataLen(p) + (IF fin THEN 1 ELSE 0)
            /\ state' = IF fin THEN "ack_fin" ELSE "est"
            /\ IF DataLen(p) = 0 /\ loop.moved = <<>> /\ ~fin
               THEN UNCHANGED toClient           \* freePkt
               ELSE Answer(IF fin THEN {"ACK", "FIN"} ELSE {"ACK"},
                           out.seq, seqRemote', out.from, out.len)

\* Faulty variant for the checks: the FIN that may have come before is required.
AckFinGood_FinNeeded(p) ==
    /\ {"ACK", "FIN"} \subseteq p.flags /\ p.flags \cap {"SYN", "RST"} = {}
    /\ p.ack = seqLocal /\ p.seq = seqRemote

AckFinGood(p) ==
    /\ "ACK" \in p.flags /\ p.flags \cap {"SYN", "RST"} = {}
    /\ p.ack = seqLocal /\ p.seq = seqRemote

AckFinRefuse(p) ==
    /\ state = "ack_fin" /\ ~AckFinGood(p)
    /\ Answer({"RST"}, p.seq, p.ack, p.from, p.len)
    /\ End

\* A FIN in ack_fin ends the connection, any other packet is freed.
AckFinLast(p) ==
    /\ state = "ack_fin" /\ AckFinGood(p) /\ "FIN" \in p.flags
    /\ Answer({"ACK"}, seqLocal + 1, p.seq + 1, Start(p), DataLen(p))
    /\ End

AckFinWait(p) ==
    /\ state = "ack_fin" /\ AckFinGood(p) /\ "FIN" \notin p.flags
    /\ UNCHANGED <<server, toClient>>

\* One packet of a batch.
ServerPkt ==
    /\ toServer # <<>>
    /\ toServer' = Tail(toServer)
    /\ LET p == Head(toServer)
       IN  \/ SynAck(p) \/ SynAckRefuse(p)
           \/ EstRefuse(p) \/ EstUnexpected(p) \/ EstTake(p)
           \/ AckFinRefuse(p) \/ AckFinLast(p) \/ AckFinWait(p)
    /\ UNCHANGED <<client, faults>>

-----------------------------------------------------------------------------
(* The client and the network, external.                                   *)

Send(flags, seq, from, len, win) ==
    \E opt \in Options :
        toServer' = Append(toServer, Packet(flags, seq, rcv', from, len, win, opt))

Irregular(b) ==
    /\ faults' = faults + (IF b THEN 1 ELSE 0)
    /\ faults' <= MaxFaults

\* A window without room for a segment makes the server wait.
Announce(win) == win \in Windows /\ Irregular(win < MSS)

Connect ==
    /\ cstate = "closed"
    /\ cstate' = "syn" /\ nxt' = 1 /\ rcv' = 0
    /\ \E win \in Windows : Announce(win) /\ Send({"SYN"}, 0, 0, 0, win)
    /\ UNCHANGED <<server, toClient, una, got>>

\* Byte k of the stream has the number k.
SendData ==
    /\ cstate = "est"
    /\ \E len \in Sizes, win \in Windows :
        /\ nxt + len <= MaxData + 1
        /\ nxt' = nxt + len
        /\ Announce(win) /\ rcv' = rcv
        /\ Send({"ACK"}, nxt, nxt, len, win)
    /\ UNCHANGED <<server, toClient, cstate, una, got>>

\* A close before every echo arrived is early.
Close ==
    /\ cstate = "est"
    /\ cstate' = "fin" /\ nxt' = nxt + 1
    /\ rcv' = rcv
    /\ \E win \in Windows :
        Irregular(win < MSS \/ rcv # nxt) /\ Send({"ACK", "FIN"}, nxt, nxt, 0, win)
    /\ UNCHANGED <<server, toClient, una, got>>

ReceiveSynAck(p) ==
    /\ cstate = "syn" /\ p.flags = {"SYN", "ACK"} /\ p.ack = 1
    /\ cstate' = "est" /\ una' = 1 /\ rcv' = p.seq + 1
    /\ \E win \in Windows : Announce(win) /\ Send({"ACK"}, nxt, nxt, 0, win)
    /\ UNCHANGED got

\* The server's FIN was accepted: whatever follows it is no part of the stream.
Over == rcv > Len(got) + 1

\* The part of the payload behind what was accepted is accepted; every packet
\* that carries something, or comes too early, is acknowledged.
Receive(p) ==
    /\ cstate \in {"est", "fin"} /\ "RST" \notin p.flags
    /\ una' = IF p.ack \in una..nxt THEN p.ack ELSE una
    /\ LET fresh == IF ~Over /\ p.seq <= rcv /\ rcv < p.seq + p.len
                    THEN p.seq + p.len - rcv ELSE 0
           last  == ~Over /\ "FIN" \in p.flags /\ p.seq + p.len = rcv + fresh
       IN  /\ got' = got \o [i \in 1..fresh |-> p.from + (rcv - p.seq) + i - 1]
           /\ rcv' = rcv + fresh + (IF last THEN 1 ELSE 0)
    /\ IF p.len > 0 \/ p.flags \cap {"SYN", "FIN"} # {} \/ p.seq > rcv
       THEN \E win \in Windows : Announce(win) /\ Send({"ACK"}, nxt, nxt, 0, win)
       ELSE UNCHANGED <<toServer, faults>>
    /\ UNCHANGED cstate

ReceiveRst(p) ==
    /\ cstate # "reset" /\ "RST" \in p.flags
    /\ cstate' = "reset"
    /\ UNCHANGED <<una, rcv, got, toServer, faults>>

Ignore(p) ==
    /\ \/ cstate = "reset"
       \/ cstate = "syn" /\ "RST" \notin p.flags /\ ~(p.flags = {"SYN", "ACK"} /\ p.ack = 1)
    /\ UNCHANGED <<cstate, una, rcv, got, toServer, faults>>

ClientPkt ==
    /\ toClient # <<>>
    /\ toClient' = Tail(toClient)
    /\ LET p == Head(toClient)
       IN  ReceiveSynAck(p) \/ Receive(p) \/ ReceiveRst(p) \/ Ignore(p)
    /\ UNCHANGED <<server, nxt>>

\* The client's timer: one packet again from the first unacknowledged number.
Resend ==
    /\ cstate \in {"est", "fin"} /\ una < nxt /\ rcv' = rcv
    /\ LET data == (IF cstate = "fin" THEN nxt - 1 ELSE nxt) - una
       IN  \/ /\ data = 0
              /\ \E win \in Windows : Send({"ACK", "FIN"}, una, una, 0, win)
           \/ \E len \in Sizes, win \in Windows :
                /\ len <= data
                /\ Send({"ACK"}, una, una, len, win)
    /\ UNCHANGED <<cstate, nxt, una, got, server, toClient>>

Lose ==
    \/ toServer # <<>> /\ toServer' = Tail(toServer) /\ UNCHANGED toClient
    \/ toClient # <<>> /\ toClient' = Tail(toClient) /\ UNCHANGED toServer

\* A copy of the oldest packet arrives after all others.
Copy ==
    \/ toServer # <<>> /\ toServer' = Append(toServer, Head(toServer)) /\ UNCHANGED toClient
    \/ toClient # <<>> /\ toClient' = Append(toClient, Head(toClient)) /\ UNCHANGED toServer

Fault ==
    /\ Irregular(TRUE)
    /\ \/ Resend
       \/ (Lose \/ Copy) /\ UNCHANGED <<server, client>>

Next == ServerPkt \/ Connect \/ SendData \/ Close \/ ClientPkt \/ Fault

\* The event loop asks for packets for ever, and the client reads what comes.
Fairness == WF_vars(ServerPkt) /\ WF_vars(ClientPkt)

Spec == Init /\ [][Next]_vars /\ Fairness

-----------------------------------------------------------------------------
(* Properties.                                                             *)

Flags == SUBSET {"SYN", "ACK", "FIN", "RST"}

Packets ==
    [flags : Flags, seq : Nat, ack : Nat, from : Int, len : Nat, win : Nat, opt : Options]

Segments == [seq : Nat, from : Int, len : Nat]

\* Types of the connection, the packets and the client; only the three states
\* with a registered function occur.
TypeOK ==
    /\ state \in {"none", "est", "ack_fin"}
    /\ seqLocal \in Nat /\ seqRemote \in Nat /\ closing \in BOOLEAN
    /\ toSend \in Seq(Segments) /\ sent \in Seq(Segments)
    /\ lastAck \in Nat /\ alreadySeen \in 0..ResetAfter
    /\ toServer \in Seq(Packets) /\ toClient \in Seq(Packets)
    /\ cstate \in {"closed", "syn", "est", "fin", "reset"}
    /\ nxt \in Nat /\ una \in Nat /\ rcv \in Nat /\ got \in Seq(Int)
    /\ faults \in 0..MaxFaults /\ resent \in BOOLEAN

\* The bytes the client accepts are the bytes it sent, in order, whatever was
\* lost, copied, repeated or held back: a number of the server always stands for
\* the same byte (runEst, segments and the numbers it gives them).
EchoIsPrefix == \A i \in 1..Len(got) : got[i] = i

\* The server acknowledges no number the client has not used, and once it believes
\* that the client closed (closeConnectionAfterSending), the client did, with
\* nothing left to come: the FIN counts once, however often it or older packets
\* arrive while the echoes wait for the window (runEst).
TakenWasSent ==
    /\ state # "none" => seqRemote <= nxt
    /\ state # "none" /\ closing => seqRemote = nxt /\ cstate \in {"fin", "reset"}

\* The segments of q that hold the byte with number k; the SYN is no byte of the
\* stream.
InQueue(q, k) == {i \in DOMAIN q : q[i].seq > 0 /\ q[i].seq <= k /\ k < q[i].seq + q[i].len}

\* The number behind the last byte of the stream the server has given out.
StreamEnd == IF state = "ack_fin" THEN seqLocal - 1 ELSE seqLocal

\* Every byte the client has not got is in exactly one of the segments of the
\* connection, and none is in two: moving and erasing segments (runEst) loses no
\* byte and keeps no second copy.  For windows that split no segment; splitting
\* one loses its bytes.
BytesHeldOnce ==
    state # "none" =>
        \A k \in 1..(StreamEnd - 1) :
            LET held == Cardinality(InQueue(toSend, k)) + Cardinality(InQueue(sent, k))
            IN  held <= 1 /\ (k >= rcv => held = 1)

\* Without a fault, a full window or an early close, and with no segment sent
\* again, no handler refuses a packet of the client (runEst, runAckFin).
CalmNoReset == calm => cstate # "reset"

\* Under the same conditions every byte the client sends comes back (sendData and
\* the loop of runEst).
EchoComes ==
    \A n \in 1..MaxData : cstate = "est" /\ nxt > n ~> Len(got) >= n \/ ~calm
=============================================================================
