--------------------------------- MODULE Dtls ---------------------------------
(***************************************************************************)
(* The DTLS server and client (dtlsServer.cpp, dtlsClient.cpp): each feeds *)
(* the datagrams of a connection to an OpenSSL engine through a BIO, and   *)
(* sends what the engine wrote to another.  The client sends one message   *)
(* when the handshake is done and closes when it has the echo.             *)
(*                                                                         *)
(* The engine is external: a handshake of four flights, of which a side    *)
(* sends the next when it has all of the last (reordering is OpenSSL's     *)
(* affair), and records that it gives out once.  It may repeat its flight  *)
(* when its timer expired and it is called.  The network reorders, loses   *)
(* and copies datagrams.                                                   *)
(*                                                                         *)
(* Builds of the project keep their assertions (CMakeLists.txt:21-25), so  *)
(* a failed one ends the process.  RUN_TEARDOWN is registered on both      *)
(* sides, but no function transitions to it.                               *)
(***************************************************************************)
EXTENDS Naturals, Sequences, Functions

CONSTANTS
    Idents,         \* connections
    Parts,          \* number of datagrams of each flight but the first
    MaxFaults       \* bound: datagrams lost, copied or sent again

ASSUME DtlsAssumption == Parts \in Nat \ {0} /\ MaxFaults \in Nat

VARIABLES
    clientState, serverState,   \* states of the two tables
    clientSSL, serverSSL,       \* the engines
    clientBio, serverBio,       \* wbio: datagrams the engines have written
    sessions,                   \* number of engines the server made for a connection
    net,
    echoed,                     \* the client read the echo
    forgotten,                  \* the server ended an established connection
    crashed,                    \* an assertion of the client failed
    faults

clientSide == <<clientState, clientSSL, clientBio, echoed, crashed>>

serverSide == <<serverState, serverSSL, serverBio, sessions, forgotten>>

vars == <<clientSide, serverSide, net, faults>>

Datagram(to, id, kind, part, session) ==
    [to |-> to, id |-> id, kind |-> kind, part |-> part, session |-> session, copy |-> FALSE]

Flight(to, id, kind, session) ==
    [p \in 1..Parts |-> Datagram(to, id, kind, p, session)]

\* An engine: what it waits for, its session, the parts of the flight it has, and
\* whether it has read the peer's message.
Engine(phase, session) == [phase |-> phase, session |-> session, has |-> {}, read |-> FALSE]

Init ==
    /\ clientState = [i \in Idents |-> "none"]
    /\ serverState = [i \in Idents |-> "none"]
    /\ clientSSL = [i \in Idents |-> Engine("start", 0)]
    /\ serverSSL = [i \in Idents |-> Engine("start", 0)]
    /\ clientBio = [i \in Idents |-> <<>>]
    /\ serverBio = [i \in Idents |-> <<>>]
    /\ sessions = [i \in Idents |-> 0]
    /\ net = {}
    /\ echoed = [i \in Idents |-> FALSE]
    /\ forgotten = [i \in Idents |-> FALSE]
    /\ crashed = FALSE /\ faults = 0

-----------------------------------------------------------------------------
(* writeAllDataAvailable.                                                  *)

\* Faulty variant for the checks: without the loop for the additional packets.
Left_Rest(bio) == IF bio = <<>> THEN <<>> ELSE Tail(bio)

\* What stays in the BIO: the first datagram goes into the packet that came in,
\* each other one into a packet of the pool.
Left(bio) == <<>>

Sent(bio) == {bio[k] : k \in 1..(Len(bio) - Len(Left(bio)))}

ClientWrites(i, m, out) ==
    /\ net' = (net \ m) \cup Sent(clientBio[i] \o out)
    /\ clientBio' = [clientBio EXCEPT ![i] = Left(clientBio[i] \o out)]

ServerWrites(i, m, out) ==
    /\ net' = (net \ m) \cup Sent(serverBio[i] \o out)
    /\ serverBio' = [serverBio EXCEPT ![i] = Left(serverBio[i] \o out)]

-----------------------------------------------------------------------------
(* OpenSSL.                                                                *)

\* Taking part m of the flight the engine e waits for.
With(e, m) == [e EXCEPT !.has = @ \cup {m.part}, !.session = m.session]

Complete(e, m) == With(e, m).has = 1..Parts

\* The handshake call has read m: the engine's next state and what it writes.
Handshake(e, m, i, awaited, next, after, to) ==
    IF e.phase = awaited /\ m.kind = awaited /\ e.session \in {0, m.session}
    THEN IF Complete(e, m)
         THEN [ssl |-> Engine(after, m.session), out |-> Flight(to, i, next, m.session)]
         ELSE [ssl |-> With(e, m), out |-> <<>>]
    ELSE [ssl |-> e, out |-> <<>>]

\* SSL_accept.  The ClientHello is one datagram and opens session s.
Accept(e, m, s) ==
    IF e.phase = "start" /\ m.kind = "ClientHello"
    THEN [ssl |-> Engine("ClientFlight", s), out |-> Flight("client", m.id, "ServerFlight", s)]
    ELSE Handshake(e, m, m.id, "ClientFlight", "Finished", "open", "client")

\* SSL_connect.  The last flight is not answered.
ConnectSSL(e, m) ==
    LET h == Handshake(e, m, m.id, "ServerFlight", "ClientFlight", "Finished", "server")
        l == Handshake(e, m, m.id, "Finished", "none", "open", "server")
    IN  IF e.phase = "Finished" THEN [l EXCEPT !.out = <<>>] ELSE h

\* Faulty variant for the checks: a flight too early.
InitFinished_Early(e) == e.phase \in {"Finished", "open"}

\* SSL_is_init_finished, on which both sides become ESTABLISHED.
InitFinished(e) == e.phase = "open"

\* SSL_read gives out a message of the session once.
Reads(e, m, kind) == m.kind = kind /\ m.session = e.session /\ ~e.read

-----------------------------------------------------------------------------
(* The server: a datagram m of connection m.id.                            *)

\* findState calls the factory for a connection that is not in the table.
Known(i) == serverState[i] # "none"

\* The server's engine before the datagram is processed.
Current(i) == IF Known(i) THEN serverSSL[i] ELSE Engine("start", 0)

\* Only when the handshake is finished the client writes its message, so the
\* SSL_read here finds none.
ServerHandshake(m) ==
    LET i == m.id
        s == IF Known(i) THEN sessions[i] ELSE sessions[i] + 1
        r == Accept(Current(i), m, s)
    IN  /\ serverState[i] \in {"none", "HANDSHAKE"}
        /\ sessions' = [sessions EXCEPT ![i] = s]
        /\ serverSSL' = [serverSSL EXCEPT ![i] = r.ssl]
        /\ serverState' = [serverState EXCEPT ![i] =
               IF InitFinished(r.ssl) THEN "ESTABLISHED" ELSE "HANDSHAKE"]
        /\ ServerWrites(i, {m}, r.out)
        /\ UNCHANGED forgotten

\* Faulty variant for the checks: the server waits for the client's answer to
\* its close_notify, as the commented transition did.
AfterShutdown_Teardown == "RUN_TEARDOWN"

\* The state after SSL_shutdown: DELETED, the table forgets the connection.
AfterShutdown == "none"

\* Faulty variant for the checks: whatever SSL_read does not return as data ends
\* the connection.
PeerShutdown_NoData(e, m) == ~Reads(e, m, "Data")

\* SSL_get_shutdown: the peer's close_notify was read.
PeerShutdown(e, m) == m.kind = "Close" /\ m.session = e.session

\* sendData: the message goes back, a close_notify is answered.  The engine and
\* the connection object of a forgotten connection are lost.
ServerEcho(m) ==
    /\ serverState[m.id] = "ESTABLISHED"
    /\ Reads(serverSSL[m.id], m, "Data")
    /\ serverSSL' = [serverSSL EXCEPT ![m.id].read = TRUE]
    /\ ServerWrites(m.id, {m}, <<Datagram("client", m.id, "Echo", 1, m.session)>>)
    /\ UNCHANGED <<serverState, sessions, forgotten>>

ServerClose(m) ==
    /\ serverState[m.id] = "ESTABLISHED"
    /\ ~Reads(serverSSL[m.id], m, "Data") /\ PeerShutdown(serverSSL[m.id], m)
    /\ serverState' = [serverState EXCEPT ![m.id] = AfterShutdown]
    /\ forgotten' = [forgotten EXCEPT ![m.id] = TRUE]
    /\ ServerWrites(m.id, {m}, <<Datagram("client", m.id, "Close", 1, serverSSL[m.id].session)>>)
    /\ UNCHANGED <<serverSSL, sessions>>

\* SSL_read finds nothing it wants: a copy, or a handshake message.
ServerDrop(m) ==
    /\ serverState[m.id] = "ESTABLISHED"
    /\ ~Reads(serverSSL[m.id], m, "Data") /\ ~PeerShutdown(serverSSL[m.id], m)
    /\ ServerWrites(m.id, {m}, <<>>)
    /\ UNCHANGED <<serverState, serverSSL, sessions, forgotten>>

ServerPkt ==
    /\ \E m \in net : m.to = "server" /\
        (ServerHandshake(m) \/ ServerEcho(m) \/ ServerClose(m) \/ ServerDrop(m))
    /\ UNCHANGED <<clientSide, faults>>

-----------------------------------------------------------------------------
(* The client.                                                             *)

\* DtlsClient_connect: addState runs initHandshake.
Connect(i) ==
    /\ ~crashed /\ clientState[i] = "none"
    /\ clientState' = [clientState EXCEPT ![i] = "HANDSHAKE"]
    /\ clientSSL' = [clientSSL EXCEPT ![i] = Engine("ServerFlight", 0)]
    /\ ClientWrites(i, {}, <<Datagram("server", i, "ClientHello", 1, 0)>>)
    /\ UNCHANGED <<serverSide, echoed, crashed, faults>>

\* runHandshake.  When the handshake is finished the message goes out in a packet
\* of its own.
ClientHandshake(m) ==
    LET r == ConnectSSL(clientSSL[m.id], m)
        open == InitFinished(r.ssl)
        first == IF open THEN <<Datagram("server", m.id, "Data", 1, m.session)>> ELSE <<>>
    IN  /\ clientState[m.id] = "HANDSHAKE"
        /\ clientSSL' = [clientSSL EXCEPT ![m.id] = r.ssl]
        /\ clientState' = [clientState EXCEPT ![m.id] = IF open THEN "ESTABLISHED" ELSE "HANDSHAKE"]
        /\ ClientWrites(m.id, {m}, r.out \o first)
        /\ UNCHANGED <<echoed, crashed>>

\* sendData: the echo is answered with a close_notify.
ClientEcho(m) ==
    /\ clientState[m.id] = "ESTABLISHED"
    /\ Reads(clientSSL[m.id], m, "Echo")
    /\ clientSSL' = [clientSSL EXCEPT ![m.id].read = TRUE]
    /\ echoed' = [echoed EXCEPT ![m.id] = TRUE]
    /\ ClientWrites(m.id, {m}, <<Datagram("server", m.id, "Close", 1, m.session)>>)
    /\ UNCHANGED <<clientState, crashed>>

\* assert(readLen > 0) of sendData fails.
ClientAssertion(m) ==
    /\ clientState[m.id] = "ESTABLISHED"
    /\ ~Reads(clientSSL[m.id], m, "Echo")
    /\ crashed' = TRUE /\ net' = net \ {m}
    /\ UNCHANGED <<clientState, clientSSL, clientBio, echoed>>

ClientPkt ==
    /\ ~crashed
    /\ \E m \in net : m.to = "client" /\
        (ClientHandshake(m) \/ ClientEcho(m) \/ ClientAssertion(m))
    /\ UNCHANGED <<serverSide, faults>>

-----------------------------------------------------------------------------
(* The network, and the timers of OpenSSL.                                 *)

Lose == \E m \in net : net' = net \ {m}

Copy == \E m \in net : ~m.copy /\ net' = net \cup {[m EXCEPT !.copy = TRUE]}

\* A handshake call after the timer expired repeats the last flight; what it
\* reads is of no use.
Repeat ==
    \E i \in Idents, m \in net :
        /\ m.id = i
        /\ \/ /\ m.to = "server" /\ serverState[i] = "HANDSHAKE"
              /\ Accept(serverSSL[i], m, sessions[i]).ssl = serverSSL[i]
              /\ serverSSL[i].phase = "ClientFlight"
              /\ net' = (net \ {m}) \cup
                        Range(Flight("client", i, "ServerFlight", sessions[i]))
           \/ /\ m.to = "client" /\ clientState[i] = "HANDSHAKE" /\ ~crashed
              /\ ConnectSSL(clientSSL[i], m).ssl = clientSSL[i]
              /\ clientSSL[i].phase = "Finished"
              /\ net' = (net \ {m}) \cup
                        Range(Flight("server", i, "ClientFlight", clientSSL[i].session))

Fault ==
    /\ faults < MaxFaults /\ faults' = faults + 1
    /\ Lose \/ Copy \/ Repeat
    /\ UNCHANGED <<clientSide, serverSide>>

Next == ServerPkt \/ ClientPkt \/ (\E i \in Idents : Connect(i)) \/ Fault

\* Both event loops ask for packets for ever.
Fairness == WF_vars(ServerPkt) /\ WF_vars(ClientPkt)

Spec == Init /\ [][Next]_vars /\ Fairness

-----------------------------------------------------------------------------
(* Properties.                                                             *)

Sessions == 0..2

Datagrams ==
    [to : {"client", "server"}, id : Idents,
     kind : {"ClientHello", "ServerFlight", "ClientFlight", "Finished", "Data", "Echo", "Close"},
     part : 1..Parts, session : Sessions, copy : BOOLEAN]

Engines ==
    [phase : {"start", "ServerFlight", "ClientFlight", "Finished", "open"},
     session : Sessions, has : SUBSET (1..Parts), read : BOOLEAN]

\* Types of the tables, the engines and the datagrams under way; the server makes
\* at most two engines for a connection, and a second one only when a datagram was
\* copied or sent again (runHandshake, DELETED).
TypeOK ==
    /\ clientState \in [Idents -> {"none", "HANDSHAKE", "ESTABLISHED"}]
    /\ serverState \in [Idents -> {"none", "HANDSHAKE", "ESTABLISHED"}]
    /\ clientSSL \in [Idents -> Engines] /\ serverSSL \in [Idents -> Engines]
    /\ clientBio \in [Idents -> Seq(Datagrams)] /\ serverBio \in [Idents -> Seq(Datagrams)]
    /\ sessions \in [Idents -> Sessions] /\ net \subseteq Datagrams
    /\ \A i \in Idents : sessions[i] > 1 => faults > 0
    /\ echoed \in [Idents -> BOOLEAN] /\ forgotten \in [Idents -> BOOLEAN]
    /\ crashed \in BOOLEAN /\ faults \in 0..MaxFaults

\* A client that has transitioned to ESTABLISHED has a server that has, with an
\* engine of the same session, until the server forgets the connection: copies
\* and repetitions never throw the server back (runHandshake of both sides).
EstablishedTogether ==
    \A i \in Idents :
        clientState[i] = "ESTABLISHED" /\ ~forgotten[i] =>
            serverState[i] = "ESTABLISHED" /\ serverSSL[i].session = clientSSL[i].session

\* The server ends a connection that was established only when the client has
\* its echo, whatever was lost or copied (sendData of both sides).
ForgottenAfterEcho == \A i \in Idents : forgotten[i] => echoed[i]

\* Without a fault every connection gets its echo, unless an assertion ended the
\* client (runHandshake and sendData of both sides).
EchoArrives ==
    \A i \in Idents : clientState[i] # "none" ~> echoed[i] \/ crashed \/ faults > 0

\* Without a fault the server forgets every connection the client has closed
\* (sendData), even one of a client that is gone.
ServerForgets ==
    \A i \in Idents : echoed[i] ~> serverState[i] = "none" \/ faults > 0

\* The assertion of the client's sendData holds: "assert(readLen > 0)".
ClientReads == ~crashed
=============================================================================
