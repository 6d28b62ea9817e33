------------------------------ MODULE DtlsProofs ------------------------------
(***************************************************************************)
(* What holds of the DTLS server and client for every number of            *)
(* connections, parts of a flight and faults.  The inductive invariant     *)
(* says of each datagram under way what the other side has done: who sent  *)
(* the last flight serves its session, who sent a close_notify has read    *)
(* the echo.  A second invariant counts the sessions: the server forgets a *)
(* connection once, and without a fault nothing of it comes after that.    *)
(***************************************************************************)
EXTENDS Dtls, TLAPS

States == {"none", "HANDSHAKE", "ESTABLISHED"}

Phases == {"start", "ServerFlight", "ClientFlight", "Finished", "open"}

Kinds == {"ClientHello", "ServerFlight", "ClientFlight", "Finished", "Data", "Echo", "Close"}

\* As Engines and Datagrams, without the bound on the sessions.
AllEngines ==
    [phase : Phases, session : Nat, has : SUBSET (1..Parts), read : BOOLEAN]

AllDatagrams ==
    [to : {"client", "server"}, id : Idents, kind : Kinds,
     part : 1..Parts, session : Nat, copy : BOOLEAN]

Empty == [i \in Idents |-> <<>>]

Types ==
    /\ clientState \in [Idents -> States] /\ serverState \in [Idents -> States]
    /\ clientSSL \in [Idents -> AllEngines] /\ serverSSL \in [Idents -> AllEngines]
    /\ clientBio = Empty /\ serverBio = Empty
    /\ sessions \in [Idents -> Nat] /\ net \subseteq AllDatagrams
    /\ echoed \in [Idents -> BOOLEAN] /\ forgotten \in [Idents -> BOOLEAN]

\* The server is, or was, established with session s.
Serves(i, s) ==
    forgotten[i] \/ (serverState[i] = "ESTABLISHED" /\ serverSSL[i].session = s)

\* The last flight is under way only from a server that is established.
LastFlight ==
    \A m \in net : m.to = "client" /\ m.kind = "Finished" => Serves(m.id, m.session)

\* A close_notify of the client is under way only when it has the echo.
CloseAfterEcho ==
    \A m \in net : m.to = "server" /\ m.kind = "Close" => echoed[m.id]

\* The table and the engine of the client agree.
ClientOpen ==
    \A i \in Idents : clientState[i] = "HANDSHAKE" => clientSSL[i].phase # "open"

IInv ==
    /\ Types /\ LastFlight /\ CloseAfterEcho /\ ClientOpen
    /\ EstablishedTogether /\ ForgottenAfterEcho

-----------------------------------------------------------------------------

\* What is under way to one side of a connection.
Bound(to, i) == {d \in net : d.to = to /\ d.id = i}

\* Of the engines the server made for the connection it has forgotten at most the
\* first, and the client never leaves the session it was opened with.
Sessioned(i) ==
    /\ sessions[i] = (IF forgotten[i] THEN 1 ELSE 0) + (IF Known(i) THEN 1 ELSE 0)
    /\ forgotten[i] => clientState[i] = "ESTABLISHED" /\ clientSSL[i].session = 1
    /\ \A d \in Bound("server", i) : d.kind = "Close" =>
           clientState[i] = "ESTABLISHED" /\ d.session = clientSSL[i].session
    /\ clientState[i] = "none" => clientSSL[i].phase = "start"
    /\ clientState[i] = "HANDSHAKE" => clientSSL[i].phase \in {"ServerFlight", "Finished"}
    /\ clientState[i] = "ESTABLISHED" => clientSSL[i].phase = "open"
    /\ serverSSL[i].phase \in {"start", "ClientFlight", "open"}
    /\ serverState[i] = "ESTABLISHED" => serverSSL[i].phase = "open"
    /\ Known(i) /\ serverSSL[i].phase # "start" => serverSSL[i].session = sessions[i]

\* No session is used before the server has opened it.
Opened(i) ==
    /\ clientSSL[i].session <= sessions[i] /\ serverSSL[i].session <= sessions[i]
    /\ \A d \in net : d.id = i => d.session <= sessions[i]

\* The datagrams the client e has written and the server may not have read, those
\* e waits for, and those that can have come.
Leaves(e) ==
    CASE e.phase = "ServerFlight" -> "ClientHello"
      [] e.phase = "Finished" -> "ClientFlight"
      [] e.phase = "open" -> IF e.read THEN "Close" ELSE "Data"
      [] OTHER -> "none"

Awaits(e) ==
    CASE e.phase = "open" -> IF e.read THEN "none" ELSE "Echo"
      [] OTHER -> e.phase

Came(e) ==
    CASE e.phase = "ServerFlight" -> {"ServerFlight"}
      [] e.phase = "Finished" -> {"ServerFlight", "Finished"}
      [] e.phase = "open" -> {"ServerFlight", "Finished", "Echo", "Close"}
      [] OTHER -> {}

\* Without a fault the two sides take turns: the server has nothing left to read
\* when it answers.
InTurn(i) ==
    /\ \A d \in Bound("server", i) :
           /\ d.kind = Leaves(clientSSL[i])
           /\ d.kind = "ClientFlight" \/ d.part = 1
           /\ clientSSL[i].phase = "Finished" => d.part \notin serverSSL[i].has
    /\ \A c, d \in Bound("server", i) : c.part = d.part => c = d
    /\ \A d \in Bound("client", i) :
           /\ d.kind \in Came(clientSSL[i])
           /\ d.kind = Awaits(clientSSL[i]) => Bound("server", i) = {}
    /\ clientSSL[i].phase \in {"start", "ServerFlight"} => serverSSL[i].has = {}
    /\ forgotten[i] =>
           /\ Bound("server", i) = {} /\ ~Known(i)
           /\ clientSSL[i].phase = "open" /\ clientSSL[i].read

Orderly(i) == Sessioned(i) /\ Opened(i) /\ (faults = 0 => InTurn(i))

OrderInv ==
    /\ IInv /\ faults \in 0..MaxFaults /\ crashed \in BOOLEAN
    /\ \A i \in Idents : Orderly(i)

-----------------------------------------------------------------------------

\* A flight and its datagrams (the handshake's writes of both sides).
LEMMA FlightType ==
    ASSUME NEW to \in {"client", "server"}, NEW i \in Idents, NEW k \in Kinds, NEW s \in Nat
    PROVE  /\ Flight(to, i, k, s) \in Seq(AllDatagrams)
           /\ \A n \in 1..Len(Flight(to, i, k, s)) :
                /\ Flight(to, i, k, s)[n].to = to /\ Flight(to, i, k, s)[n].id = i
                /\ Flight(to, i, k, s)[n].kind = k /\ Flight(to, i, k, s)[n].session = s
<1>1. Parts \in Nat BY DtlsAssumption
<1>2. \A n \in 1..Parts : Datagram(to, i, k, n, s) \in AllDatagrams
      BY DEF Datagram, AllDatagrams
<1>3. Flight(to, i, k, s) \in [1..Parts -> AllDatagrams] BY <1>2 DEF Flight
<1>4. Flight(to, i, k, s) \in Seq(AllDatagrams) /\ Len(Flight(to, i, k, s)) = Parts
      BY <1>1, <1>3
<1>5. \A n \in 1..Parts : Flight(to, i, k, s)[n] = Datagram(to, i, k, n, s) BY DEF Flight
<1>6. \A n \in 1..Parts :
        /\ Datagram(to, i, k, n, s).to = to /\ Datagram(to, i, k, n, s).id = i
        /\ Datagram(to, i, k, n, s).kind = k /\ Datagram(to, i, k, n, s).session = s
      BY DEF Datagram
<1> QED BY <1>1, <1>4, <1>5, <1>6

\* One datagram on its own (DtlsX_connect and sendData).
LEMMA OneDatagram ==
    ASSUME NEW to \in {"client", "server"}, NEW i \in Idents, NEW k \in Kinds, NEW s \in Nat,
           NEW d, d = Datagram(to, i, k, 1, s)
    PROVE  d \in AllDatagrams /\ d.to = to /\ d.id = i /\ d.kind = k /\ d.session = s
<1>1. 1 \in 1..Parts BY DtlsAssumption
<1> QED BY <1>1 DEF Datagram, AllDatagrams

\* An engine that has read no part of a flight (the engine of runHandshake).
LEMMA EngineType ==
    ASSUME NEW p \in Phases, NEW s \in Nat
    PROVE  Engine(p, s) \in AllEngines /\ Engine(p, s).phase = p /\ Engine(p, s).session = s
BY DEF Engine, AllEngines

\* Taking a part keeps the engine's type and phase (the engine of runHandshake).
LEMMA WithType ==
    ASSUME NEW e \in AllEngines, NEW m \in AllDatagrams
    PROVE  With(e, m) \in AllEngines /\ With(e, m).phase = e.phase
<1>1. m.part \in 1..Parts /\ m.session \in Nat BY DEF AllDatagrams
<1> QED BY <1>1 DEF With, AllEngines

\* SSL_accept writes handshake flights to the client; it writes the last one only
\* when the engine is open in the session of that flight (runHandshake).
LEMMA AcceptEffect ==
    ASSUME NEW e \in AllEngines, NEW m \in AllDatagrams, NEW s \in Nat,
           NEW r, r = Accept(e, m, s)
    PROVE  /\ r.ssl \in AllEngines /\ r.out \in Seq(AllDatagrams)
           /\ \A n \in 1..Len(r.out) :
                /\ r.out[n].to = "client" /\ r.out[n].id = m.id
                /\ r.out[n].kind = "Finished" =>
                       r.ssl.phase = "open" /\ r.ssl.session = r.out[n].session
<1> m.id \in Idents /\ m.session \in Nat /\ "client" \in {"client", "server"} BY DEF AllDatagrams
<1>1. CASE e.phase = "start" /\ m.kind = "ClientHello"
  <2> DEFINE f == Flight("client", m.id, "ServerFlight", s)
  <2>1. r.ssl = Engine("ClientFlight", s) /\ r.out = f BY <1>1 DEF Accept
  <2>2. "ServerFlight" \in Kinds /\ "ClientFlight" \in Phases BY DEF Kinds, Phases
  <2>3. Engine("ClientFlight", s) \in AllEngines BY <2>2, EngineType
  <2>4. /\ f \in Seq(AllDatagrams)
        /\ \A n \in 1..Len(f) :
               f[n].to = "client" /\ f[n].id = m.id /\ f[n].kind = "ServerFlight"
        BY <2>2, FlightType
  <2> HIDE DEF f
  <2> QED BY <2>1, <2>3, <2>4
<1>2. CASE ~(e.phase = "start" /\ m.kind = "ClientHello") /\ r.out # <<>>
  <2> DEFINE f == Flight("client", m.id, "Finished", m.session)
  <2>1. r.ssl = Engine("open", m.session) /\ r.out = f BY <1>2 DEF Accept, Handshake
  <2>2. "Finished" \in Kinds /\ "open" \in Phases BY DEF Kinds, Phases
  <2>3. /\ Engine("open", m.session) \in AllEngines
        /\ Engine("open", m.session).phase = "open"
        /\ Engine("open", m.session).session = m.session
        BY <2>2, EngineType
  <2>4. /\ f \in Seq(AllDatagrams)
        /\ \A n \in 1..Len(f) :
               f[n].to = "client" /\ f[n].id = m.id /\ f[n].session = m.session
        BY <2>2, FlightType
  <2> HIDE DEF f
  <2> QED BY <2>1, <2>3, <2>4
<1>3. CASE ~(e.phase = "start" /\ m.kind = "ClientHello") /\ r.out = <<>>
  <2>1. r.ssl \in {e, With(e, m), Engine("open", m.session)}
        BY <1>3 DEF Accept, Handshake
  <2>2. "open" \in Phases /\ "Finished" \in Kinds BY DEF Phases, Kinds
  <2>3. With(e, m) \in AllEngines /\ Engine("open", m.session) \in AllEngines
        BY <2>2, WithType, EngineType
  <2>4. <<>> \in Seq(AllDatagrams) /\ Len(<<>>) = 0 OBVIOUS
  <2> QED BY <1>3, <2>1, <2>3, <2>4
<1> QED BY <1>1, <1>2, <1>3

\* SSL_connect writes flights to the server that carry neither a message nor a
\* close_notify; it opens only with the server's last flight, in the session of
\* that flight (runHandshake of the client).
LEMMA ConnectEffect ==
    ASSUME NEW e \in AllEngines, NEW m \in AllDatagrams, NEW r, r = ConnectSSL(e, m)
    PROVE  /\ r.ssl \in AllEngines /\ r.out \in Seq(AllDatagrams)
           /\ \A n \in 1..Len(r.out) : r.out[n].to = "server" /\ r.out[n].kind = "ClientFlight"
           /\ r.ssl.phase = "open" =>
                  e.phase = "open" \/ (m.kind = "Finished" /\ r.ssl.session = m.session)
<1> m.id \in Idents /\ m.session \in Nat /\ "server" \in {"client", "server"} BY DEF AllDatagrams
<1> DEFINE f == Flight("server", m.id, "ClientFlight", m.session)
<1>1. "Finished" \in Phases /\ "open" \in Phases /\ "ClientFlight" \in Kinds
      BY DEF Phases, Kinds
<1>2. With(e, m) \in AllEngines /\ With(e, m).phase = e.phase BY WithType
<1>3. Engine("open", m.session) \in AllEngines /\ Engine("open", m.session).session = m.session
      BY <1>1, EngineType
<1>4. /\ Engine("Finished", m.session) \in AllEngines
      /\ Engine("Finished", m.session).phase = "Finished"
      BY <1>1, EngineType
<1>5. /\ f \in Seq(AllDatagrams)
      /\ \A n \in 1..Len(f) : f[n].to = "server" /\ f[n].kind = "ClientFlight"
      BY <1>1, FlightType
<1>6. <<>> \in Seq(AllDatagrams) /\ Len(<<>>) = 0 OBVIOUS
<1>7. CASE e.phase = "Finished"
  <2>1. r.out = <<>> BY <1>7 DEF ConnectSSL, Handshake
  <2>2. r.ssl \in {e, With(e, m)} \/ (r.ssl = Engine("open", m.session) /\ m.kind = "Finished")
        BY <1>7 DEF ConnectSSL, Handshake
  <2> QED BY <1>2, <1>3, <1>6, <1>7, <2>1, <2>2
<1>8. CASE e.phase # "Finished"
  <2>1. \/ r.out = <<>> /\ r.ssl \in {e, With(e, m)}
        \/ r.ssl = Engine("Finished", m.session) /\ r.out = f
        BY <1>8 DEF ConnectSSL, Handshake
  <2>2. CASE r.out = <<>> /\ r.ssl \in {e, With(e, m)} BY <1>2, <1>6, <2>2
  <2>3. CASE r.ssl = Engine("Finished", m.session) /\ r.out = f
    <3>1. r.ssl \in AllEngines /\ r.ssl.phase # "open" BY <1>4, <2>3
    <3> HIDE DEF f
    <3>2. /\ r.out \in Seq(AllDatagrams)
          /\ \A n \in 1..Len(r.out) : r.out[n].to = "server" /\ r.out[n].kind = "ClientFlight"
          BY <1>5, <2>3
    <3> QED BY <3>1, <3>2
  <2> QED BY <2>1, <2>2, <2>3
<1> QED BY <1>7, <1>8

\* What a handler writes is all under way when it returns (writeAllDataAvailable).
LEMMA WriteAll ==
    ASSUME Types, NEW i \in Idents, NEW m, NEW out \in Seq(AllDatagrams)
    PROVE  /\ ClientWrites(i, m, out) =>
                  clientBio' = Empty /\ net' = (net \ m) \cup {out[n] : n \in 1..Len(out)}
           /\ ServerWrites(i, m, out) =>
                  serverBio' = Empty /\ net' = (net \ m) \cup {out[n] : n \in 1..Len(out)}
<1>1. clientBio[i] = <<>> /\ serverBio[i] = <<>> BY DEF Types, Empty
<1>2. <<>> \o out = out OBVIOUS
<1>3. Sent(out) = {out[n] : n \in 1..Len(out)} BY DEF Sent, Left
<1>4. [Empty EXCEPT ![i] = <<>>] = Empty BY DEF Empty
<1> QED BY <1>1, <1>2, <1>3, <1>4 DEF ClientWrites, ServerWrites, Types, Left

-----------------------------------------------------------------------------

\* No connection exists initially (configStateMachine).
LEMMA Initially == Init => IInv
<1> SUFFICES ASSUME Init PROVE IInv OBVIOUS
<1>1. Engine("start", 0) \in AllEngines BY EngineType DEF Phases
<1>2. Types BY <1>1 DEF Init, Types, Empty, States
<1>3. LastFlight /\ CloseAfterEcho /\ ClientOpen BY DEF Init, LastFlight, CloseAfterEcho, ClientOpen
<1>4. EstablishedTogether /\ ForgottenAfterEcho
      BY DEF Init, EstablishedTogether, ForgottenAfterEcho
<1> QED BY <1>2, <1>3, <1>4 DEF IInv

\* The server's handshake keeps the invariant (runHandshake).
LEMMA ServerHandshakeKeeps ==
    ASSUME IInv, NEW m \in net, m.to = "server", ServerHandshake(m), UNCHANGED <<clientSide, faults>>
    PROVE  IInv'
<1> DEFINE i == m.id
           s == IF Known(i) THEN sessions[i] ELSE sessions[i] + 1
<1>0. PICK r : r = Accept(Current(i), m, s) OBVIOUS
<1>1. m \in AllDatagrams /\ i \in Idents /\ s \in Nat /\ Current(i) \in AllEngines
  <2>1. m \in AllDatagrams /\ i \in Idents BY DEF IInv, Types, AllDatagrams
  <2>2. s \in Nat BY <2>1 DEF IInv, Types
  <2>3. Engine("start", 0) \in AllEngines BY EngineType DEF Phases
  <2>4. Current(i) \in AllEngines BY <2>1, <2>3 DEF IInv, Types, Current
  <2> QED BY <2>1, <2>2, <2>4
<1>2. /\ serverState[i] \in {"none", "HANDSHAKE"} /\ sessions' = [sessions EXCEPT ![i] = s]
      /\ serverSSL' = [serverSSL EXCEPT ![i] = r.ssl]
      /\ serverState' = [serverState EXCEPT ![i] =
             IF r.ssl.phase = "open" THEN "ESTABLISHED" ELSE "HANDSHAKE"]
      /\ ServerWrites(i, {m}, r.out) /\ UNCHANGED <<forgotten, clientSide>>
      BY <1>0 DEF ServerHandshake, InitFinished
<1> HIDE DEF s
<1>3. /\ r.ssl \in AllEngines /\ r.out \in Seq(AllDatagrams)
      /\ \A n \in 1..Len(r.out) :
           /\ r.out[n].to = "client" /\ r.out[n].id = i
           /\ r.out[n].kind = "Finished" =>
                  r.ssl.phase = "open" /\ r.ssl.session = r.out[n].session
      BY <1>0, <1>1, AcceptEffect
<1>4. serverBio' = Empty /\ net' = (net \ {m}) \cup {r.out[n] : n \in 1..Len(r.out)}
      BY <1>1, <1>2, <1>3, WriteAll DEF IInv
<1>5. Types'
  <2>1. net' \subseteq AllDatagrams BY <1>3, <1>4 DEF IInv, Types
  <2>2. /\ serverState' \in [Idents -> States] /\ serverSSL' \in [Idents -> AllEngines]
        /\ sessions' \in [Idents -> Nat]
        BY <1>1, <1>2, <1>3 DEF IInv, Types, States
  <2> QED BY <1>2, <1>4, <2>1, <2>2 DEF IInv, Types, clientSide
<1>6. \A k \in Idents, t \in Nat : Serves(k, t) => Serves(k, t)'
      BY <1>1, <1>2 DEF IInv, Types, Serves
<1>7. \A n \in 1..Len(r.out) : r.out[n].kind = "Finished" => Serves(i, r.out[n].session)'
  <2> SUFFICES ASSUME NEW n \in 1..Len(r.out), r.out[n].kind = "Finished"
               PROVE  Serves(i, r.out[n].session)'
      OBVIOUS
  <2>1. r.ssl.phase = "open" /\ r.ssl.session = r.out[n].session BY <1>3
  <2>2. serverState'[i] = "ESTABLISHED" /\ serverSSL'[i] = r.ssl
        BY <1>1, <1>2, <2>1 DEF IInv, Types
  <2> QED BY <2>1, <2>2 DEF Serves
<1>8. LastFlight'
  <2> SUFFICES ASSUME NEW d \in net', d.to = "client" /\ d.kind = "Finished"
               PROVE  Serves(d.id, d.session)'
      BY DEF LastFlight
  <2>1. CASE d \in net
    <3>1. Serves(d.id, d.session) BY <2>1 DEF IInv, LastFlight
    <3>2. d.id \in Idents /\ d.session \in Nat BY <2>1 DEF IInv, Types, AllDatagrams
    <3> QED BY <1>6, <3>1, <3>2
  <2>2. CASE d \notin net
    <3>1. PICK n \in 1..Len(r.out) : d = r.out[n] BY <1>4, <2>2
    <3>2. d.id = i /\ Serves(i, r.out[n].session)' BY <1>3, <1>7, <3>1
    <3> QED BY <3>1, <3>2
  <2> QED BY <2>1, <2>2
<1>9. CloseAfterEcho' BY <1>2, <1>3, <1>4 DEF IInv, CloseAfterEcho, clientSide
<1>10. ClientOpen' /\ ForgottenAfterEcho'
       BY <1>2 DEF IInv, ClientOpen, ForgottenAfterEcho, clientSide
<1>11. EstablishedTogether'
       BY <1>1, <1>2 DEF IInv, Types, EstablishedTogether, clientSide
<1> QED BY <1>5, <1>8, <1>9, <1>10, <1>11 DEF IInv

\* The server's established state keeps the invariant (sendData).
LEMMA ServerEstablishedKeeps ==
    ASSUME IInv, NEW m \in net, m.to = "server", UNCHANGED <<clientSide, faults>>,
           ServerEcho(m) \/ ServerClose(m) \/ ServerDrop(m)
    PROVE  IInv'
<1> DEFINE i == m.id
           echo == Datagram("client", i, "Echo", 1, m.session)
           close == Datagram("client", i, "Close", 1, serverSSL[i].session)
<1>1. m \in AllDatagrams /\ i \in Idents /\ m.session \in Nat /\ serverSSL[i].session \in Nat
      BY DEF IInv, Types, AllDatagrams, AllEngines
<1>2. "Echo" \in Kinds /\ "Close" \in Kinds BY DEF Kinds
<1>3. /\ echo \in AllDatagrams /\ echo.to = "client" /\ echo.kind = "Echo"
      /\ close \in AllDatagrams /\ close.to = "client" /\ close.kind = "Close"
      BY <1>1, <1>2, OneDatagram
<1> HIDE DEF echo, close
<1>4. PICK out \in {<<>>, <<echo>>, <<close>>} : ServerWrites(i, {m}, out)
      BY DEF ServerEcho, ServerClose, ServerDrop, echo, close
<1>5. out \in Seq(AllDatagrams) /\ {out[n] : n \in 1..Len(out)} \subseteq {echo, close}
  <2>1. CASE out = <<>> BY <2>1
  <2>2. CASE out = <<echo>> BY <1>3, <2>2
  <2>3. CASE out = <<close>> BY <1>3, <2>3
  <2> QED BY <2>1, <2>2, <2>3
<1>6. serverBio' = Empty /\ net' \subseteq net \cup {echo, close}
      BY <1>1, <1>4, <1>5, WriteAll DEF IInv
<1>7. \A k \in Idents :
        /\ serverSSL'[k] \in AllEngines /\ serverSSL'[k].session = serverSSL[k].session
        /\ forgotten[k] => forgotten'[k]
        /\ serverState'[k] = serverState[k] \/ forgotten'[k]
  <2>1. CASE ServerEcho(m)
    <3>1. serverSSL' = [serverSSL EXCEPT ![i] = [serverSSL[i] EXCEPT !.read = TRUE]]
          BY <2>1 DEF ServerEcho
    <3>2. serverSSL[i] \in AllEngines BY <1>1 DEF IInv, Types
    <3>3. /\ [serverSSL[i] EXCEPT !.read = TRUE] \in AllEngines
          /\ [serverSSL[i] EXCEPT !.read = TRUE].session = serverSSL[i].session
          BY <3>2 DEF AllEngines
    <3> QED BY <1>1, <2>1, <3>1, <3>3 DEF ServerEcho, IInv, Types
  <2>2. CASE ServerClose(m) BY <1>1, <2>2 DEF ServerClose, IInv, Types
  <2>3. CASE ServerDrop(m) BY <2>3 DEF ServerDrop, IInv, Types
  <2> QED BY <2>1, <2>2, <2>3
<1>8. Types'
  <2>1. net' \subseteq AllDatagrams BY <1>3, <1>6 DEF IInv, Types
  <2>2. serverSSL' \in [Idents -> AllEngines]
        BY <1>7 DEF ServerEcho, ServerClose, ServerDrop, IInv, Types
  <2>3. /\ serverState' \in [Idents -> States] /\ sessions' \in [Idents -> Nat]
        /\ forgotten' \in [Idents -> BOOLEAN]
        BY <1>1 DEF ServerEcho, ServerClose, ServerDrop, AfterShutdown, IInv, Types, States
  <2> QED BY <1>6, <2>1, <2>2, <2>3 DEF IInv, Types, clientSide
<1>9. LastFlight'
  <2> SUFFICES ASSUME NEW d \in net', d.to = "client" /\ d.kind = "Finished"
               PROVE  Serves(d.id, d.session)'
      BY DEF LastFlight
  <2>1. d \in net BY <1>3, <1>6
  <2>2. Serves(d.id, d.session) /\ d.id \in Idents
        BY <2>1 DEF IInv, LastFlight, Types, AllDatagrams
  <2> QED BY <1>7, <2>2 DEF Serves
<1>10. CloseAfterEcho' BY <1>3, <1>6 DEF IInv, CloseAfterEcho, clientSide
<1>11. ClientOpen' BY DEF IInv, ClientOpen, clientSide
<1>12. EstablishedTogether' BY <1>7 DEF IInv, EstablishedTogether, clientSide
<1>13. ForgottenAfterEcho'
  <2>1. CASE ServerClose(m)
    <3>1. m.kind = "Close" BY <2>1 DEF ServerClose, PeerShutdown
    <3>2. echoed[i] BY <3>1 DEF IInv, CloseAfterEcho
    <3> QED BY <1>1, <2>1, <3>2
            DEF ServerClose, IInv, Types, ForgottenAfterEcho, clientSide
  <2>2. CASE ServerEcho(m) \/ ServerDrop(m)
        BY <2>2 DEF ServerEcho, ServerDrop, IInv, ForgottenAfterEcho, clientSide
  <2> QED BY <2>1, <2>2
<1> QED BY <1>8, <1>9, <1>10, <1>11, <1>12, <1>13 DEF IInv

\* A new connection keeps the invariant (DtlsClient_connect).
LEMMA ConnectKeeps ==
    ASSUME IInv, NEW i \in Idents, Connect(i)
    PROVE  IInv'
<1> DEFINE hello == Datagram("server", i, "ClientHello", 1, 0)
<1>1. "ClientHello" \in Kinds /\ "ServerFlight" \in Phases BY DEF Kinds, Phases
<1>2. hello \in AllDatagrams /\ hello.to = "server" /\ hello.kind = "ClientHello"
      BY <1>1, OneDatagram
<1>3. /\ Engine("ServerFlight", 0) \in AllEngines
      /\ Engine("ServerFlight", 0).phase = "ServerFlight"
      BY <1>1, EngineType
<1>4. ClientWrites(i, {}, <<hello>>) BY DEF Connect
<1> HIDE DEF hello
<1>5. clientBio' = Empty /\ net' = (net \ {}) \cup {<<hello>>[n] : n \in 1..Len(<<hello>>)}
  <2>1. <<hello>> \in Seq(AllDatagrams) BY <1>2
  <2> QED BY <1>4, <2>1, WriteAll DEF IInv
<1>6. net' = net \cup {hello} BY <1>5
<1>7. /\ clientState' = [clientState EXCEPT ![i] = "HANDSHAKE"]
      /\ clientSSL' = [clientSSL EXCEPT ![i] = Engine("ServerFlight", 0)]
      /\ clientState[i] = "none" /\ UNCHANGED <<serverSide, echoed>>
      BY DEF Connect
<1>8. Types'
  <2>1. net' \subseteq AllDatagrams BY <1>2, <1>6 DEF IInv, Types
  <2>2. clientState' \in [Idents -> States] /\ clientSSL' \in [Idents -> AllEngines]
        BY <1>3, <1>7 DEF IInv, Types, States
  <2> QED BY <1>5, <1>7, <2>1, <2>2 DEF IInv, Types, serverSide
<1>9. LastFlight' BY <1>2, <1>6, <1>7 DEF IInv, LastFlight, Serves, serverSide
<1>10. CloseAfterEcho' BY <1>2, <1>6, <1>7 DEF IInv, CloseAfterEcho
<1>11. ClientOpen' BY <1>3, <1>7 DEF IInv, Types, ClientOpen
<1>12. EstablishedTogether' BY <1>7 DEF IInv, Types, EstablishedTogether, serverSide
<1>13. ForgottenAfterEcho' BY <1>7 DEF IInv, ForgottenAfterEcho, serverSide
<1> QED BY <1>8, <1>9, <1>10, <1>11, <1>12, <1>13 DEF IInv

\* The client's handshake keeps the invariant: the client becomes ESTABLISHED only
\* with a part of the server's last flight (runHandshake).
LEMMA ClientHandshakeKeeps ==
    ASSUME IInv, NEW m \in net, m.to = "client", ClientHandshake(m), UNCHANGED <<serverSide, faults>>
    PROVE  IInv'
<1> DEFINE i == m.id
           data == Datagram("server", i, "Data", 1, m.session)
<1>0. PICK r : r = ConnectSSL(clientSSL[i], m) OBVIOUS
<1>1. m \in AllDatagrams /\ i \in Idents /\ m.session \in Nat /\ clientSSL[i] \in AllEngines
      BY DEF IInv, Types, AllDatagrams
<1>2. data \in AllDatagrams /\ data.to = "server" /\ data.kind = "Data"
  <2>1. "Data" \in Kinds BY DEF Kinds
  <2> QED BY <1>1, <2>1, OneDatagram
<1> HIDE DEF data
<1>3. /\ r.ssl \in AllEngines /\ r.out \in Seq(AllDatagrams)
      /\ \A n \in 1..Len(r.out) : r.out[n].to = "server" /\ r.out[n].kind = "ClientFlight"
      /\ r.ssl.phase = "open" =>
             clientSSL[i].phase = "open" \/ (m.kind = "Finished" /\ r.ssl.session = m.session)
      BY <1>0, <1>1, ConnectEffect
<1>4. PICK first \in {<<>>, <<data>>} : ClientWrites(i, {m}, r.out \o first)
      BY <1>0 DEF ClientHandshake, data
<1>5. /\ r.out \o first \in Seq(AllDatagrams)
      /\ \A n \in 1..Len(r.out \o first) :
            (r.out \o first)[n].to = "server" /\ (r.out \o first)[n].kind # "Close"
  <2>1. CASE first = <<>>
    <3>1. r.out \o first = r.out BY <1>3, <2>1
    <3> QED BY <1>3, <3>1
  <2>2. CASE first = <<data>> BY <1>2, <1>3, <2>2
  <2> QED BY <2>1, <2>2
<1>6. /\ clientBio' = Empty /\ net' \subseteq AllDatagrams
      /\ \A d \in net' : d \in net \/ (d.to = "server" /\ d.kind # "Close")
  <2> DEFINE out == r.out \o first
  <2>1. /\ clientBio' = Empty
        /\ net' = (net \ {m}) \cup {out[n] : n \in 1..Len(out)}
    <3>1. Types /\ out \in Seq(AllDatagrams) /\ ClientWrites(i, {m}, out)
          BY <1>4, <1>5 DEF IInv
    <3> HIDE DEF out
    <3> QED BY <1>1, <3>1, WriteAll
  <2> QED BY <1>5, <2>1 DEF IInv, Types
<1>7. /\ clientState[i] = "HANDSHAKE" /\ clientSSL' = [clientSSL EXCEPT ![i] = r.ssl]
      /\ clientState' = [clientState EXCEPT ![i] =
             IF r.ssl.phase = "open" THEN "ESTABLISHED" ELSE "HANDSHAKE"]
      /\ UNCHANGED <<echoed, serverSide>>
      BY <1>0 DEF ClientHandshake, InitFinished
<1>8. Types'
  <2>1. clientState' \in [Idents -> States] /\ clientSSL' \in [Idents -> AllEngines]
        BY <1>3, <1>7 DEF IInv, Types, States
  <2> QED BY <1>6, <1>7, <2>1 DEF IInv, Types, serverSide
<1>9. LastFlight' BY <1>6, <1>7 DEF IInv, LastFlight, Serves, serverSide
<1>10. CloseAfterEcho' BY <1>6, <1>7 DEF IInv, CloseAfterEcho
<1>11. ClientOpen' BY <1>1, <1>7 DEF IInv, Types, ClientOpen
<1>12. EstablishedTogether'
  <2> SUFFICES ASSUME NEW k \in Idents, clientState'[k] = "ESTABLISHED", ~forgotten'[k]
               PROVE  /\ serverState'[k] = "ESTABLISHED"
                      /\ serverSSL'[k].session = clientSSL'[k].session
      BY DEF EstablishedTogether
  <2>1. CASE k = i
    <3>1. r.ssl.phase = "open" /\ clientSSL'[i] = r.ssl
          BY <1>1, <1>7, <2>1 DEF IInv, Types
    <3>2. m.kind = "Finished" /\ r.ssl.session = m.session
          BY <1>1, <1>3, <1>7, <3>1 DEF IInv, ClientOpen
    <3>3. Serves(i, m.session) BY <3>2 DEF IInv, LastFlight
    <3> QED BY <1>7, <2>1, <3>1, <3>2, <3>3 DEF Serves, serverSide
  <2>2. CASE k # i
        BY <1>7, <2>2 DEF IInv, Types, EstablishedTogether, serverSide
  <2> QED BY <2>1, <2>2
<1>13. ForgottenAfterEcho' BY <1>7 DEF IInv, ForgottenAfterEcho, serverSide
<1> QED BY <1>8, <1>9, <1>10, <1>11, <1>12, <1>13 DEF IInv

\* The client's established state keeps the invariant: the close_notify leaves
\* with the echo (sendData).
LEMMA ClientEchoKeeps ==
    ASSUME IInv, NEW m \in net, m.to = "client", ClientEcho(m), UNCHANGED <<serverSide, faults>>
    PROVE  IInv'
<1> DEFINE i == m.id
           close == Datagram("server", i, "Close", 1, m.session)
<1>1. m \in AllDatagrams /\ i \in Idents /\ m.session \in Nat /\ clientSSL[i] \in AllEngines
      BY DEF IInv, Types, AllDatagrams
<1>2. close \in AllDatagrams /\ close.to = "server" /\ close.id = i
  <2>1. "Close" \in Kinds BY DEF Kinds
  <2> QED BY <1>1, <2>1, OneDatagram
<1>3. ClientWrites(i, {m}, <<close>>) BY DEF ClientEcho
<1> HIDE DEF close
<1>4. clientBio' = Empty /\ net' = (net \ {m}) \cup {<<close>>[n] : n \in 1..Len(<<close>>)}
  <2> DEFINE out == <<close>>
  <2>1. Types /\ out \in Seq(AllDatagrams) /\ ClientWrites(i, {m}, out) BY <1>2, <1>3 DEF IInv
  <2> HIDE DEF out
  <2>2. clientBio' = Empty /\ net' = (net \ {m}) \cup {out[n] : n \in 1..Len(out)}
        BY <1>1, <2>1, WriteAll
  <2> QED BY <2>2 DEF out
<1>5. net' \subseteq net \cup {close} BY <1>4
<1>6. /\ clientSSL' = [clientSSL EXCEPT ![i] = [clientSSL[i] EXCEPT !.read = TRUE]]
      /\ echoed' = [echoed EXCEPT ![i] = TRUE] /\ UNCHANGED <<clientState, serverSide>>
      BY DEF ClientEcho
<1>7. \A k \in Idents :
        /\ clientSSL'[k] \in AllEngines /\ clientSSL'[k].session = clientSSL[k].session
        /\ clientSSL'[k].phase = clientSSL[k].phase
  <2>1. /\ [clientSSL[i] EXCEPT !.read = TRUE] \in AllEngines
        /\ [clientSSL[i] EXCEPT !.read = TRUE].session = clientSSL[i].session
        /\ [clientSSL[i] EXCEPT !.read = TRUE].phase = clientSSL[i].phase
        BY <1>1 DEF AllEngines
  <2> QED BY <1>1, <1>6, <2>1 DEF IInv, Types
<1>8. \A k \in Idents : (echoed[k] => echoed'[k]) /\ echoed'[i]
      BY <1>1, <1>6 DEF IInv, Types
<1>9. Types'
  <2>1. net' \subseteq AllDatagrams BY <1>2, <1>5 DEF IInv, Types
  <2>2. clientSSL' \in [Idents -> AllEngines] BY <1>6, <1>7 DEF IInv, Types
  <2>3. echoed' \in [Idents -> BOOLEAN] BY <1>6 DEF IInv, Types
  <2> QED BY <1>4, <1>6, <2>1, <2>2, <2>3 DEF IInv, Types, serverSide
<1>10. LastFlight' BY <1>2, <1>5, <1>6 DEF IInv, LastFlight, Serves, serverSide
<1>11. CloseAfterEcho'
  <2> SUFFICES ASSUME NEW d \in net', d.to = "server" /\ d.kind = "Close"
               PROVE  echoed'[d.id]
      BY DEF CloseAfterEcho
  <2>1. d \in net \/ d = close BY <1>5
  <2>2. CASE d \in net BY <1>8, <2>2 DEF IInv, CloseAfterEcho, Types, AllDatagrams
  <2>3. CASE d = close BY <1>1, <1>2, <1>8, <2>3
  <2> QED BY <2>1, <2>2, <2>3
<1>12. ClientOpen' BY <1>6, <1>7 DEF IInv, ClientOpen
<1>13. EstablishedTogether' BY <1>6, <1>7 DEF IInv, EstablishedTogether, serverSide
<1>14. ForgottenAfterEcho' BY <1>6, <1>8 DEF IInv, ForgottenAfterEcho, serverSide
<1> QED BY <1>9, <1>10, <1>11, <1>12, <1>13, <1>14 DEF IInv

\* The network and the repeated flights keep the invariant.
LEMMA FaultKeeps ==
    ASSUME IInv, Fault
    PROVE  IInv'
<1>1. /\ net' \subseteq AllDatagrams
      /\ \A d \in net' : d.kind \in {"Finished", "Close"} =>
            \E e \in net : /\ d.to = e.to /\ d.id = e.id
                          /\ d.kind = e.kind /\ d.session = e.session
  <2>1. CASE Lose BY <2>1 DEF Lose, IInv, Types
  <2>2. CASE Copy
    <3>1. PICK m \in net : net' = net \cup {[m EXCEPT !.copy = TRUE]} BY <2>2 DEF Copy
    <3>2. m \in AllDatagrams BY DEF IInv, Types
    <3>3. /\ [m EXCEPT !.copy = TRUE] \in AllDatagrams
          /\ [m EXCEPT !.copy = TRUE].to = m.to /\ [m EXCEPT !.copy = TRUE].id = m.id
          /\ [m EXCEPT !.copy = TRUE].kind = m.kind
          /\ [m EXCEPT !.copy = TRUE].session = m.session
          BY <3>2 DEF AllDatagrams
    <3> QED BY <3>1, <3>3 DEF IInv, Types
  <2>3. CASE Repeat
    <3>1. PICK i \in Idents, m \in net, to \in {"client", "server"},
               k \in {"ServerFlight", "ClientFlight"}, s \in Nat :
              net' = (net \ {m}) \cup Range(Flight(to, i, k, s))
      <4>1. \A j \in Idents : sessions[j] \in Nat /\ clientSSL[j].session \in Nat
            BY DEF IInv, Types, AllEngines
      <4> QED BY <2>3, <4>1 DEF Repeat
    <3>2. k \in Kinds BY DEF Kinds
    <3> DEFINE f == Flight(to, i, k, s)
    <3>3. f \in Seq(AllDatagrams) /\ \A n \in 1..Len(f) : f[n].kind = k
          BY <3>2, FlightType
    <3>4. DOMAIN f = 1..Len(f)
      <4> HIDE DEF f
      <4> QED BY <3>3
    <3>5. Range(f) = {f[n] : n \in 1..Len(f)} BY <3>4 DEF Range
    <3>6. Range(f) \subseteq AllDatagrams /\ \A d \in Range(f) : d.kind = k
      <4> HIDE DEF f
      <4> QED BY <3>3, <3>5
    <3> HIDE DEF f
    <3>7. net' \subseteq AllDatagrams BY <3>1, <3>6 DEF f, IInv, Types
    <3>8. \A d \in net' : d \in net \/ d.kind = k BY <3>1, <3>6 DEF f
    <3>9. k \notin {"Finished", "Close"} OBVIOUS
    <3> QED BY <3>7, <3>8, <3>9
  <2> QED BY <2>1, <2>2, <2>3 DEF Fault
<1>2. UNCHANGED <<clientSide, serverSide>> BY DEF Fault
<1>3. Types' BY <1>1, <1>2 DEF IInv, Types, clientSide, serverSide
<1>4. LastFlight'
  <2> SUFFICES ASSUME NEW d \in net', d.to = "client" /\ d.kind = "Finished"
               PROVE  Serves(d.id, d.session)'
      BY DEF LastFlight
  <2>1. Serves(d.id, d.session) BY <1>1 DEF IInv, LastFlight
  <2> QED BY <1>2, <2>1 DEF Serves, serverSide
<1>5. CloseAfterEcho' BY <1>1, <1>2 DEF IInv, CloseAfterEcho, clientSide
<1>6. ClientOpen' /\ EstablishedTogether' /\ ForgottenAfterEcho'
      BY <1>2 DEF IInv, ClientOpen, EstablishedTogether, ForgottenAfterEcho,
                  clientSide, serverSide
<1> QED BY <1>3, <1>4, <1>5, <1>6 DEF IInv

\* Every step keeps the invariant.
LEMMA Step == IInv /\ [Next]_vars => IInv'
<1> SUFFICES ASSUME IInv, [Next]_vars PROVE IInv' OBVIOUS
<1>1. CASE ServerPkt
  <2>1. PICK m \in net : m.to = "server" /\
            (ServerHandshake(m) \/ ServerEcho(m) \/ ServerClose(m) \/ ServerDrop(m))
        BY <1>1 DEF ServerPkt
  <2>2. UNCHANGED <<clientSide, faults>> BY <1>1 DEF ServerPkt
  <2> QED BY <2>1, <2>2, ServerHandshakeKeeps, ServerEstablishedKeeps
<1>2. CASE ClientPkt
  <2>1. PICK m \in net : m.to = "client" /\
            (ClientHandshake(m) \/ ClientEcho(m) \/ ClientAssertion(m))
        BY <1>2 DEF ClientPkt
  <2>2. UNCHANGED <<serverSide, faults>> BY <1>2 DEF ClientPkt
  <2>3. CASE ClientAssertion(m)
    <3>1. net' \subseteq net /\ UNCHANGED <<clientState, clientSSL, clientBio, echoed>>
          BY <2>3 DEF ClientAssertion
    <3>2. Types' BY <2>2, <3>1 DEF IInv, Types, serverSide
    <3>3. LastFlight' BY <2>2, <3>1 DEF IInv, LastFlight, Serves, serverSide
    <3>4. CloseAfterEcho' /\ ClientOpen' BY <3>1 DEF IInv, CloseAfterEcho, ClientOpen
    <3>5. EstablishedTogether' /\ ForgottenAfterEcho'
          BY <2>2, <3>1 DEF IInv, EstablishedTogether, ForgottenAfterEcho, serverSide
    <3> QED BY <3>2, <3>3, <3>4, <3>5 DEF IInv
  <2> QED BY <2>1, <2>2, <2>3, ClientHandshakeKeeps, ClientEchoKeeps
<1>3. CASE \E i \in Idents : Connect(i) BY <1>3, ConnectKeeps
<1>4. CASE Fault BY <1>4, FaultKeeps
<1>5. CASE UNCHANGED vars
  <2>1. UNCHANGED <<clientSide, serverSide, net>> BY <1>5 DEF vars
  <2> QED BY <2>1 DEF IInv, Types, LastFlight, Serves, CloseAfterEcho, ClientOpen,
                      EstablishedTogether, ForgottenAfterEcho, clientSide, serverSide
<1> QED BY <1>1, <1>2, <1>3, <1>4, <1>5 DEF Next

-----------------------------------------------------------------------------

\* The invariant holds throughout (both event loops).
LEMMA Invariant == Spec => []IInv
<1>1. Init => IInv BY Initially
<1>2. IInv /\ [Next]_vars => IInv' BY Step
<1> QED BY <1>1, <1>2, PTL DEF Spec

\* A client that became ESTABLISHED has a server that serves its session, until
\* the server forgets it (runHandshake of both sides).
THEOREM EstablishedTogetherCorrect == Spec => []EstablishedTogether
<1>1. IInv => EstablishedTogether BY DEF IInv
<1> QED BY <1>1, Invariant, PTL

\* The server forgets a connection only after its client has read the echo
\* (sendData of both sides).
THEOREM ForgottenAfterEchoCorrect == Spec => []ForgottenAfterEcho
<1>1. IInv => ForgottenAfterEcho BY DEF IInv
<1> QED BY <1>1, Invariant, PTL

-----------------------------------------------------------------------------
(* The sessions                                                             *)

\* The datagrams of a flight differ in their parts (the handshake's writes).
LEMMA FlightParts ==
    ASSUME NEW to \in {"client", "server"}, NEW i \in Idents, NEW k \in Kinds, NEW s \in Nat,
           NEW f, f = Flight(to, i, k, s)
    PROVE  /\ f \in Seq(AllDatagrams)
           /\ \A d \in {f[n] : n \in 1..Len(f)} :
                  d.to = to /\ d.id = i /\ d.kind = k /\ d.session = s
           /\ \A c, d \in {f[n] : n \in 1..Len(f)} : c.part = d.part => c = d
<1>1. f \in Seq(AllDatagrams)
      /\ \A n \in 1..Len(f) : f[n].to = to /\ f[n].id = i /\ f[n].kind = k /\ f[n].session = s
      BY FlightType
<1>2. Parts \in Nat /\ Len(f) = Parts
  <2>1. Parts \in Nat BY DtlsAssumption
  <2>2. DOMAIN f = 1..Parts BY DEF Flight
  <2>3. DOMAIN f = 1..Len(f) /\ Len(f) \in Nat BY <1>1
  <2> QED BY <2>1, <2>2, <2>3
<1>3. \A n \in 1..Parts : f[n] = Datagram(to, i, k, n, s) BY DEF Flight
<1>4. \A n \in 1..Parts : Datagram(to, i, k, n, s).part = n BY DEF Datagram
<1>5. \A n \in 1..Len(f) : f[n].part = n BY <1>2, <1>3, <1>4
<1> QED BY <1>1, <1>5

\* The engine with a further part (the engine of runHandshake).
LEMMA WithFields ==
    ASSUME NEW e \in AllEngines, NEW m \in AllDatagrams
    PROVE  /\ With(e, m).phase = e.phase /\ With(e, m).session = m.session
           /\ With(e, m).has = e.has \cup {m.part} /\ With(e, m).read = e.read
BY DEF With, AllEngines

\* What SSL_accept does with a datagram (runHandshake of the server).
LEMMA AcceptCases ==
    ASSUME NEW e, NEW m, NEW s, NEW r, r = Accept(e, m, s)
    PROVE  \/ r.ssl = e /\ r.out = <<>>
           \/ /\ e.phase = "start" /\ m.kind = "ClientHello"
              /\ r.ssl = Engine("ClientFlight", s)
              /\ r.out = Flight("client", m.id, "ServerFlight", s)
           \/ /\ e.phase = "ClientFlight" /\ m.kind = "ClientFlight"
              /\ e.session \in {0, m.session}
              /\ \/ ~Complete(e, m) /\ r.ssl = With(e, m) /\ r.out = <<>>
                 \/ /\ Complete(e, m) /\ r.ssl = Engine("open", m.session)
                    /\ r.out = Flight("client", m.id, "Finished", m.session)
BY DEF Accept, Handshake

\* What SSL_connect does with a datagram (runHandshake of the client).
LEMMA ConnectCases ==
    ASSUME NEW e, NEW m, NEW r, r = ConnectSSL(e, m)
    PROVE  \/ r.ssl = e /\ r.out = <<>>
           \/ /\ e.phase \in {"ServerFlight", "Finished"} /\ m.kind = e.phase
              /\ \/ r.ssl = With(e, m) /\ r.out = <<>>
                 \/ /\ e.phase = "ServerFlight" /\ r.ssl = Engine("Finished", m.session)
                    /\ r.out = Flight("server", m.id, "ClientFlight", m.session)
                 \/ /\ e.phase = "Finished" /\ r.ssl = Engine("open", m.session)
                    /\ r.out = <<>>
<1>1. CASE e.phase = "Finished" BY <1>1 DEF ConnectSSL, Handshake
<1>2. CASE e.phase # "Finished" BY <1>2 DEF ConnectSSL, Handshake
<1> QED BY <1>1, <1>2

\* A connection of which only datagrams go keeps its order: what happens to another
\* connection, or a datagram that is not used.
LEMMA LessUnderWay ==
    ASSUME NEW i \in Idents, Orderly(i),
           clientState'[i] = clientState[i], serverState'[i] = serverState[i],
           clientSSL'[i] = clientSSL[i], serverSSL'[i] = serverSSL[i],
           sessions'[i] = sessions[i], forgotten'[i] = forgotten[i],
           \A d \in net' : d.id = i => d \in net,
           faults' = 0 => faults = 0
    PROVE  Orderly(i)'
<1>1. \A to : Bound(to, i)' \subseteq Bound(to, i) BY DEF Bound
<1>2. Known(i)' = Known(i) BY DEF Known
<1>3. Sessioned(i)' BY <1>1, <1>2 DEF Orderly, Sessioned
<1>4. Opened(i)' BY DEF Orderly, Opened
<1>5. ASSUME faults' = 0 PROVE InTurn(i)'
  <2>1. InTurn(i) BY <1>5 DEF Orderly
  <2> QED BY <1>1, <1>2, <2>1 DEF InTurn
<1> QED BY <1>3, <1>4, <1>5 DEF Orderly

\* No connection exists initially (configStateMachine).
LEMMA OrderInitially == Init => OrderInv
<1> SUFFICES ASSUME Init PROVE OrderInv OBVIOUS
<1>1. faults \in 0..MaxFaults /\ crashed \in BOOLEAN
  <2>1. faults \in 0..MaxFaults BY DtlsAssumption DEF Init
  <2>2. crashed = FALSE BY DEF Init
  <2> QED BY <2>1, <2>2
<1>2. ASSUME NEW i \in Idents PROVE Orderly(i)
  <2>1. /\ clientSSL[i].phase = "start" /\ clientSSL[i].session = 0
        /\ serverSSL[i].phase = "start" /\ serverSSL[i].session = 0 /\ serverSSL[i].has = {}
    <3>1. clientSSL[i] = Engine("start", 0) /\ serverSSL[i] = Engine("start", 0) BY DEF Init
    <3> QED BY <3>1 DEF Engine
  <2>2. Bound("server", i) = {} /\ Bound("client", i) = {} BY DEF Init, Bound
  <2>3. clientState[i] = "none" /\ ~Known(i) /\ sessions[i] = 0 /\ ~forgotten[i] /\ net = {}
        BY <1>2 DEF Init, Known
  <2>4. Sessioned(i) BY <2>1, <2>2, <2>3 DEF Sessioned, Known
  <2>5. Opened(i) BY <2>1, <2>3 DEF Opened
  <2>6. InTurn(i) BY <2>1, <2>2, <2>3 DEF InTurn
  <2> QED BY <2>4, <2>5, <2>6 DEF Orderly
<1> QED BY <1>1, <1>2, Initially DEF OrderInv

\* The server's handshake keeps the order: a datagram to a connection it does not
\* know opens a session, and the last one of a flight leaves nothing behind
\* (runHandshake).
LEMMA ServerHandshakeOrder ==
    ASSUME IInv, \A k \in Idents : Orderly(k), NEW m \in net, m.to = "server",
           ServerHandshake(m), UNCHANGED <<clientSide, faults>>
    PROVE  \A k \in Idents : Orderly(k)'
<1>1. m \in AllDatagrams /\ m.id \in Idents /\ m.session \in Nat /\ m.part \in 1..Parts
      BY DEF IInv, Types, AllDatagrams
<1>2. PICK i \in Idents : i = m.id BY <1>1
<1>3. PICK s : s = IF Known(i) THEN sessions[i] ELSE sessions[i] + 1 OBVIOUS
<1>4. PICK e : e = Current(i) OBVIOUS
<1>5. PICK r : r = Accept(e, m, s) OBVIOUS
<1>6. PICK O : O = {r.out[n] : n \in 1..Len(r.out)} OBVIOUS
<1>7. /\ serverState[i] \in {"none", "HANDSHAKE"} /\ sessions' = [sessions EXCEPT ![i] = s]
      /\ serverSSL' = [serverSSL EXCEPT ![i] = r.ssl]
      /\ serverState' = [serverState EXCEPT ![i] =
             IF r.ssl.phase = "open" THEN "ESTABLISHED" ELSE "HANDSHAKE"]
      /\ ServerWrites(i, {m}, r.out)
      /\ UNCHANGED <<forgotten, clientState, clientSSL, faults>>
      BY <1>2, <1>3, <1>4, <1>5 DEF ServerHandshake, InitFinished, clientSide
<1>8. /\ (Known(i) /\ e = serverSSL[i]) \/ (~Known(i) /\ e = Engine("start", 0))
      /\ e \in AllEngines /\ s \in Nat
  <2>1. Engine("start", 0) \in AllEngines BY EngineType DEF Phases
  <2>2. serverSSL[i] \in AllEngines /\ sessions[i] \in Nat BY DEF IInv, Types
  <2>3. CASE Known(i) BY <1>3, <1>4, <2>2, <2>3 DEF Current, Known
  <2>4. CASE ~Known(i) BY <1>3, <1>4, <2>1, <2>2, <2>4 DEF Current, Known
  <2> QED BY <2>3, <2>4
<1>9. /\ Orderly(i) /\ sessions[i] \in Nat
      /\ s = (IF forgotten[i] THEN 1 ELSE 0) + 1 /\ sessions[i] <= s
  <2>1. Orderly(i) /\ sessions[i] \in Nat BY DEF IInv, Types
  <2> QED BY <1>3, <2>1 DEF Orderly, Sessioned
<1>10. /\ e.phase \in {"start", "ClientFlight", "open"} /\ e.session \in Nat
       /\ e.session <= s /\ e.has \subseteq serverSSL[i].has
       /\ e.phase # "start" => e.session = s /\ e = serverSSL[i]
  <2>1. CASE Known(i)
    <3>1. e = serverSSL[i] /\ s = sessions[i] BY <1>3, <1>8, <2>1
    <3>2. e.session \in Nat BY <1>8 DEF AllEngines
    <3> QED BY <1>9, <2>1, <3>1, <3>2 DEF Orderly, Sessioned, Opened
  <2>2. CASE ~Known(i)
    <3>1. e.phase = "start" /\ e.session = 0 /\ e.has = {} BY <1>8, <2>2 DEF Engine
    <3> QED BY <1>8, <3>1
  <2> QED BY <2>1, <2>2
<1>11. m.kind = "ClientFlight" /\ e.phase = "ClientFlight" /\ e.session \in {0, m.session}
       => m.session = s
       BY <1>9, <1>10
<1>12. \/ r.ssl = e /\ O = {}
       \/ /\ m.kind = "ClientHello" /\ r.ssl.phase = "ClientFlight" /\ r.ssl.session = s
          /\ r.ssl.has = {} /\ \A d \in O : d.kind = "ServerFlight" /\ d.session = s
       \/ /\ m.kind = "ClientFlight" /\ r.ssl.phase = "ClientFlight" /\ r.ssl.session = s
          /\ r.ssl.has = e.has \cup {m.part} /\ O = {} /\ e = serverSSL[i]
       \/ /\ m.kind = "ClientFlight" /\ r.ssl.phase = "open" /\ r.ssl.session = s
          /\ r.ssl.has = {} /\ e.has \cup {m.part} = 1..Parts /\ e = serverSSL[i]
          /\ \A d \in O : d.kind = "Finished" /\ d.session = s
  <2>1. CASE r.ssl = e /\ r.out = <<>> BY <1>6, <2>1
  <2>2. CASE /\ e.phase = "start" /\ m.kind = "ClientHello"
             /\ r.ssl = Engine("ClientFlight", s)
             /\ r.out = Flight("client", m.id, "ServerFlight", s)
    <3>1. "ServerFlight" \in Kinds BY DEF Kinds
    <3>2. \A d \in O : d.kind = "ServerFlight" /\ d.session = s
          BY <1>1, <1>6, <1>8, <2>2, <3>1, FlightParts
    <3>3. r.ssl.phase = "ClientFlight" /\ r.ssl.session = s /\ r.ssl.has = {}
          BY <2>2 DEF Engine
    <3> QED BY <2>2, <3>2, <3>3
  <2>3. CASE /\ e.phase = "ClientFlight" /\ m.kind = "ClientFlight"
             /\ e.session \in {0, m.session} /\ r.ssl = With(e, m) /\ r.out = <<>>
    <3>1. O = {} BY <1>6, <2>3
    <3> QED BY <1>1, <1>8, <1>10, <1>11, <2>3, <3>1, WithFields
  <2>4. CASE /\ e.phase = "ClientFlight" /\ m.kind = "ClientFlight"
             /\ e.session \in {0, m.session} /\ Complete(e, m)
             /\ r.ssl = Engine("open", m.session)
             /\ r.out = Flight("client", m.id, "Finished", m.session)
    <3>1. "Finished" \in Kinds BY DEF Kinds
    <3>2. \A d \in O : d.kind = "Finished" /\ d.session = m.session
          BY <1>1, <1>6, <2>4, <3>1, FlightParts
    <3>3. e.has \cup {m.part} = 1..Parts BY <1>1, <1>8, <2>4, WithFields DEF Complete
    <3>4. r.ssl.phase = "open" /\ r.ssl.session = m.session /\ r.ssl.has = {}
          BY <2>4 DEF Engine
    <3>5. m.session = s /\ e = serverSSL[i] BY <1>10, <1>11, <2>4
    <3> QED BY <2>4, <3>2, <3>3, <3>4, <3>5
  <2> QED BY <1>5, <2>1, <2>2, <2>3, <2>4, AcceptCases
<1>13. /\ net' = (net \ {m}) \cup O
       /\ \A d \in O : d.to = "client" /\ d.id = i
  <2>1. /\ r.out \in Seq(AllDatagrams)
        /\ \A n \in 1..Len(r.out) : r.out[n].to = "client" /\ r.out[n].id = i
        BY <1>1, <1>2, <1>5, <1>8, AcceptEffect
  <2>2. net' = (net \ {m}) \cup O BY <1>6, <1>7, <2>1, WriteAll DEF IInv
  <2> QED BY <1>6, <2>1, <2>2
<1>14. /\ sessions'[i] = s /\ serverSSL'[i] = r.ssl /\ Known(i)'
       /\ serverState'[i] = (IF r.ssl.phase = "open" THEN "ESTABLISHED" ELSE "HANDSHAKE")
       /\ forgotten'[i] = forgotten[i] /\ clientState'[i] = clientState[i]
       /\ clientSSL'[i] = clientSSL[i]
       BY <1>7 DEF IInv, Types, Known
<1>15. /\ Bound("server", i)' = Bound("server", i) \ {m} /\ m \in Bound("server", i)
       /\ Bound("client", i)' = Bound("client", i) \cup O
       BY <1>2, <1>13 DEF Bound
<1>16. ASSUME NEW k \in Idents, k # i PROVE Orderly(k)'
  <2>1. \A d \in net' : d.id = k => d \in net BY <1>13, <1>16
  <2>2. /\ sessions'[k] = sessions[k] /\ serverSSL'[k] = serverSSL[k]
        /\ serverState'[k] = serverState[k]
        BY <1>7, <1>16 DEF IInv, Types
  <2> QED BY <1>7, <2>1, <2>2, LessUnderWay
<1>17. Sessioned(i)'
       BY <1>9, <1>10, <1>12, <1>14, <1>15 DEF Orderly, Sessioned
<1>18. Opened(i)'
  <2>1. clientSSL[i].session \in Nat /\ \A d \in net : d.session \in Nat
        BY DEF IInv, Types, AllEngines, AllDatagrams
  <2>2. r.ssl.session <= s BY <1>8, <1>9, <1>10, <1>12
  <2>3. clientSSL[i].session <= s BY <1>8, <1>9, <2>1 DEF Orderly, Opened
  <2>4. \A d \in net' : d.id = i => d.session <= s
        BY <1>8, <1>9, <1>12, <1>13, <2>1 DEF Orderly, Opened
  <2> QED BY <1>14, <2>2, <2>3, <2>4 DEF Opened
<1>19. ASSUME faults' = 0 PROVE InTurn(i)'
  <2>1. InTurn(i) BY <1>7, <1>9, <1>19 DEF Orderly
  <2>2. m.kind = Leaves(clientSSL[i]) BY <1>15, <2>1 DEF InTurn
  <2>3. ~forgotten[i] BY <1>15, <2>1 DEF InTurn
  <2>4. CASE r.ssl = e /\ O = {}
        BY <1>10, <1>14, <1>15, <2>1, <2>3, <2>4 DEF InTurn
  <2>5. CASE /\ m.kind = "ClientHello" /\ r.ssl.has = {}
             /\ \A d \in O : d.kind = "ServerFlight"
    <3>1. clientSSL[i].phase = "ServerFlight" BY <2>2, <2>5 DEF Leaves
    <3>2. Bound("server", i)' = {}
          BY <1>15, <2>1, <2>5 DEF InTurn
    <3>3. Came(clientSSL[i]) = {"ServerFlight"} BY <3>1 DEF Came
    <3> QED BY <1>14, <1>15, <2>1, <2>3, <2>5, <3>1, <3>2, <3>3 DEF InTurn
  <2>6. CASE /\ m.kind = "ClientFlight" /\ r.ssl.has = e.has \cup {m.part}
             /\ O = {} /\ e = serverSSL[i]
    <3>1. clientSSL[i].phase = "Finished" BY <2>2, <2>6 DEF Leaves
    <3>2. \A d \in Bound("server", i)' : d.part \notin r.ssl.has
          BY <1>15, <2>1, <2>6, <3>1 DEF InTurn
    <3> QED BY <1>14, <1>15, <2>1, <2>3, <2>6, <3>1, <3>2 DEF InTurn
  <2>7. CASE /\ m.kind = "ClientFlight" /\ r.ssl.has = {} /\ e = serverSSL[i]
             /\ e.has \cup {m.part} = 1..Parts /\ \A d \in O : d.kind = "Finished"
    <3>1. clientSSL[i].phase = "Finished" BY <2>2, <2>7 DEF Leaves
    <3>2. \A d \in Bound("server", i) : d.part \in 1..Parts
          BY DEF IInv, Types, AllDatagrams, Bound
    <3>3. Bound("server", i)' = {}
          BY <1>15, <2>1, <2>7, <3>1, <3>2 DEF InTurn
    <3>4. "Finished" \in Came(clientSSL[i]) BY <3>1 DEF Came
    <3> QED BY <1>14, <1>15, <2>1, <2>3, <2>7, <3>1, <3>3, <3>4 DEF InTurn
  <2> QED BY <1>12, <2>4, <2>5, <2>6, <2>7
<1>20. Orderly(i)' BY <1>17, <1>18, <1>19 DEF Orderly
<1> QED BY <1>16, <1>20

\* The echo keeps the order: nothing but the message was under way (sendData of
\* the server).
LEMMA ServerEchoOrder ==
    ASSUME IInv, \A k \in Idents : Orderly(k), NEW m \in net, m.to = "server",
           ServerEcho(m), UNCHANGED <<clientSide, faults>>
    PROVE  \A k \in Idents : Orderly(k)'
<1>1. m \in AllDatagrams /\ m.id \in Idents /\ m.session \in Nat BY DEF IInv, Types, AllDatagrams
<1>2. PICK i \in Idents : i = m.id BY <1>1
<1>3. PICK echo : echo = Datagram("client", i, "Echo", 1, m.session) OBVIOUS
<1>4. /\ echo \in AllDatagrams /\ echo.to = "client" /\ echo.id = i
      /\ echo.kind = "Echo" /\ echo.session = m.session
      BY <1>1, <1>3, OneDatagram DEF Kinds
<1>5. net' = (net \ {m}) \cup {echo}
  <2>1. PICK out : out = <<echo>> OBVIOUS
  <2>2. Types /\ ServerWrites(i, {m}, out) BY <1>2, <1>3, <2>1 DEF ServerEcho, IInv
  <2>3. out \in Seq(AllDatagrams) /\ {out[n] : n \in 1..Len(out)} = {echo} BY <1>4, <2>1
  <2>4. net' = (net \ {m}) \cup {out[n] : n \in 1..Len(out)}
        BY <2>2, <2>3, WriteAll
  <2> QED BY <2>3, <2>4
<1>6. PICK w : w = [serverSSL[i] EXCEPT !.read = TRUE] OBVIOUS
<1>7. serverSSL[i] \in AllEngines BY DEF IInv, Types
<1>8. w.phase = serverSSL[i].phase /\ w.session = serverSSL[i].session /\ w.has = serverSSL[i].has
      BY <1>6, <1>7 DEF AllEngines
<1>9. serverSSL' = [serverSSL EXCEPT ![i] = w] BY <1>2, <1>6 DEF ServerEcho
<1>10. /\ m.kind = "Data" /\ serverSSL'[i] = w
       /\ UNCHANGED <<serverState, sessions, forgotten, clientState, clientSSL, faults>>
       BY <1>9 DEF ServerEcho, Reads, clientSide, IInv, Types
<1>11. /\ Bound("server", i)' = Bound("server", i) \ {m} /\ m \in Bound("server", i)
       /\ Bound("client", i)' = Bound("client", i) \cup {echo}
       BY <1>2, <1>4, <1>5 DEF Bound
<1>12. ASSUME NEW k \in Idents, k # i PROVE Orderly(k)'
  <2>1. \A d \in net' : d.id = k => d \in net BY <1>4, <1>5, <1>12
  <2>2. serverSSL'[k] = serverSSL[k] BY <1>9, <1>12 DEF IInv, Types
  <2> QED BY <1>10, <2>1, <2>2, LessUnderWay
<1>13. Known(i)' = Known(i) BY <1>10 DEF Known
<1>14. Sessioned(i)' BY <1>8, <1>10, <1>11, <1>13 DEF Orderly, Sessioned
<1>15. Opened(i)' BY <1>2, <1>4, <1>5, <1>8, <1>10 DEF Orderly, Opened
<1>16. ASSUME faults' = 0 PROVE InTurn(i)'
  <2>1. InTurn(i) BY <1>10, <1>16 DEF Orderly
  <2>2. clientSSL[i].phase = "open" BY <1>10, <1>11, <2>1 DEF InTurn, Leaves
  <2>3. Bound("server", i)' = {} BY <1>10, <1>11, <2>1 DEF InTurn
  <2>4. "Echo" \in Came(clientSSL[i]) BY <2>2 DEF Came
  <2>5. ~forgotten[i] BY <1>11, <2>1 DEF InTurn
  <2> QED BY <1>4, <1>8, <1>10, <1>11, <1>13, <2>1, <2>2, <2>3, <2>4, <2>5 DEF InTurn
<1>17. Orderly(i)' BY <1>14, <1>15, <1>16 DEF Orderly
<1> QED BY <1>12, <1>17

\* The server forgets a connection once: the close_notify is one of the client's
\* session, which is the first (DELETED).
LEMMA ServerCloseOrder ==
    ASSUME IInv, \A k \in Idents : Orderly(k), NEW m \in net, m.to = "server",
           ServerClose(m), UNCHANGED <<clientSide, faults>>
    PROVE  \A k \in Idents : Orderly(k)'
<1>1. m \in AllDatagrams /\ m.id \in Idents BY DEF IInv, Types, AllDatagrams
<1>2. PICK i \in Idents : i = m.id BY <1>1
<1>3. PICK close : close = Datagram("client", i, "Close", 1, serverSSL[i].session) OBVIOUS
<1>4. serverSSL[i].session \in Nat /\ sessions[i] \in Nat BY DEF IInv, Types, AllEngines
<1>5. /\ close \in AllDatagrams /\ close.to = "client" /\ close.id = i
      /\ close.kind = "Close" /\ close.session = serverSSL[i].session
      BY <1>3, <1>4, OneDatagram DEF Kinds
<1>6. net' = (net \ {m}) \cup {close}
  <2>1. PICK out : out = <<close>> OBVIOUS
  <2>2. Types /\ ServerWrites(i, {m}, out) BY <1>2, <1>3, <2>1 DEF ServerClose, IInv
  <2>3. out \in Seq(AllDatagrams) /\ {out[n] : n \in 1..Len(out)} = {close} BY <1>5, <2>1
  <2>4. net' = (net \ {m}) \cup {out[n] : n \in 1..Len(out)}
        BY <2>2, <2>3, WriteAll
  <2> QED BY <2>3, <2>4
<1>7. /\ m.kind = "Close" /\ m.session = serverSSL[i].session
      /\ serverState[i] = "ESTABLISHED"
      /\ serverState' = [serverState EXCEPT ![i] = "none"]
      /\ forgotten' = [forgotten EXCEPT ![i] = TRUE]
      /\ UNCHANGED <<serverSSL, sessions, clientState, clientSSL, faults>>
      BY <1>2 DEF ServerClose, PeerShutdown, AfterShutdown, clientSide
<1>8. serverState'[i] = "none" /\ forgotten'[i] /\ Known(i) /\ ~Known(i)'
      BY <1>7 DEF IInv, Types, Known
<1>9. /\ Bound("server", i)' = Bound("server", i) \ {m} /\ m \in Bound("server", i)
      /\ Bound("client", i)' = Bound("client", i) \cup {close}
      BY <1>2, <1>5, <1>6 DEF Bound
<1>10. ASSUME NEW k \in Idents, k # i PROVE Orderly(k)'
  <2>1. \A d \in net' : d.id = k => d \in net BY <1>5, <1>6, <1>10
  <2>2. serverState'[k] = serverState[k] /\ forgotten'[k] = forgotten[k]
        BY <1>7, <1>10 DEF IInv, Types
  <2> QED BY <1>7, <2>1, <2>2, LessUnderWay
<1>11. Sessioned(i) BY DEF Orderly
<1>12. /\ serverSSL[i].session = sessions[i] /\ clientSSL[i].session = sessions[i]
       /\ clientState[i] = "ESTABLISHED"
       BY <1>7, <1>8, <1>9, <1>11 DEF Sessioned
<1>13. ~forgotten[i] /\ sessions[i] = 1
  <2>1. CASE forgotten[i] BY <1>8, <1>11, <1>12, <2>1 DEF Sessioned
  <2>2. CASE ~forgotten[i] BY <1>8, <1>11, <2>2 DEF Sessioned
  <2> QED BY <2>1, <2>2
<1>14. Sessioned(i)' BY <1>7, <1>8, <1>9, <1>11, <1>12, <1>13 DEF Sessioned
<1>15. Opened(i)' BY <1>4, <1>5, <1>6, <1>7, <1>12 DEF Orderly, Opened
<1>16. ASSUME faults' = 0 PROVE InTurn(i)'
  <2>1. InTurn(i) BY <1>7, <1>16 DEF Orderly
  <2>2. clientSSL[i].phase = "open" /\ clientSSL[i].read
        BY <1>7, <1>9, <2>1 DEF InTurn, Leaves
  <2>3. Bound("server", i)' = {} BY <1>7, <1>9, <2>1 DEF InTurn
  <2>4. "Close" \in Came(clientSSL[i]) BY <2>2 DEF Came
  <2> QED BY <1>5, <1>7, <1>8, <1>9, <2>1, <2>2, <2>3, <2>4 DEF InTurn
<1>17. Orderly(i)' BY <1>14, <1>15, <1>16 DEF Orderly
<1> QED BY <1>10, <1>17

\* A datagram that is of no use goes (sendData of the server).
LEMMA ServerDropOrder ==
    ASSUME IInv, \A k \in Idents : Orderly(k), NEW m \in net,
           ServerDrop(m), UNCHANGED <<clientSide, faults>>
    PROVE  \A k \in Idents : Orderly(k)'
<1>1. net' \subseteq net
  <2>1. PICK out : out = <<>> OBVIOUS
  <2>2. m.id \in Idents /\ Types /\ ServerWrites(m.id, {m}, out)
        BY <2>1 DEF ServerDrop, IInv, Types, AllDatagrams
  <2>3. out \in Seq(AllDatagrams) /\ {out[n] : n \in 1..Len(out)} = {} BY <2>1
  <2>4. net' = (net \ {m}) \cup {out[n] : n \in 1..Len(out)} BY <2>2, <2>3, WriteAll
  <2> QED BY <2>3, <2>4
<1>2. UNCHANGED <<serverState, serverSSL, sessions, forgotten, clientState, clientSSL, faults>>
      BY DEF ServerDrop, clientSide
<1> QED BY <1>1, <1>2, LessUnderWay

\* A new connection keeps the order (DtlsClient_connect).
LEMMA ConnectOrder ==
    ASSUME IInv, \A k \in Idents : Orderly(k), NEW i \in Idents, Connect(i)
    PROVE  \A k \in Idents : Orderly(k)'
<1>1. PICK hello : hello = Datagram("server", i, "ClientHello", 1, 0) OBVIOUS
<1>2. PICK e : e = Engine("ServerFlight", 0) OBVIOUS
<1>3. /\ hello \in AllDatagrams /\ hello.to = "server" /\ hello.id = i
      /\ hello.kind = "ClientHello" /\ hello.session = 0 /\ hello.part = 1
  <2>1. "ClientHello" \in Kinds BY DEF Kinds
  <2>2. hello.part = 1 BY <1>1 DEF Datagram
  <2> QED BY <1>1, <2>1, <2>2, OneDatagram
<1>4. e.phase = "ServerFlight" /\ e.session = 0 BY <1>2 DEF Engine
<1>5. net' = net \cup {hello}
  <2>1. PICK out : out = <<hello>> OBVIOUS
  <2>2. Types /\ ClientWrites(i, {}, out) BY <1>1, <2>1 DEF Connect, IInv
  <2>3. out \in Seq(AllDatagrams) /\ {out[n] : n \in 1..Len(out)} = {hello} BY <1>3, <2>1
  <2>4. net' = (net \ {}) \cup {out[n] : n \in 1..Len(out)} BY <2>2, <2>3, WriteAll
  <2> QED BY <2>3, <2>4
<1>6. /\ clientState[i] = "none"
      /\ clientState' = [clientState EXCEPT ![i] = "HANDSHAKE"]
      /\ clientSSL' = [clientSSL EXCEPT ![i] = e]
      /\ UNCHANGED <<serverState, serverSSL, sessions, forgotten, faults>>
      BY <1>2 DEF Connect, serverSide
<1>7. clientState'[i] = "HANDSHAKE" /\ clientSSL'[i] = e BY <1>6 DEF IInv, Types
<1>8. /\ Bound("server", i)' = Bound("server", i) \cup {hello}
      /\ Bound("client", i)' = Bound("client", i)
      BY <1>3, <1>5 DEF Bound
<1>9. Sessioned(i) /\ Opened(i) /\ ~forgotten[i] /\ clientSSL[i].phase = "start"
      BY <1>6 DEF Orderly, Sessioned
<1>10. Known(i)' = Known(i) BY <1>6 DEF Known
<1>11. ASSUME NEW k \in Idents, k # i PROVE Orderly(k)'
  <2>1. \A d \in net' : d.id = k => d \in net BY <1>3, <1>5, <1>11
  <2>2. clientState'[k] = clientState[k] /\ clientSSL'[k] = clientSSL[k]
        BY <1>6, <1>11 DEF IInv, Types
  <2> QED BY <1>6, <2>1, <2>2, LessUnderWay
<1>12. Sessioned(i)' BY <1>3, <1>4, <1>6, <1>7, <1>8, <1>9, <1>10 DEF Sessioned
<1>13. Opened(i)'
  <2>1. sessions[i] \in Nat BY DEF IInv, Types
  <2> QED BY <1>3, <1>4, <1>5, <1>6, <1>7, <1>9, <2>1 DEF Opened
<1>14. ASSUME faults' = 0 PROVE InTurn(i)'
  <2>1. InTurn(i) BY <1>6, <1>14 DEF Orderly
  <2>2. Bound("client", i) = {} BY <1>9, <2>1 DEF InTurn, Came
  <2>3. Bound("server", i) = {}
    <3>1. Leaves(clientSSL[i]) = "none" BY <1>9 DEF Leaves
    <3>2. \A d \in Bound("server", i) : d.kind # "none"
          BY DEF IInv, Types, AllDatagrams, Kinds, Bound
    <3> QED BY <2>1, <3>1, <3>2 DEF InTurn
  <2>4. Leaves(e) = "ClientHello" BY <1>4 DEF Leaves
  <2>5. serverSSL[i].has = {} BY <1>9, <2>1 DEF InTurn
  <2> QED BY <1>3, <1>4, <1>6, <1>7, <1>8, <1>9, <2>2, <2>3, <2>4, <2>5 DEF InTurn
<1>15. Orderly(i)' BY <1>12, <1>13, <1>14 DEF Orderly
<1> QED BY <1>11, <1>15

\* What the datagram m does to the engine e of the client i in its handshake, and
\* the datagrams W the client writes.
ClientMoves(i, e, m, ssl, W) ==
    /\ clientSSL' = [clientSSL EXCEPT ![i] = ssl]
    /\ clientState' = [clientState EXCEPT ![i] =
           IF ssl.phase = "open" THEN "ESTABLISHED" ELSE "HANDSHAKE"]
    /\ net' = (net \ {m}) \cup W
    /\ \A d \in W : d.to = "server" /\ d.id = i /\ d.session = m.session
    /\ \A c, d \in W : c.part = d.part => c = d
    /\ \/ ssl = e /\ W = {}
       \/ /\ m.kind = e.phase /\ ssl.session = m.session
          /\ \/ ssl.phase = e.phase /\ W = {}
             \/ /\ e.phase = "ServerFlight" /\ ssl.phase = "Finished"
                /\ \A d \in W : d.kind = "ClientFlight"
             \/ /\ e.phase = "Finished" /\ ssl.phase = "open" /\ ~ssl.read
                /\ \A d \in W : d.kind = "Data" /\ d.part = 1

\* A handshake call of the client is one of these moves (runHandshake).
LEMMA ClientEffect ==
    ASSUME IInv, NEW m \in net, ClientHandshake(m), NEW i, i = m.id,
           NEW e, e = clientSSL[i], e.phase = "ServerFlight" \/ e.phase = "Finished"
    PROVE  \E ssl \in AllEngines, W \in SUBSET AllDatagrams : ClientMoves(i, e, m, ssl, W)
<1>1. /\ m \in AllDatagrams /\ i \in Idents /\ m.session \in Nat /\ e \in AllEngines
      BY DEF IInv, Types, AllDatagrams
<1>2. PICK r : r = ConnectSSL(e, m) OBVIOUS
<1>3. PICK data : data = Datagram("server", i, "Data", 1, m.session) OBVIOUS
<1>4. /\ data \in AllDatagrams /\ data.to = "server" /\ data.id = i
      /\ data.kind = "Data" /\ data.session = m.session /\ data.part = 1
  <2>1. "Data" \in Kinds BY DEF Kinds
  <2>2. data.part = 1 BY <1>3 DEF Datagram
  <2> QED BY <1>1, <1>3, <2>1, <2>2, OneDatagram
<1>5. PICK out : out = r.out \o (IF r.ssl.phase = "open" THEN <<data>> ELSE <<>>) OBVIOUS
<1>6. PICK W : W = {out[n] : n \in 1..Len(out)} OBVIOUS
<1>7. r.ssl \in AllEngines /\ r.out \in Seq(AllDatagrams) BY <1>1, <1>2, ConnectEffect
<1>8. /\ ClientWrites(i, {m}, out)
      /\ clientSSL' = [clientSSL EXCEPT ![i] = r.ssl]
      /\ clientState' = [clientState EXCEPT ![i] =
             IF r.ssl.phase = "open" THEN "ESTABLISHED" ELSE "HANDSHAKE"]
      BY <1>2, <1>3, <1>5 DEF ClientHandshake, InitFinished
<1>9. out \in Seq(AllDatagrams) BY <1>4, <1>5, <1>7
<1>10. net' = (net \ {m}) \cup W /\ W \in SUBSET AllDatagrams
  <2>1. Types BY DEF IInv
  <2>2. net' = (net \ {m}) \cup W BY <1>1, <1>6, <1>8, <1>9, <2>1, WriteAll
  <2> QED BY <1>6, <1>9, <2>2
<1>11. CASE r.ssl.phase # "open" /\ r.out = <<>>
  <2>1. W = {} BY <1>5, <1>6, <1>11
  <2>2. \/ r.ssl = e
        \/ /\ m.kind = e.phase /\ r.ssl = With(e, m)
    <3>1. "open" # "Finished" /\ Engine("open", m.session).phase = "open" BY DEF Engine
    <3>2. Flight("server", m.id, "ClientFlight", m.session) # <<>>
      <4>1. 1 \in 1..Parts BY DtlsAssumption
      <4>2. 1 \in DOMAIN Flight("server", m.id, "ClientFlight", m.session) BY <4>1 DEF Flight
      <4> QED BY <4>2
    <3> QED BY <1>2, <1>11, <3>1, <3>2, ConnectCases
  <2>3. r.ssl = e \/ (m.kind = e.phase /\ r.ssl.session = m.session /\ r.ssl.phase = e.phase)
        BY <1>1, <2>2, WithFields
  <2> QED BY <1>7, <1>8, <1>10, <2>1, <2>3 DEF ClientMoves
<1>12. CASE r.ssl.phase # "open" /\ r.out # <<>>
  <2>1. /\ e.phase = "ServerFlight" /\ m.kind = e.phase
        /\ r.ssl = Engine("Finished", m.session)
        /\ r.out = Flight("server", m.id, "ClientFlight", m.session)
        BY <1>2, <1>12, ConnectCases
  <2>2. r.ssl.phase = "Finished" /\ r.ssl.session = m.session BY <2>1 DEF Engine
  <2>3. out = r.out BY <1>5, <1>7, <1>12
  <2>4. /\ \A d \in W : d.to = "server" /\ d.id = i /\ d.kind = "ClientFlight" /\ d.session = m.session
        /\ \A c, d \in W : c.part = d.part => c = d
    <3>1. "ClientFlight" \in Kinds BY DEF Kinds
    <3> QED BY <1>1, <1>6, <2>1, <2>3, <3>1, FlightParts
  <2> QED BY <1>7, <1>8, <1>10, <2>1, <2>2, <2>4 DEF ClientMoves
<1>13. CASE r.ssl.phase = "open"
  <2>1. /\ e.phase = "Finished" /\ m.kind = e.phase
        /\ r.ssl = Engine("open", m.session) /\ r.out = <<>>
    <3>1. Engine("Finished", m.session).phase = "Finished" BY DEF Engine
    <3>2. With(e, m).phase = e.phase BY <1>1, WithFields
    <3> QED BY <1>2, <1>13, <3>1, <3>2, ConnectCases
  <2>2. r.ssl.session = m.session /\ ~r.ssl.read BY <2>1 DEF Engine
  <2>3. out = <<data>> BY <1>5, <1>13, <2>1
  <2>4. W = {data} BY <1>6, <2>3
  <2> QED BY <1>4, <1>7, <1>8, <1>10, <1>13, <2>1, <2>2, <2>4 DEF ClientMoves
<1> QED BY <1>11, <1>12, <1>13

\* The client's handshake keeps the order: when it answers, the server has read all
\* that came before (runHandshake of the client).
LEMMA ClientHandshakeOrder ==
    ASSUME IInv, \A k \in Idents : Orderly(k), NEW m \in net, m.to = "client",
           ClientHandshake(m), UNCHANGED <<serverSide, faults>>
    PROVE  \A k \in Idents : Orderly(k)'
<1>1. m.id \in Idents /\ m.session \in Nat BY DEF IInv, Types, AllDatagrams
<1>2. PICK i \in Idents : i = m.id BY <1>1
<1>3. PICK e : e = clientSSL[i] OBVIOUS
<1>4. Sessioned(i) /\ Opened(i) BY DEF Orderly
<1>5. clientState[i] = "HANDSHAKE" /\ e.phase \in {"ServerFlight", "Finished"} /\ ~forgotten[i]
      BY <1>2, <1>3, <1>4 DEF ClientHandshake, Sessioned
<1>6. PICK ssl \in AllEngines, W \in SUBSET AllDatagrams : ClientMoves(i, e, m, ssl, W)
  <2>1. e.phase = "ServerFlight" \/ e.phase = "Finished" BY <1>5
  <2> QED BY <1>2, <1>3, <2>1, ClientEffect
<1>7. /\ clientSSL'[i] = ssl
      /\ clientState'[i] = (IF ssl.phase = "open" THEN "ESTABLISHED" ELSE "HANDSHAKE")
      /\ UNCHANGED <<serverState, serverSSL, sessions, forgotten, faults>>
      BY <1>6 DEF IInv, Types, serverSide, ClientMoves
<1>8. /\ Bound("server", i)' = Bound("server", i) \cup W
      /\ Bound("client", i)' = Bound("client", i) \ {m} /\ m \in Bound("client", i)
      BY <1>2, <1>6 DEF Bound, ClientMoves
<1>9. Known(i)' = Known(i) BY <1>7 DEF Known
<1>10. ASSUME NEW k \in Idents, k # i PROVE Orderly(k)'
  <2>1. \A d \in net' : d.id = k => d \in net BY <1>6, <1>10 DEF ClientMoves
  <2>2. clientState'[k] = clientState[k] /\ clientSSL'[k] = clientSSL[k]
        BY <1>6, <1>10 DEF IInv, Types, ClientMoves
  <2> QED BY <1>7, <2>1, <2>2, LessUnderWay
<1>11. Sessioned(i)'
  <2>1. \A d \in Bound("server", i)' : d.kind # "Close"
        BY <1>4, <1>5, <1>6, <1>8 DEF Sessioned, ClientMoves
  <2>2. ssl.phase \in {"ServerFlight", "Finished", "open"} BY <1>5, <1>6 DEF ClientMoves
  <2> QED BY <1>4, <1>5, <1>7, <1>9, <2>1, <2>2 DEF Sessioned
<1>12. Opened(i)'
  <2>1. m.session <= sessions[i] BY <1>2, <1>4 DEF Opened
  <2>2. ssl.session <= sessions[i] BY <1>3, <1>4, <1>6, <2>1 DEF Opened, ClientMoves
  <2>3. \A d \in net' : d.id = i => d.session <= sessions[i] BY <1>4, <1>6, <2>1 DEF Opened, ClientMoves
  <2> QED BY <1>4, <1>7, <2>2, <2>3 DEF Opened
<1>13. ASSUME faults' = 0 PROVE InTurn(i)'
  <2>1. InTurn(i) BY <1>7, <1>13 DEF Orderly
  <2>2. CASE ssl = e /\ W = {}
        BY <1>3, <1>7, <1>8, <1>9, <2>1, <2>2 DEF InTurn
  <2>3. CASE m.kind = e.phase
    <3>1. Bound("server", i) = {} BY <1>3, <1>5, <1>8, <2>1, <2>3 DEF InTurn, Awaits
    <3>2. Bound("server", i)' = W BY <1>8, <3>1
    <3>3. CASE ssl.phase = e.phase /\ W = {}
      <4>1. Came(ssl) = Came(e) BY <1>5, <3>3 DEF Came
      <4> QED BY <1>3, <1>5, <1>7, <1>8, <2>1, <3>2, <3>3, <4>1 DEF InTurn
    <3>4. CASE /\ e.phase = "ServerFlight" /\ ssl.phase = "Finished"
               /\ \A d \in W : d.kind = "ClientFlight"
      <4>1. Leaves(ssl) = "ClientFlight" /\ Awaits(ssl) = "Finished" BY <3>4 DEF Leaves, Awaits
      <4>2. Came(e) = {"ServerFlight"} /\ Came(ssl) = {"ServerFlight", "Finished"}
            BY <3>4 DEF Came
      <4>3. serverSSL[i].has = {} BY <1>3, <2>1, <3>4 DEF InTurn
      <4> QED BY <1>3, <1>5, <1>6, <1>7, <1>8, <2>1, <3>2, <3>4, <4>1, <4>2, <4>3 DEF InTurn, ClientMoves
    <3>5. CASE /\ e.phase = "Finished" /\ ssl.phase = "open" /\ ~ssl.read
               /\ \A d \in W : d.kind = "Data" /\ d.part = 1
      <4>1. Leaves(ssl) = "Data" /\ Awaits(ssl) = "Echo" BY <3>5 DEF Leaves, Awaits
      <4>2. /\ Came(e) = {"ServerFlight", "Finished"}
            /\ Came(ssl) = {"ServerFlight", "Finished", "Echo", "Close"}
            BY <3>5 DEF Came
      <4> QED BY <1>3, <1>5, <1>6, <1>7, <1>8, <2>1, <3>2, <3>5, <4>1, <4>2 DEF InTurn, ClientMoves
    <3>6. CASE ssl = e /\ W = {} BY <2>2, <3>6
    <3> QED BY <1>6, <3>3, <3>4, <3>5, <3>6 DEF ClientMoves
  <2> QED BY <1>6, <2>2, <2>3 DEF ClientMoves
<1>14. Orderly(i)' BY <1>11, <1>12, <1>13 DEF Orderly
<1> QED BY <1>10, <1>14

\* The client's close_notify is one of its session (sendData of the client).
LEMMA ClientEchoOrder ==
    ASSUME IInv, \A k \in Idents : Orderly(k), NEW m \in net, m.to = "client",
           ClientEcho(m), UNCHANGED <<serverSide, faults>>
    PROVE  \A k \in Idents : Orderly(k)'
<1>1. m.id \in Idents /\ m.session \in Nat BY DEF IInv, Types, AllDatagrams
<1>2. PICK i \in Idents : i = m.id BY <1>1
<1>3. PICK close : close = Datagram("server", i, "Close", 1, m.session) OBVIOUS
<1>4. /\ close \in AllDatagrams /\ close.to = "server" /\ close.id = i
      /\ close.kind = "Close" /\ close.session = m.session /\ close.part = 1
  <2>1. "Close" \in Kinds BY DEF Kinds
  <2>2. close.part = 1 BY <1>3 DEF Datagram
  <2> QED BY <1>1, <1>3, <2>1, <2>2, OneDatagram
<1>5. net' = (net \ {m}) \cup {close}
  <2>1. PICK out : out = <<close>> OBVIOUS
  <2>2. Types /\ ClientWrites(i, {m}, out) BY <1>2, <1>3, <2>1 DEF ClientEcho, IInv
  <2>3. out \in Seq(AllDatagrams) /\ {out[n] : n \in 1..Len(out)} = {close} BY <1>4, <2>1
  <2>4. net' = (net \ {m}) \cup {out[n] : n \in 1..Len(out)} BY <2>2, <2>3, WriteAll
  <2> QED BY <2>3, <2>4
<1>6. PICK w : w = [clientSSL[i] EXCEPT !.read = TRUE] OBVIOUS
<1>7. clientSSL[i] \in AllEngines BY DEF IInv, Types
<1>8. w.phase = clientSSL[i].phase /\ w.session = clientSSL[i].session /\ w.read
      BY <1>6, <1>7 DEF AllEngines
<1>9. clientSSL' = [clientSSL EXCEPT ![i] = w] BY <1>2, <1>6 DEF ClientEcho
<1>10. /\ m.kind = "Echo" /\ m.session = clientSSL[i].session /\ ~clientSSL[i].read
       /\ clientSSL'[i] = w /\ clientState[i] = "ESTABLISHED"
       /\ UNCHANGED <<serverState, serverSSL, sessions, forgotten, clientState, faults>>
       BY <1>2, <1>9 DEF ClientEcho, Reads, serverSide, IInv, Types
<1>11. /\ Bound("server", i)' = Bound("server", i) \cup {close}
       /\ Bound("client", i)' = Bound("client", i) \ {m} /\ m \in Bound("client", i)
       BY <1>2, <1>4, <1>5 DEF Bound
<1>12. ASSUME NEW k \in Idents, k # i PROVE Orderly(k)'
  <2>1. \A d \in net' : d.id = k => d \in net BY <1>4, <1>5, <1>12
  <2>2. clientSSL'[k] = clientSSL[k] BY <1>9, <1>12 DEF IInv, Types
  <2> QED BY <1>10, <2>1, <2>2, LessUnderWay
<1>13. Known(i)' = Known(i) BY <1>10 DEF Known
<1>14. Sessioned(i) /\ Opened(i) BY DEF Orderly
<1>15. Sessioned(i)' BY <1>4, <1>8, <1>10, <1>11, <1>13, <1>14 DEF Sessioned
<1>16. Opened(i)' BY <1>2, <1>4, <1>5, <1>8, <1>10, <1>14 DEF Opened
<1>17. ASSUME faults' = 0 PROVE InTurn(i)'
  <2>1. InTurn(i) BY <1>10, <1>17 DEF Orderly
  <2>2. clientSSL[i].phase = "open" BY <1>10, <1>14 DEF Sessioned
  <2>3. Awaits(clientSSL[i]) = "Echo" BY <1>10, <2>2 DEF Awaits
  <2>4. Bound("server", i)' = {close} BY <1>10, <1>11, <2>1, <2>3 DEF InTurn
  <2>5. Leaves(w) = "Close" /\ Awaits(w) = "none" BY <1>8, <2>2 DEF Leaves, Awaits
  <2>6. Came(w) = Came(clientSSL[i]) /\ "none" \notin Came(w) BY <1>8, <2>2 DEF Came
  <2>7. ~forgotten[i] BY <1>10, <2>1 DEF InTurn
  <2> QED BY <1>4, <1>8, <1>10, <1>11, <2>1, <2>2, <2>4, <2>5, <2>6, <2>7 DEF InTurn
<1>18. Orderly(i)' BY <1>15, <1>16, <1>17 DEF Orderly
<1> QED BY <1>12, <1>18

\* A fault puts nothing under way that was not, but for flights of a session that is
\* open (the network, and the timers of the engines).
LEMMA FaultOrder ==
    ASSUME IInv, faults \in 0..MaxFaults, \A k \in Idents : Orderly(k), Fault
    PROVE  faults' \in 0..MaxFaults /\ \A k \in Idents : Orderly(k)'
<1>1. faults' \in 0..MaxFaults /\ faults' # 0 BY DtlsAssumption DEF Fault
<1>2. UNCHANGED <<clientState, clientSSL, serverState, serverSSL, sessions, forgotten>>
      BY DEF Fault, clientSide, serverSide
<1>3. ASSUME NEW d \in net'
      PROVE  \/ \E c \in net : c.to = d.to /\ c.id = d.id /\ c.kind = d.kind /\ c.session = d.session
             \/ d.kind # "Close" /\ d.session <= sessions[d.id]
  <2>1. CASE Lose BY <1>3, <2>1 DEF Lose
  <2>2. CASE Copy
    <3>1. PICK m \in net : net' = net \cup {[m EXCEPT !.copy = TRUE]} BY <2>2 DEF Copy
    <3>2. m \in AllDatagrams BY DEF IInv, Types
    <3>3. /\ [m EXCEPT !.copy = TRUE].to = m.to /\ [m EXCEPT !.copy = TRUE].id = m.id
          /\ [m EXCEPT !.copy = TRUE].kind = m.kind
          /\ [m EXCEPT !.copy = TRUE].session = m.session
          BY <3>2 DEF AllDatagrams
    <3> QED BY <1>3, <3>1, <3>3
  <2>3. CASE Repeat
    <3>1. PICK i \in Idents, m \in net, to \in {"client", "server"},
               k \in {"ServerFlight", "ClientFlight"}, s \in Nat :
              s <= sessions[i] /\ net' = (net \ {m}) \cup Range(Flight(to, i, k, s))
      <4>1. ASSUME NEW j \in Idents
            PROVE  /\ sessions[j] \in Nat /\ sessions[j] <= sessions[j]
                   /\ clientSSL[j].session \in Nat /\ clientSSL[j].session <= sessions[j]
        <5>1. sessions[j] \in Nat /\ clientSSL[j] \in AllEngines BY DEF IInv, Types
        <5>2. clientSSL[j].session \in Nat BY <5>1 DEF AllEngines
        <5> QED BY <5>1, <5>2 DEF Orderly, Opened
      <4> QED BY <2>3, <4>1 DEF Repeat
    <3>2. s \in Nat /\ s <= sessions[i] BY <3>1
    <3>3. k \in Kinds /\ k # "Close" BY DEF Kinds
    <3>4. PICK f : f = Flight(to, i, k, s) OBVIOUS
    <3>5. /\ f \in Seq(AllDatagrams)
          /\ \A c \in {f[n] : n \in 1..Len(f)} : c.id = i /\ c.kind = k /\ c.session = s
          BY <3>2, <3>3, <3>4, FlightParts
    <3>6. Range(f) = {f[n] : n \in 1..Len(f)} BY <3>5 DEF Range
    <3> QED BY <1>3, <3>1, <3>2, <3>3, <3>4, <3>5, <3>6
  <2> QED BY <2>1, <2>2, <2>3 DEF Fault
<1>4. ASSUME NEW k \in Idents PROVE Orderly(k)'
  <2>1. Sessioned(k) /\ Opened(k) BY DEF Orderly
  <2>2. Known(k)' = Known(k) BY <1>2 DEF Known
  <2>3. ASSUME NEW d \in Bound("server", k)', d.kind = "Close"
        PROVE  clientState[k] = "ESTABLISHED" /\ d.session = clientSSL[k].session
    <3>1. d \in net' /\ d.to = "server" /\ d.id = k BY <2>3 DEF Bound
    <3>2. PICK c \in net : c.to = d.to /\ c.id = d.id /\ c.kind = d.kind /\ c.session = d.session
          BY <1>3, <2>3, <3>1
    <3>3. c \in Bound("server", k) BY <3>1, <3>2 DEF Bound
    <3> QED BY <2>1, <2>3, <3>2, <3>3 DEF Sessioned
  <2>4. Sessioned(k)' BY <1>2, <2>1, <2>2, <2>3 DEF Sessioned
  <2>5. \A d \in net' : d.id = k => d.session <= sessions[k] BY <1>3, <2>1 DEF Opened
  <2>6. Opened(k)' BY <1>2, <2>1, <2>5 DEF Opened
  <2> QED BY <1>1, <2>4, <2>6 DEF Orderly
<1> QED BY <1>1, <1>4

\* Every step keeps the order of every connection.
LEMMA OrderStep == OrderInv /\ [Next]_vars => OrderInv'
<1> SUFFICES ASSUME OrderInv, [Next]_vars PROVE OrderInv' OBVIOUS
<1>1. /\ IInv /\ IInv' /\ faults \in 0..MaxFaults /\ crashed \in BOOLEAN
      /\ \A k \in Idents : Orderly(k)
      BY Step DEF OrderInv
<1>2. crashed' \in BOOLEAN
  <2>1. crashed' = TRUE \/ crashed' = crashed
        BY DEF Next, ServerPkt, ClientPkt, ClientHandshake, ClientEcho, ClientAssertion, Connect,
               Fault, clientSide, vars
  <2> QED BY <1>1, <2>1
<1>3. CASE ServerPkt
  <2>1. PICK m \in net : m.to = "server" /\
            (ServerHandshake(m) \/ ServerEcho(m) \/ ServerClose(m) \/ ServerDrop(m))
        BY <1>3 DEF ServerPkt
  <2>2. UNCHANGED <<clientSide, faults>> BY <1>3 DEF ServerPkt
  <2>3. \A k \in Idents : Orderly(k)'
        BY <1>1, <2>1, <2>2, ServerHandshakeOrder, ServerEchoOrder, ServerCloseOrder,
           ServerDropOrder
  <2> QED BY <1>1, <1>2, <2>2, <2>3 DEF OrderInv
<1>4. CASE ClientPkt
  <2>1. PICK m \in net : m.to = "client" /\
            (ClientHandshake(m) \/ ClientEcho(m) \/ ClientAssertion(m))
        BY <1>4 DEF ClientPkt
  <2>2. UNCHANGED <<serverSide, faults>> BY <1>4 DEF ClientPkt
  <2>3. CASE ClientAssertion(m)
    <3>1. net' \subseteq net /\ UNCHANGED <<clientState, clientSSL>> BY <2>3 DEF ClientAssertion
    <3>2. \A k \in Idents : Orderly(k)'
          BY <1>1, <2>2, <3>1, LessUnderWay DEF serverSide
    <3> QED BY <1>1, <1>2, <2>2, <3>2 DEF OrderInv
  <2>4. CASE ClientHandshake(m) \/ ClientEcho(m)
    <3>1. \A k \in Idents : Orderly(k)'
          BY <1>1, <2>1, <2>2, <2>4, ClientHandshakeOrder, ClientEchoOrder
    <3> QED BY <1>1, <1>2, <2>2, <3>1 DEF OrderInv
  <2> QED BY <2>1, <2>3, <2>4
<1>5. CASE \E i \in Idents : Connect(i)
  <2>1. faults' = faults BY <1>5 DEF Connect
  <2>2. \A k \in Idents : Orderly(k)' BY <1>1, <1>5, ConnectOrder
  <2> QED BY <1>1, <1>2, <2>1, <2>2 DEF OrderInv
<1>6. CASE Fault BY <1>1, <1>2, <1>6, FaultOrder DEF OrderInv
<1>7. CASE UNCHANGED vars
  <2>1. UNCHANGED <<clientState, clientSSL, serverState, serverSSL, sessions, forgotten, net, faults>>
        BY <1>7 DEF vars, clientSide, serverSide
  <2>2. \A k \in Idents : Orderly(k)' BY <1>1, <2>1, LessUnderWay
  <2> QED BY <1>1, <1>2, <2>1, <2>2 DEF OrderInv
<1> QED BY <1>3, <1>4, <1>5, <1>6, <1>7 DEF Next

\* The server makes at most two engines for a connection, the second one only for a
\* datagram that was copied or sent again; tables, engines and datagrams keep their
\* types (runHandshake and sendData of both sides).
THEOREM DtlsTypeCorrect == Spec => []TypeOK
<1>1. OrderInv => TypeOK
  <2> SUFFICES ASSUME OrderInv PROVE TypeOK OBVIOUS
  <2>1. Types /\ faults \in 0..MaxFaults /\ crashed \in BOOLEAN BY DEF OrderInv, IInv
  <2>2. ASSUME NEW i \in Idents
        PROVE  sessions[i] \in Sessions /\ (sessions[i] > 1 => faults > 0)
    <3>1. Orderly(i) BY DEF OrderInv
    <3>2. sessions[i] \in Nat /\ faults \in Nat BY <2>1, DtlsAssumption DEF Types
    <3>3. sessions[i] \in Sessions
      <4>1. CASE forgotten[i] BY <3>1, <4>1 DEF Orderly, Sessioned, Sessions
      <4>2. CASE ~forgotten[i] BY <3>1, <4>2 DEF Orderly, Sessioned, Sessions
      <4> QED BY <4>1, <4>2
    <3>4. ASSUME faults = 0 PROVE sessions[i] <= 1
      <4>1. InTurn(i) BY <3>1, <3>4 DEF Orderly
      <4>2. CASE forgotten[i]
        <5>1. ~Known(i) BY <4>1, <4>2 DEF InTurn
        <5> QED BY <3>1, <4>2, <5>1 DEF Orderly, Sessioned
      <4>3. CASE ~forgotten[i] BY <3>1, <4>3 DEF Orderly, Sessioned
      <4> QED BY <4>2, <4>3
    <3> QED BY <3>2, <3>3, <3>4
  <2>3. sessions \in [Idents -> Sessions] BY <2>1, <2>2 DEF Types
  <2>4. ASSUME NEW i \in Idents, NEW s \in Nat, s <= sessions[i] PROVE s \in Sessions
        BY <2>2, <2>4 DEF Sessions
  <2>5. ASSUME NEW d \in net PROVE d \in Datagrams
    <3>1. d \in AllDatagrams /\ d.id \in Idents /\ d.session \in Nat
          BY <2>1 DEF Types, AllDatagrams
    <3>2. d.session <= sessions[d.id] BY <3>1 DEF OrderInv, Orderly, Opened
    <3>3. d.session \in Sessions BY <2>4, <3>1, <3>2
    <3> QED BY <3>1, <3>3 DEF AllDatagrams, Datagrams, Kinds
  <2>6. ASSUME NEW i \in Idents
        PROVE  clientSSL[i] \in Engines /\ serverSSL[i] \in Engines
    <3>1. clientSSL[i] \in AllEngines /\ serverSSL[i] \in AllEngines BY <2>1 DEF Types
    <3>2. clientSSL[i].session \in Nat /\ serverSSL[i].session \in Nat BY <3>1 DEF AllEngines
    <3>3. clientSSL[i].session <= sessions[i] /\ serverSSL[i].session <= sessions[i]
          BY DEF OrderInv, Orderly, Opened
    <3>4. clientSSL[i].session \in Sessions /\ serverSSL[i].session \in Sessions
          BY <2>4, <3>2, <3>3
    <3> QED BY <3>1, <3>4 DEF AllEngines, Engines, Phases
  <2>7. clientSSL \in [Idents -> Engines] /\ serverSSL \in [Idents -> Engines]
        BY <2>1, <2>6 DEF Types
  <2>8. clientBio \in [Idents -> Seq(Datagrams)] /\ serverBio \in [Idents -> Seq(Datagrams)]
    <3>1. <<>> \in Seq(Datagrams) OBVIOUS
    <3> QED BY <2>1, <3>1 DEF Types, Empty
  <2> QED BY <2>1, <2>2, <2>3, <2>5, <2>7, <2>8 DEF Types, States, TypeOK
<1> QED BY <1>1, OrderInitially, OrderStep, PTL DEF Spec
=============================================================================
