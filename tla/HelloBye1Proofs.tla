-------------------------- MODULE HelloBye1Proofs ---------------------------
(***************************************************************************)
(* The guarantees of the first version of the exchange, for any number of  *)
(* ports, connections and faults, and for both kinds of network.           *)
(***************************************************************************)
EXTENDS HelloBye1, TLAPS

-----------------------------------------------------------------------------
(* Packets                                                                 *)

LEMMA CookieNat == Cookies \subseteq Nat
BY HelloBye1Assumption

LEMMA MessageFields ==
    ASSUME NEW m \in Message
    PROVE  /\ m.conn \in Conns /\ m.text \in ToServer \cup ToClient
           /\ Value(m.char) \in Cookies
BY CookieNat DEF Message, Value, Digit

LEMMA MsgFields ==
    ASSUME NEW c \in Conns, NEW text \in ToServer \cup ToClient, NEW k \in Cookies,
           NEW r, r = Msg(c, text, k)
    PROVE  /\ r \in Message /\ r.conn = c /\ r.text = text
           /\ Value(r.char) = k
<1>1. /\ Digit(k) \in {Digit(j) : j \in Cookies}
      /\ Value(Digit(k)) = k
    BY CookieNat DEF Value, Digit
<1>2. r = [conn |-> c, text |-> text, char |-> Digit(k), refused |-> FALSE]
    BY DEF Msg
<1>3. /\ r \in Message /\ r.conn = c /\ r.text = text
      /\ r.char = Digit(k)
    BY <1>1, <1>2 DEF Message
<1> QED
    BY <1>1, <1>3

\* The texts a packet can have.
LEMMA Texts ==
    /\ "CLIENT_HELLO" \in ToServer \cup ToClient
    /\ "CLIENT_BYE" \in ToServer \cup ToClient
    /\ "SERVER_HELLO" \in ToServer \cup ToClient
    /\ "SERVER_BYE" \in ToServer \cup ToClient
BY DEF ToServer, ToClient

\* A refused packet differs in no field the two ends read.
LEMMA RefusedFields ==
    ASSUME NEW m \in Message
    PROVE  LET r == [m EXCEPT !.refused = TRUE]
           IN  /\ r \in Message
               /\ r.conn = m.conn /\ r.text = m.text /\ r.char = m.char
BY DEF Message

LEMMA FreeType ==
    ASSUME net \in [Message -> Nat], NEW m \in Message, net[m] > 0, Free(m)
    PROVE  /\ net' \in [Message -> Nat]
           /\ \A x \in Message : net'[x] > 0 => net[x] > 0
BY DEF Free

LEMMA ReplyType ==
    ASSUME net \in [Message -> Nat], NEW m \in Message, net[m] > 0,
           NEW r \in Message, Reply(m, r)
    PROVE  /\ net' \in [Message -> Nat]
           /\ \A x \in Message : net'[x] > 0 => net[x] > 0 \/ x = r
<1>1. CASE r = m
    BY <1>1 DEF Reply
<1>2. CASE r # m
    BY <1>2 DEF Reply
<1> QED
    BY <1>1, <1>2

-----------------------------------------------------------------------------
(* The inductive invariant: what a packet on its way proves.                *)

\* A client Hello carries a cookie a client chose, a client Bye one that a client
\* has read, a server Bye one for which the server's end was good.
Backed(m) ==
    /\ m.text = "CLIENT_HELLO" =>
            [conn |-> m.conn, clientCookie |-> Value(m.char)] \in opened
    /\ m.text = "CLIENT_BYE" =>
            [conn |-> m.conn, serverCookie |-> Value(m.char)] \in learned
    /\ m.text = "SERVER_BYE" =>
            \E e \in serverDone : e.conn = m.conn /\ e.clientCookie = Value(m.char)

NetBacked == \A m \in Message : net[m] > 0 => Backed(m)

ServersBacked ==
    \A c \in Conns : servers[c] # None =>
        [conn |-> c, clientCookie |-> servers[c].clientCookie] \in opened

IInv == ObjectsFit /\ NetBacked /\ ServersBacked /\ GoodEndsAgree

\* The histories only grow.
Grows == opened \subseteq opened' /\ learned \subseteq learned' /\ serverDone \subseteq serverDone'

LEMMA BackedStays ==
    ASSUME NEW m \in Message, Backed(m), Grows
    PROVE  Backed(m)'
BY DEF Backed, Grows

LEMMA NetStays ==
    ASSUME NetBacked, Grows, \A x \in Message : net'[x] > 0 => net[x] > 0
    PROVE  NetBacked'
BY BackedStays DEF NetBacked

LEMMA NetAdds ==
    ASSUME NetBacked, Grows, NEW r \in Message, Backed(r)',
           \A x \in Message : net'[x] > 0 => net[x] > 0 \/ x = r
    PROVE  NetBacked'
BY BackedStays DEF NetBacked

\* A refused packet proves what it proved.
LEMMA SendBackType ==
    ASSUME IInv, Grows, NEW m \in Message, net[m] > 0, SendBack(m)
    PROVE  net' \in [Message -> Nat] /\ NetBacked'
<1>1. PICK r : r = [m EXCEPT !.refused = TRUE]
    OBVIOUS
<1>2. r \in Message /\ r.conn = m.conn /\ r.text = m.text /\ r.char = m.char
    BY <1>1, RefusedFields
<1>3. Reply(m, r)
    BY <1>1 DEF SendBack
<1>4. Backed(m)
    BY DEF IInv, NetBacked
<1>5. Backed(r)'
  <2>1. Backed(m)'
      BY <1>4, BackedStays
  <2> QED
      BY <1>2, <2>1 DEF Backed
<1>6. net \in [Message -> Nat]
    BY DEF IInv, ObjectsFit
<1>7. /\ net' \in [Message -> Nat]
      /\ \A x \in Message : net'[x] > 0 => net[x] > 0 \/ x = r
    BY <1>2, <1>3, <1>6, ReplyType
<1> QED
    BY <1>2, <1>5, <1>7, NetAdds DEF IInv

-----------------------------------------------------------------------------
(* One lemma per action.                                                    *)

LEMMA ConnectStep == ASSUME IInv, NEW c \in Conns, Connect(c) PROVE IInv'
<1>1. PICK k \in Cookies :
        /\ clients' = [clients EXCEPT ![c] =
                [state |-> "bye", clientCookie |-> k, second |-> Address]]
        /\ net' = [net EXCEPT ![Msg(c, "CLIENT_HELLO", k)] = net[Msg(c, "CLIENT_HELLO", k)] + 1]
        /\ opened' = opened \cup {[conn |-> c, clientCookie |-> k]}
    BY DEF Connect
<1>2. PICK r : r = Msg(c, "CLIENT_HELLO", k)
    OBVIOUS
<1>3. r \in Message /\ r.conn = c /\ r.text = "CLIENT_HELLO" /\ Value(r.char) = k
    BY <1>2, Texts, MsgFields
<1>4. /\ UNCHANGED <<servers, reflects, faults, learned, clientDone, serverDone>>
      /\ connects' \in 0..MaxConnects
  <2>1. connects < MaxConnects /\ connects' = connects + 1 /\ connects \in 0..MaxConnects
      BY DEF Connect, IInv, ObjectsFit
  <2>2. connects' \in 0..MaxConnects
      BY <2>1, HelloBye1Assumption
  <2>3. UNCHANGED <<servers, reflects, faults, learned, clientDone, serverDone>>
      BY DEF Connect
  <2> QED
      BY <2>2, <2>3
<1>5. Grows
    BY <1>1, <1>4 DEF Grows
<1>6. /\ net' \in [Message -> Nat]
      /\ \A x \in Message : net'[x] > 0 => net[x] > 0 \/ x = r
  <2>1. net \in [Message -> Nat] /\ net' = [net EXCEPT ![r] = net[r] + 1]
      BY <1>1, <1>2 DEF IInv, ObjectsFit
  <2>2. r \in Message
      BY <1>3
  <2> QED
      BY <2>1, <2>2
<1>7. NetBacked'
  <2>1. Backed(r)'
      BY <1>1, <1>3 DEF Backed
  <2> QED
      BY <1>3, <1>5, <1>6, <2>1, NetAdds DEF IInv
<1>8. ObjectsFit'
  <2>1. [state |-> "bye", clientCookie |-> k, second |-> Address] \in Client
      BY DEF Client
  <2>2. clients' \in [Conns -> Client \cup {None}]
      BY <1>1, <2>1 DEF IInv, ObjectsFit
  <2>3. ASSUME NEW d \in Conns, clients'[d] # None
        PROVE  /\ [conn |-> d, clientCookie |-> clients'[d].clientCookie] \in opened'
               /\ IF clients'[d].state = "bye"
                  THEN clients'[d].second = Address
                  ELSE [conn |-> d, serverCookie |-> clients'[d].second] \in learned'
    <3>1. CASE d = c
        BY <1>1, <3>1 DEF IInv, ObjectsFit
    <3>2. CASE d # c
        BY <1>1, <1>4, <2>3, <3>2 DEF IInv, ObjectsFit
    <3> QED
        BY <3>1, <3>2
  <2> QED
      BY <1>4, <1>6, <2>2, <2>3 DEF IInv, ObjectsFit
<1>9. ServersBacked' /\ GoodEndsAgree'
    BY <1>4, <1>5 DEF IInv, ServersBacked, GoodEndsAgree, Grows
<1> QED
    BY <1>7, <1>8, <1>9 DEF IInv

\* What a step leaves of the invariant when it changes neither the connections nor
\* the histories.
LEMMA QuietStep ==
    ASSUME IInv, UNCHANGED <<clients, servers, connects, history>>,
           faults' \in 0..MaxFaults, net' \in [Message -> Nat], NetBacked'
    PROVE  IInv'
<1>1. ObjectsFit'
    BY DEF IInv, ObjectsFit, history
<1>2. ServersBacked' /\ GoodEndsAgree'
    BY DEF IInv, ServersBacked, GoodEndsAgree, history
<1> QED
    BY <1>1, <1>2 DEF IInv

LEMMA FreeStep ==
    ASSUME IInv, NEW m \in Message, ClientUnknown(m) \/ ServerRefuse(m)
    PROVE  IInv'
<1>1. /\ net[m] > 0 /\ Free(m) /\ faults' = faults
      /\ UNCHANGED <<clients, servers, connects, history>>
    BY DEF ClientUnknown, ServerRefuse, Refused, AtClient, ServerAccepts, AtServer
<1>2. Grows
    BY <1>1 DEF Grows, history
<1>3. net \in [Message -> Nat] /\ faults' \in 0..MaxFaults
    BY <1>1 DEF IInv, ObjectsFit
<1>4. net' \in [Message -> Nat] /\ \A x \in Message : net'[x] > 0 => net[x] > 0
    BY <1>1, <1>3, FreeType
<1>5. NetBacked'
    BY <1>2, <1>4, NetStays DEF IInv
<1> QED
    BY <1>1, <1>3, <1>4, <1>5, QuietStep

LEMMA FaultStep == ASSUME IInv, NEW m \in Message, Fault(m) PROVE IInv'
<1>1. /\ net[m] > 0 /\ faults < MaxFaults /\ faults' = faults + 1
      /\ UNCHANGED <<clients, servers, connects, history>>
    BY DEF Fault
<1>2. PICK n \in {net[m] - 1, net[m] + 1} : net' = [net EXCEPT ![m] = n]
    BY DEF Fault
<1>3. net \in [Message -> Nat] /\ faults \in 0..MaxFaults
    BY DEF IInv, ObjectsFit
<1>4. n \in Nat
    BY <1>1, <1>3
<1>5. net' \in [Message -> Nat] /\ \A x \in Message : net'[x] > 0 => net[x] > 0
    BY <1>1, <1>2, <1>3, <1>4
<1>6. faults' \in 0..MaxFaults
    BY <1>1, <1>3, HelloBye1Assumption
<1>7. NetBacked'
    BY <1>1, <1>5, NetStays DEF IInv, Grows, history
<1> QED
    BY <1>1, <1>5, <1>6, <1>7, QuietStep

\* A client's connection that ends.
LEMMA ClientEnds ==
    ASSUME IInv, NEW c \in Conns, clients' = [clients EXCEPT ![c] = None],
           UNCHANGED <<servers, connects, faults, opened, learned>>,
           net' \in [Message -> Nat]
    PROVE  ObjectsFit'
<1>1. clients' \in [Conns -> Client \cup {None}]
    BY DEF IInv, ObjectsFit
<1>2. ASSUME NEW d \in Conns, clients'[d] # None PROVE clients'[d] = clients[d]
    BY <1>2 DEF IInv, ObjectsFit
<1> QED
    BY <1>1, <1>2 DEF IInv, ObjectsFit

LEMMA ClientRejectStep == ASSUME IInv, NEW m \in Message, ClientReject(m) PROVE IInv'
<1>1. /\ net[m] > 0 /\ SendBack(m)
      /\ clients' = [clients EXCEPT ![m.conn] = None]
      /\ UNCHANGED <<servers, connects, faults, history>>
    BY DEF ClientReject, ClientKnown, AtClient
<1>2. Grows
    BY <1>1 DEF Grows, history
<1>3. net' \in [Message -> Nat] /\ NetBacked'
    BY <1>1, <1>2, SendBackType
<1>4. ObjectsFit'
  <2>1. m.conn \in Conns
      BY MessageFields
  <2> QED
      BY <1>1, <1>3, <2>1, ClientEnds DEF history
<1>5. ServersBacked' /\ GoodEndsAgree'
    BY <1>1 DEF IInv, ServersBacked, GoodEndsAgree, history
<1> QED
    BY <1>3, <1>4, <1>5 DEF IInv

\* The server Bye with the client's cookie is backed by the server's good end.
LEMMA ClientRecvByeStep == ASSUME IInv, NEW m \in Message, ClientRecvBye(m) PROVE IInv'
<1>1. /\ net[m] > 0 /\ Free(m) /\ GoodEnd(m)
      /\ clients' = [clients EXCEPT ![m.conn] = None]
      /\ clientDone' = clientDone \cup
            {[conn |-> m.conn, clientCookie |-> clients[m.conn].clientCookie]}
      /\ UNCHANGED <<servers, connects, faults, opened, learned, serverDone>>
    BY DEF ClientRecvBye, ClientKnown, AtClient
<1>2. net \in [Message -> Nat]
    BY DEF IInv, ObjectsFit
<1>3. net' \in [Message -> Nat] /\ \A x \in Message : net'[x] > 0 => net[x] > 0
    BY <1>1, <1>2, FreeType
<1>4. NetBacked'
    BY <1>1, <1>3, NetStays DEF IInv, Grows
<1>5. ObjectsFit'
  <2>1. m.conn \in Conns
      BY MessageFields
  <2> QED
      BY <1>1, <1>3, <2>1, ClientEnds
<1>6. GoodEndsAgree'
  <2>1. Backed(m) /\ m.text = "SERVER_BYE" /\ Value(m.char) = clients[m.conn].clientCookie
      BY <1>1 DEF IInv, NetBacked, GoodEnd
  <2>2. PICK e \in serverDone : e.conn = m.conn /\ e.clientCookie = clients[m.conn].clientCookie
      BY <2>1 DEF Backed
  <2>3. ASSUME NEW d \in clientDone'
        PROVE  \E f \in serverDone' : f.conn = d.conn /\ f.clientCookie = d.clientCookie
      BY <1>1, <2>2 DEF IInv, GoodEndsAgree
  <2> QED
      BY <1>1, <2>3 DEF IInv, GoodEndsAgree
<1>7. ServersBacked'
    BY <1>1 DEF IInv, ServersBacked
<1> QED
    BY <1>3, <1>4, <1>5, <1>6, <1>7 DEF IInv

\* The server's cookie is written where no function looks for the client's.
LEMMA ClientByeStep == ASSUME IInv, NEW m \in Message, ClientBye(m) PROVE IInv'
<1> DEFINE k == Value(m.char)
<1>1. /\ net[m] > 0 /\ clients[m.conn] # None
      /\ clients' = [clients EXCEPT ![m.conn] = Stored(clients[m.conn], k)]
      /\ Reply(m, Msg(m.conn, "CLIENT_BYE", k))
      /\ learned' = learned \cup {[conn |-> m.conn, serverCookie |-> k]}
      /\ UNCHANGED <<servers, connects, faults, opened, clientDone, serverDone>>
    BY DEF ClientBye, ClientKnown, AtClient
<1>2. m.conn \in Conns /\ k \in Cookies
    BY MessageFields
<1> HIDE DEF k
<1>3. PICK r : r = Msg(m.conn, "CLIENT_BYE", k)
    OBVIOUS
<1>4. r \in Message /\ r.conn = m.conn /\ r.text = "CLIENT_BYE" /\ Value(r.char) = k
    BY <1>2, <1>3, Texts, MsgFields
<1>5. /\ net' \in [Message -> Nat]
      /\ \A x \in Message : net'[x] > 0 => net[x] > 0 \/ x = r
  <2>1. net \in [Message -> Nat] /\ r \in Message /\ Reply(m, r)
      BY <1>1, <1>3, <1>4 DEF IInv, ObjectsFit
  <2> QED
      BY <1>1, <2>1, ReplyType
<1>6. Grows
    BY <1>1 DEF Grows
<1>7. NetBacked'
  <2>1. Backed(r)'
      BY <1>1, <1>4 DEF Backed
  <2> QED
      BY <1>4, <1>5, <1>6, <2>1, NetAdds DEF IInv
<1>8. ObjectsFit'
  <2>1. clients[m.conn] \in Client /\ clients \in [Conns -> Client \cup {None}]
      BY <1>1, <1>2 DEF IInv, ObjectsFit
  <2>2. PICK st : st = Stored(clients[m.conn], k)
      OBVIOUS
  <2>3. /\ st \in Client /\ st.state = "recvbye" /\ st.second = k
        /\ st.clientCookie = clients[m.conn].clientCookie
      BY <1>2, <2>1, <2>2 DEF Stored, Client
  <2>4. clients' \in [Conns -> Client \cup {None}]
      BY <1>1, <2>1, <2>2, <2>3
  <2>5. ASSUME NEW d \in Conns, clients'[d] # None
        PROVE  /\ [conn |-> d, clientCookie |-> clients'[d].clientCookie] \in opened'
               /\ IF clients'[d].state = "bye"
                  THEN clients'[d].second = Address
                  ELSE [conn |-> d, serverCookie |-> clients'[d].second] \in learned'
    <3>1. CASE d = m.conn
      <4>1. clients'[d] = st
          BY <1>1, <2>1, <2>2, <3>1
      <4>2. [conn |-> d, clientCookie |-> clients[d].clientCookie] \in opened
          BY <1>1, <3>1 DEF IInv, ObjectsFit
      <4>3. [conn |-> d, serverCookie |-> k] \in learned' /\ opened' = opened
          BY <1>1, <3>1
      <4> QED
          BY <2>3, <3>1, <4>1, <4>2, <4>3
    <3>2. CASE d # m.conn
      <4>1. clients'[d] = clients[d]
          BY <1>1, <2>1, <3>2
      <4> QED
          BY <1>1, <2>5, <4>1 DEF IInv, ObjectsFit
    <3> QED
        BY <3>1, <3>2
  <2> QED
      BY <1>1, <1>5, <2>4, <2>5 DEF IInv, ObjectsFit
<1>9. ServersBacked' /\ GoodEndsAgree'
    BY <1>1 DEF IInv, ServersBacked, GoodEndsAgree
<1> QED
    BY <1>5, <1>7, <1>8, <1>9 DEF IInv

\* The new connection has the cookie of a client's Hello.
LEMMA ServerHelloStep == ASSUME IInv, NEW m \in Message, ServerHello(m) PROVE IInv'
<1>1. /\ net[m] > 0 /\ m.text = "CLIENT_HELLO"
      /\ UNCHANGED <<clients, connects, faults, history>>
    BY DEF ServerHello, ServerAccepts, AtServer
<1>2. PICK k \in Cookies :
        /\ servers' = [servers EXCEPT ![m.conn] =
                [clientCookie |-> Value(m.char), serverCookie |-> k]]
        /\ Reply(m, Msg(m.conn, "SERVER_HELLO", k))
    BY DEF ServerHello
<1>3. m.conn \in Conns /\ Value(m.char) \in Cookies
    BY MessageFields
<1>4. PICK r : r = Msg(m.conn, "SERVER_HELLO", k)
    OBVIOUS
<1>5. r \in Message /\ r.text = "SERVER_HELLO"
    BY <1>2, <1>3, <1>4, Texts, MsgFields
<1>6. Grows
    BY <1>1 DEF Grows, history
<1>7. /\ net' \in [Message -> Nat]
      /\ \A x \in Message : net'[x] > 0 => net[x] > 0 \/ x = r
  <2>1. net \in [Message -> Nat] /\ r \in Message /\ Reply(m, r)
      BY <1>2, <1>4, <1>5 DEF IInv, ObjectsFit
  <2> QED
      BY <1>1, <2>1, ReplyType
<1>8. NetBacked'
  <2>1. Backed(r)'
      BY <1>5 DEF Backed
  <2> QED
      BY <1>5, <1>6, <1>7, <2>1, NetAdds DEF IInv
<1>9. ObjectsFit'
  <2>1. [clientCookie |-> Value(m.char), serverCookie |-> k] \in Server
      BY <1>3 DEF Server
  <2>2. servers' \in [Conns -> Server \cup {None}]
      BY <1>2, <2>1 DEF IInv, ObjectsFit
  <2> QED
      BY <1>1, <1>7, <2>2 DEF IInv, ObjectsFit, history
<1>10. ServersBacked'
  <2>1. [conn |-> m.conn, clientCookie |-> Value(m.char)] \in opened
      BY <1>1 DEF IInv, NetBacked, Backed
  <2>2. servers \in [Conns -> Server \cup {None}] /\ opened' = opened
      BY <1>1 DEF IInv, ObjectsFit, history
  <2>3. ASSUME NEW c \in Conns, servers'[c] # None
        PROVE  [conn |-> c, clientCookie |-> servers'[c].clientCookie] \in opened'
    <3>1. CASE c = m.conn
        BY <1>2, <2>1, <2>2, <3>1
    <3>2. CASE c # m.conn
      <4>1. servers'[c] = servers[c]
          BY <1>2, <2>2, <3>2
      <4> QED
          BY <2>2, <2>3, <4>1 DEF IInv, ServersBacked
    <3> QED
        BY <3>1, <3>2
  <2> QED
      BY <2>3 DEF ServersBacked
<1>11. GoodEndsAgree'
    BY <1>1 DEF IInv, GoodEndsAgree, history
<1> QED
    BY <1>8, <1>9, <1>10, <1>11 DEF IInv

\* A server's connection that ends.
LEMMA ServerEnds ==
    ASSUME IInv, NEW c \in Conns, servers' = [servers EXCEPT ![c] = None],
           UNCHANGED <<clients, connects, faults, opened, learned>>,
           net' \in [Message -> Nat]
    PROVE  ObjectsFit' /\ ServersBacked'
<1>1. servers' \in [Conns -> Server \cup {None}]
    BY DEF IInv, ObjectsFit
<1>2. ASSUME NEW d \in Conns, servers'[d] # None PROVE servers'[d] = servers[d]
    BY <1>2 DEF IInv, ObjectsFit
<1>3. ObjectsFit'
    BY <1>1 DEF IInv, ObjectsFit
<1>4. ServersBacked'
    BY <1>2 DEF IInv, ServersBacked
<1> QED
    BY <1>3, <1>4

LEMMA ServerRejectStep == ASSUME IInv, NEW m \in Message, ServerReject(m) PROVE IInv'
<1>1. /\ net[m] > 0 /\ SendBack(m)
      /\ servers' = [servers EXCEPT ![m.conn] = None]
      /\ UNCHANGED <<clients, connects, faults, history>>
    BY DEF ServerReject, ServerKnown, AtServer
<1>2. Grows
    BY <1>1 DEF Grows, history
<1>3. net' \in [Message -> Nat] /\ NetBacked'
    BY <1>1, <1>2, SendBackType
<1>4. ObjectsFit' /\ ServersBacked'
  <2>1. m.conn \in Conns
      BY MessageFields
  <2> QED
      BY <1>1, <1>3, <2>1, ServerEnds DEF history
<1>5. GoodEndsAgree'
    BY <1>1 DEF IInv, GoodEndsAgree, history
<1> QED
    BY <1>3, <1>4, <1>5 DEF IInv

\* The client Bye with the server's cookie shows that a client has read it.
LEMMA ServerByeStep == ASSUME IInv, NEW m \in Message, ServerBye(m) PROVE IInv'
<1> DEFINE s == servers[m.conn]
<1>1. /\ net[m] > 0 /\ s # None /\ Proves(m)
      /\ Reply(m, Msg(m.conn, "SERVER_BYE", s.clientCookie))
      /\ serverDone' = serverDone \cup
            {[conn |-> m.conn, clientCookie |-> s.clientCookie, serverCookie |-> s.serverCookie]}
      /\ servers' = [servers EXCEPT ![m.conn] = None]
      /\ UNCHANGED <<clients, connects, faults, opened, learned, clientDone>>
    BY DEF ServerBye, ServerKnown, AtServer
<1>2. m.conn \in Conns
    BY MessageFields
<1>3. s.clientCookie \in Cookies
    BY <1>1, <1>2 DEF IInv, ObjectsFit, Server
<1>4. PICK k : k = s.clientCookie
    OBVIOUS
<1>5. PICK e : e = [conn |-> m.conn, clientCookie |-> s.clientCookie,
                    serverCookie |-> s.serverCookie]
    OBVIOUS
<1>6. /\ serverDone' = serverDone \cup {e}
      /\ e.conn = m.conn /\ e.clientCookie = k /\ e.serverCookie = s.serverCookie
    BY <1>1, <1>4, <1>5
<1>7. [conn |-> m.conn, clientCookie |-> k] \in opened
    BY <1>1, <1>2, <1>4 DEF IInv, ServersBacked
<1>8. [conn |-> m.conn, serverCookie |-> e.serverCookie] \in learned
    BY <1>1, <1>6 DEF IInv, NetBacked, Backed, Proves
<1> HIDE DEF s
<1>9. PICK r : r = Msg(m.conn, "SERVER_BYE", k)
    OBVIOUS
<1>10. r \in Message /\ r.conn = m.conn /\ r.text = "SERVER_BYE" /\ Value(r.char) = k
  <2>1. k \in Cookies
      BY <1>3, <1>4
  <2> QED
      BY <1>2, <1>9, <2>1, Texts, MsgFields
<1>11. Grows
    BY <1>1 DEF Grows
<1>12. /\ net' \in [Message -> Nat]
       /\ \A x \in Message : net'[x] > 0 => net[x] > 0 \/ x = r
  <2>1. net \in [Message -> Nat] /\ r \in Message /\ Reply(m, r)
      BY <1>1, <1>4, <1>9, <1>10 DEF IInv, ObjectsFit
  <2> QED
      BY <1>1, <2>1, ReplyType
<1>13. NetBacked'
  <2>1. Backed(r)'
      BY <1>6, <1>10 DEF Backed
  <2> QED
      BY <1>10, <1>11, <1>12, <2>1, NetAdds DEF IInv
<1>14. ObjectsFit' /\ ServersBacked'
    BY <1>1, <1>2, <1>12, ServerEnds
<1>15. GoodEndsAgree'
  <2>1. ASSUME NEW f \in serverDone'
        PROVE  /\ [conn |-> f.conn, clientCookie |-> f.clientCookie] \in opened'
               /\ [conn |-> f.conn, serverCookie |-> f.serverCookie] \in learned'
    <3>1. CASE f = e
        BY <1>1, <1>6, <1>7, <1>8, <3>1
    <3>2. CASE f \in serverDone
        BY <1>1, <3>2 DEF IInv, GoodEndsAgree
    <3> QED
        BY <1>6, <3>1, <3>2
  <2>2. \A d \in clientDone' :
            \E f \in serverDone' : f.conn = d.conn /\ f.clientCookie = d.clientCookie
      BY <1>1, <1>6 DEF IInv, GoodEndsAgree
  <2> QED
      BY <2>1, <2>2 DEF GoodEndsAgree
<1> QED
    BY <1>13, <1>14, <1>15 DEF IInv

-----------------------------------------------------------------------------

LEMMA IInvStart == Init => IInv
<1> SUFFICES ASSUME Init PROVE IInv
    OBVIOUS
<1>1. ObjectsFit
    BY HelloBye1Assumption DEF Init, ObjectsFit
<1>2. NetBacked /\ ServersBacked /\ GoodEndsAgree
    BY DEF Init, NetBacked, ServersBacked, GoodEndsAgree
<1> QED
    BY <1>1, <1>2 DEF IInv

LEMMA IInvStep == IInv /\ [Next]_vars => IInv'
<1> SUFFICES ASSUME IInv, [Next]_vars PROVE IInv'
    OBVIOUS
<1>1. ASSUME NEW m \in Message, ClientPkt(m) PROVE IInv'
    BY <1>1, FreeStep, ClientByeStep, ClientRecvByeStep, ClientRejectStep DEF ClientPkt
<1>2. ASSUME NEW m \in Message, ServerPkt(m) PROVE IInv'
    BY <1>2, FreeStep, ServerHelloStep, ServerByeStep, ServerRejectStep DEF ServerPkt
<1>3. CASE UNCHANGED vars
  <2>1. ObjectsFit'
      BY <1>3 DEF IInv, ObjectsFit, vars
  <2>2. NetBacked'
      BY <1>3, NetStays DEF IInv, Grows, vars
  <2>3. ServersBacked' /\ GoodEndsAgree'
      BY <1>3 DEF IInv, ServersBacked, GoodEndsAgree, vars
  <2> QED
      BY <2>1, <2>2, <2>3 DEF IInv
<1> QED
    BY <1>1, <1>2, <1>3, ConnectStep, FaultStep DEF Next

LEMMA IInvAlways == Spec => []IInv
BY IInvStart, IInvStep, PTL DEF Spec

\* The connections and packets keep their types, and the object of a client that
\* HelloByeClientBye and HelloByeClientRecvBye read as theirs holds the cookie
\* its connection was opened with.
THEOREM ObjectsFitCorrect == Spec => []ObjectsFit
<1>1. IInv => ObjectsFit
    BY DEF IInv
<1> QED
    BY <1>1, IInvAlways, PTL

\* HelloByeServerBye::fun and HelloByeClientRecvBye::fun end a connection well only
\* when the peer has the same cookies, whatever the network does with packets,
\* those that were refused and sent again included.
THEOREM GoodEndsAgreeCorrect == Spec => []GoodEndsAgree
<1>1. IInv => GoodEndsAgree
    BY DEF IInv
<1> QED
    BY <1>1, IInvAlways, PTL

=============================================================================
