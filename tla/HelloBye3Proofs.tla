-------------------------- MODULE HelloBye3Proofs ---------------------------
(***************************************************************************)
(* What HelloBye3 promises, for any number of connections and cookies: the *)
(* two guarantees of the cookies, whatever number of packets is lost,      *)
(* copied or reordered and however often the client restarts, and the      *)
(* agreement of the two ends as long as none of this happens.              *)
(***************************************************************************)
EXTENDS HelloBye3, TLAPS

USE HelloByeAssumption, NoneAssumption

-----------------------------------------------------------------------------
(* Types                                                                   *)

LEMMA MsgType ==
    ASSUME NEW i \in Idents, NEW k \in Cookies,
           NEW role \in {"client", "server"}, NEW kind \in {"hello", "bye"}
    PROVE  Msg(i, role, kind, k) \in Message
BY DEF Msg, Message

\* A reply goes the other way.
LEMMA ReplyDiffers ==
    ASSUME NEW m, NEW i, NEW role, NEW kind, NEW k, m.role # role
    PROVE  Msg(i, role, kind, k) # m
BY DEF Msg

LEMMA ConsumeType ==
    ASSUME TypeOK, NEW m \in Message, net[m] > 0, Consume(m)
    PROVE  /\ net' \in [Message -> Nat]
           /\ \A x \in Message : net'[x] > 0 => net[x] > 0
BY DEF TypeOK, Consume

LEMMA ReplyType ==
    ASSUME TypeOK, NEW m \in Message, NEW r \in Message, net[m] > 0, r # m, Reply(m, r)
    PROVE  /\ net' \in [Message -> Nat]
           /\ \A x \in Message : net'[x] > 0 => net[x] > 0 \/ x = r
BY DEF TypeOK, Reply

LEMMA KnownType ==
    ASSUME TypeOK, NEW i \in Idents
    PROVE  Known(i) \in Client \cup {None}
BY DEF TypeOK, Known

LEMMA KeepType ==
    ASSUME TypeOK, NEW i \in Idents, NEW st \in Client \cup {None}, Keep(i, st)
    PROVE  /\ pool' \in [Idents -> Client \cup {None}]
           /\ clients' \in [Idents -> Client \cup {None}]
           /\ \A j \in Idents : clients'[j] # None => pool'[j] = None
BY DEF TypeOK, Keep

\* An identity that was not used yet has no State.  TypeOK alone is not inductive:
\* the connector could add one to the pool while the reflector has another.
Fresh == \A i \in next : pool[i] = None /\ clients[i] = None

LEMMA FreshStep == TypeOK /\ Fresh /\ [Next]_vars => Fresh'
<1> SUFFICES ASSUME TypeOK, Fresh, [Next]_vars PROVE Fresh'
    OBVIOUS
<1>1. ASSUME NEW i \in Idents, Connect(i) PROVE Fresh'
    BY <1>1 DEF Connect, Fresh, TypeOK
<1>2. ASSUME NEW m \in Message, NEW st,
             Known(m.ident) # None, Keep(m.ident, st), UNCHANGED next
      PROVE  Fresh'
  <2>1. m.ident \notin next
      BY <1>2 DEF Known, Fresh
  <2> QED
      BY <1>2, <2>1 DEF Keep, Fresh, TypeOK
<1>3. ASSUME NEW m \in Message, ClientBye(m) \/ ClientRecvBye(m) \/ ClientReject(m)
      PROVE  Fresh'
    BY <1>2, <1>3 DEF ClientBye, ClientRecvBye, ClientReject
<1>4. CASE Restart
    BY <1>4 DEF Restart, Fresh
<1>5. ASSUME UNCHANGED <<pool, clients, next>> PROVE Fresh'
    BY <1>5 DEF Fresh
<1>6. ASSUME NEW m \in Message,
             \/ Enqueue(m) \/ ClientUnknown(m)
             \/ ServerPkt(m)
             \/ Lose(m) \/ Duplicate(m)
      PROVE  Fresh'
    BY <1>5, <1>6 DEF Enqueue, ClientUnknown, ServerPkt, ServerHello, ServerRefuse,
                      ServerBye, ServerReject, Lose, Duplicate, Fault
<1>7. CASE UNCHANGED vars
    BY <1>5, <1>7 DEF vars
<1> QED
    BY <1>1, <1>3, <1>4, <1>6, <1>7 DEF Next, ClientPkt, TypeOK

LEMMA TypeStep == TypeOK /\ Fresh /\ [Next]_vars => TypeOK'
<1> SUFFICES ASSUME TypeOK, Fresh, [Next]_vars PROVE TypeOK'
    OBVIOUS
<1>1. ASSUME NEW i \in Idents, Connect(i) PROVE TypeOK'
  <2>1. PICK k \in Cookies :
          /\ pool' = [pool EXCEPT ![i] =
                          [state |-> "bye", clientCookie |-> k, serverCookie |-> 0]]
          /\ outbox' = outbox \cup {Msg(i, "client", "hello", k)}
          /\ opened' = opened \cup {[ident |-> i, clientCookie |-> k]}
      BY <1>1 DEF Connect
  <2>2. [state |-> "bye", clientCookie |-> k, serverCookie |-> 0] \in Client
      BY DEF Client
  <2>3. Msg(i, "client", "hello", k) \in Message
      BY MsgType
  <2>4. /\ pool' \in [Idents -> Client \cup {None}]
        /\ \A j \in Idents : clients'[j] # None => pool'[j] = None
      BY <1>1, <2>1, <2>2 DEF TypeOK, Connect, Fresh
  <2> QED
      BY <1>1, <2>1, <2>3, <2>4 DEF TypeOK, Connect
<1>2. ASSUME NEW m \in outbox, Enqueue(m) PROVE TypeOK'
  <2>1. m \in Message /\ net' = [net EXCEPT ![m] = net[m] + 1]
      BY <1>2 DEF TypeOK, Enqueue
  <2>2. net' \in [Message -> Nat]
      BY <2>1 DEF TypeOK
  <2> QED
      BY <1>2, <2>2 DEF TypeOK, Enqueue, history
<1>3. ASSUME NEW m \in Message, ClientUnknown(m) \/ ServerRefuse(m) PROVE TypeOK'
    BY <1>3, ConsumeType DEF ClientUnknown, ServerRefuse, Arrives, TypeOK, history
<1>4. ASSUME NEW m \in Message, ClientBye(m) PROVE TypeOK'
  <2> DEFINE c == Known(m.ident)
             st == [c EXCEPT !.state = "recvbye", !.serverCookie = m.cookie]
  <2>1. m.ident \in Idents /\ m.cookie \in Cookies /\ m.role = "server" /\ net[m] > 0
      BY <1>4 DEF ClientBye, Arrives, Message
  <2>2. c \in Client
      BY <1>4, <2>1, KnownType DEF ClientBye
  <2>3. st \in Client
      BY <2>1, <2>2 DEF Client
  <2>4. ByeFor(m, c) \in Message /\ ByeFor(m, c) # m
    <3>1. ByeFor(m, c) = Msg(m.ident, "client", "bye", m.cookie)
        BY DEF ByeFor
    <3> QED
        BY <2>1, <3>1, MsgType, ReplyDiffers
  <2>5. Keep(m.ident, st) /\ Reply(m, ByeFor(m, c))
      BY <1>4 DEF ClientBye
  <2> HIDE DEF st, c
  <2>6. /\ pool' \in [Idents -> Client \cup {None}]
        /\ clients' \in [Idents -> Client \cup {None}]
        /\ \A j \in Idents : clients'[j] # None => pool'[j] = None
        /\ net' \in [Message -> Nat]
      BY <2>1, <2>3, <2>4, <2>5, KeepType, ReplyType
  <2> QED
      BY <1>4, <2>1, <2>6 DEF ClientBye, TypeOK
<1>5. ASSUME NEW m \in Message, ClientRecvBye(m) \/ ClientReject(m) PROVE TypeOK'
  <2>1. /\ m.ident \in Idents /\ net[m] > 0 /\ Keep(m.ident, None) /\ Consume(m)
        /\ Known(m.ident) # None
      BY <1>5 DEF ClientRecvBye, ClientReject, Arrives, Message
  <2>2. Known(m.ident).clientCookie \in Cookies
      BY <2>1, KnownType DEF Client
  <2>3. /\ pool' \in [Idents -> Client \cup {None}]
        /\ clients' \in [Idents -> Client \cup {None}]
        /\ \A j \in Idents : clients'[j] # None => pool'[j] = None
        /\ net' \in [Message -> Nat]
      BY <2>1, KeepType, ConsumeType
  <2> QED
      BY <1>5, <2>1, <2>2, <2>3 DEF ClientRecvBye, ClientReject, TypeOK, history
<1>6. CASE Restart
    BY <1>6 DEF Restart, TypeOK, history
<1>7. ASSUME NEW m \in Message, ServerHello(m) PROVE TypeOK'
  <2>1. /\ m.ident \in Idents /\ m.cookie \in Cookies /\ net[m] > 0
        /\ m.role = "client"
      BY <1>7 DEF ServerHello, Arrives, Message
  <2>2. PICK k \in Cookies :
            /\ servers' = [servers EXCEPT ![m.ident] = Accepted(m, k)]
            /\ Reply(m, Msg(m.ident, "server", "hello", k))
      BY <1>7 DEF ServerHello
  <2>3. /\ Msg(m.ident, "server", "hello", k) \in Message
        /\ Msg(m.ident, "server", "hello", k) # m
      BY <2>1, MsgType, ReplyDiffers
  <2>4. net' \in [Message -> Nat]
      BY <2>1, <2>2, <2>3, ReplyType
  <2>5. Accepted(m, k) \in Server
      BY <2>1 DEF Accepted, Server
  <2> QED
      BY <1>7, <2>1, <2>2, <2>4, <2>5 DEF ServerHello, TypeOK, history
<1>8. ASSUME NEW m \in Message, ServerBye(m) PROVE TypeOK'
  <2> DEFINE s == servers[m.ident]
  <2>1. m.ident \in Idents /\ net[m] > 0 /\ m.role = "client" /\ s # None
      BY <1>8 DEF ServerBye, Arrives, Message
  <2>2. s \in Server /\ s.clientCookie \in Cookies /\ s.serverCookie \in Cookies
      BY <2>1 DEF TypeOK, Server
  <2>3. Reply(m, Msg(m.ident, "server", "bye", s.clientCookie))
      BY <1>8 DEF ServerBye
  <2>4. /\ Msg(m.ident, "server", "bye", s.clientCookie) \in Message
        /\ Msg(m.ident, "server", "bye", s.clientCookie) # m
      BY <2>1, <2>2, MsgType, ReplyDiffers
  <2>5. net' \in [Message -> Nat]
      BY <2>1, <2>3, <2>4, ReplyType
  <2> QED
      BY <1>8, <2>1, <2>2, <2>5 DEF ServerBye, TypeOK
<1>9. ASSUME NEW m \in Message, ServerReject(m) PROVE TypeOK'
    BY <1>9, ConsumeType DEF ServerReject, Arrives, Message, TypeOK, history
<1>10. ASSUME NEW m \in Message, Lose(m) \/ Duplicate(m) PROVE TypeOK'
    BY <1>10 DEF Lose, Duplicate, Fault, TypeOK, history
<1>11. CASE UNCHANGED vars
    BY <1>11 DEF vars, TypeOK
<1> QED
    BY <1>1, <1>2, <1>3, <1>4, <1>5, <1>6, <1>7, <1>8, <1>9, <1>10, <1>11
       DEF Next, ClientPkt, ServerPkt

\* The state tables, the pool and the packets keep their types, and no connection
\* is in the pool and in the reflector's table at once.
THEOREM HelloByeTypeCorrect == Spec => []TypeOK
<1>1. Init => TypeOK /\ Fresh
    BY DEF Init, TypeOK, Fresh
<1> QED
    BY <1>1, FreshStep, TypeStep, PTL DEF Spec

-----------------------------------------------------------------------------
(* The cookies.  What a packet or a state carries has a cause: an identity  *)
(* that was opened, a Hello that was read, an end of the server.  Copies,   *)
(* losses and restarts leave the causes alone, because histories only grow. *)

OpenedWith(i, k) == [ident |-> i, clientCookie |-> k] \in opened

Learned(i, k) == [ident |-> i, serverCookie |-> k] \in learned

EndedWith(i, k) == \E e \in serverDone : e.ident = i /\ e.clientCookie = k

Caused(m) ==
    /\ m.role = "client" /\ m.msg = "hello" => OpenedWith(m.ident, m.cookie)
    /\ m.role = "client" /\ m.msg = "bye" => Learned(m.ident, m.cookie)
    /\ m.role = "server" /\ m.msg = "bye" => EndedWith(m.ident, m.cookie)

PacketsCaused == \A m \in Message : net[m] > 0 \/ m \in outbox => Caused(m)

ServersCaused ==
    \A i \in Idents : servers[i] # None => OpenedWith(i, servers[i].clientCookie)

CookieInv ==
    /\ TypeOK /\ Fresh
    /\ PacketsCaused /\ ServersCaused
    /\ ClientEndHasServerEnd /\ ServerEndIsProved

\* A step that sends at most the packet r, and only adds to the histories.
LEMMA CausesStay ==
    ASSUME TypeOK, PacketsCaused, ServersCaused,
           opened \subseteq opened', learned \subseteq learned',
           serverDone \subseteq serverDone'
    PROVE  /\ \A m \in Message : net[m] > 0 \/ m \in outbox => Caused(m)'
           /\ \A i \in Idents : servers[i] # None =>
                    [ident |-> i, clientCookie |-> servers[i].clientCookie] \in opened'
BY DEF PacketsCaused, ServersCaused, Caused, OpenedWith, Learned, EndedWith

\* The two guarantees survive every step that leaves the ends alone.
LEMMA EndsStay ==
    ASSUME ClientEndHasServerEnd, ServerEndIsProved,
           opened \subseteq opened', learned \subseteq learned',
           serverDone' = serverDone, clientDone' = clientDone
    PROVE  ClientEndHasServerEnd' /\ ServerEndIsProved'
BY DEF ClientEndHasServerEnd, ServerEndIsProved

LEMMA CookieStep ==
    ASSUME CookieInv, [Next]_vars
    PROVE  /\ PacketsCaused' /\ ServersCaused'
           /\ ClientEndHasServerEnd' /\ ServerEndIsProved'
<1> DEFINE Goal == /\ PacketsCaused' /\ ServersCaused'
                   /\ ClientEndHasServerEnd' /\ ServerEndIsProved'
<1>1. TypeOK /\ Fresh /\ PacketsCaused /\ ServersCaused
        /\ ClientEndHasServerEnd /\ ServerEndIsProved
    BY DEF CookieInv
<1>2. ASSUME NEW i \in Idents, Connect(i) PROVE Goal
  <2>1. PICK k \in Cookies :
          /\ outbox' = outbox \cup {Msg(i, "client", "hello", k)}
          /\ opened' = opened \cup {[ident |-> i, clientCookie |-> k]}
      BY <1>2 DEF Connect
  <2>2. Caused(Msg(i, "client", "hello", k))'
      BY <2>1 DEF Caused, OpenedWith, Msg
  <2>3. UNCHANGED <<net, servers, learned, clientDone, serverDone>>
      BY <1>2 DEF Connect
  <2>4. PacketsCaused' /\ ServersCaused'
      BY <1>1, <2>1, <2>2, <2>3, CausesStay
         DEF PacketsCaused, ServersCaused, OpenedWith
  <2> QED
      BY <1>1, <2>1, <2>3, <2>4, EndsStay
\* Steps that send nothing new and leave the server's connections alone, or end
\* some, and leave the histories alone.
<1>3. ASSUME UNCHANGED history,
             \A m \in Message : net'[m] > 0 \/ m \in outbox' => net[m] > 0 \/ m \in outbox,
             \A i \in Idents : servers'[i] # None => servers'[i] = servers[i]
      PROVE  Goal
  <2>1. UNCHANGED <<opened, learned, clientDone, serverDone>>
      BY <1>3 DEF history
  <2>2. PacketsCaused' /\ ServersCaused'
      BY <1>1, <1>3, <2>1, CausesStay
         DEF PacketsCaused, ServersCaused, OpenedWith
  <2> QED
      BY <1>1, <2>1, <2>2, EndsStay
<1>4. ASSUME NEW m \in outbox, Enqueue(m) PROVE Goal
  <2>1. m \in Message
      BY <1>1 DEF TypeOK
  <2> QED
      BY <1>1, <1>3, <1>4, <2>1 DEF Enqueue, TypeOK
<1>5. ASSUME NEW m \in Message, ClientUnknown(m) \/ ServerRefuse(m) \/ ClientReject(m)
      PROVE  Goal
  <2>1. net[m] > 0 /\ Consume(m) /\ UNCHANGED <<servers, outbox, history>>
      BY <1>5 DEF ClientUnknown, ServerRefuse, ClientReject, Arrives, history
  <2> QED
      BY <1>1, <1>3, <2>1, ConsumeType
<1>6. ASSUME NEW m \in Message, ClientBye(m) PROVE Goal
  <2> DEFINE r == Msg(m.ident, "client", "bye", m.cookie)
  <2>1. /\ m.ident \in Idents /\ m.cookie \in Cookies
        /\ m.role = "server" /\ net[m] > 0
        /\ Reply(m, r)
        /\ learned' = learned \cup {[ident |-> m.ident, serverCookie |-> m.cookie]}
        /\ UNCHANGED <<servers, outbox, opened, clientDone, serverDone>>
      BY <1>6 DEF ClientBye, Arrives, Message, ByeFor
  <2>2. r \in Message /\ r # m
      BY <2>1, MsgType, ReplyDiffers
  <2>3. Caused(r)'
      BY <2>1 DEF Caused, Learned, Msg
  <2> HIDE DEF r
  <2>4. PacketsCaused' /\ ServersCaused'
      BY <1>1, <2>1, <2>2, <2>3, CausesStay, ReplyType
         DEF PacketsCaused, ServersCaused, OpenedWith
  <2> QED
      BY <1>1, <2>1, <2>4, EndsStay
<1>7. ASSUME NEW m \in Message, ClientRecvBye(m) PROVE Goal
  <2> DEFINE k == Known(m.ident).clientCookie
  <2>1. /\ m.role = "server" /\ net[m] > 0 /\ m.msg = "bye" /\ m.cookie = k
        /\ Consume(m)
        /\ clientDone' = clientDone \cup {[ident |-> m.ident, clientCookie |-> k]}
        /\ UNCHANGED <<servers, outbox, opened, learned, serverDone>>
      BY <1>7 DEF ClientRecvBye, Arrives, GoodEnd
  <2> HIDE DEF k
  <2>2. EndedWith(m.ident, k)
      BY <1>1, <2>1 DEF PacketsCaused, Caused
  <2>3. ClientEndHasServerEnd'
      BY <1>1, <2>1, <2>2 DEF ClientEndHasServerEnd, EndedWith
  <2>4. ServerEndIsProved'
      BY <1>1, <2>1 DEF ServerEndIsProved
  <2>5. PacketsCaused' /\ ServersCaused'
      BY <1>1, <2>1, CausesStay, ConsumeType
         DEF PacketsCaused, ServersCaused, OpenedWith
  <2> QED
      BY <2>3, <2>4, <2>5
<1>8. ASSUME NEW m \in Message, ServerHello(m) PROVE Goal
  <2>1. PICK k \in Cookies :
            /\ servers' = [servers EXCEPT ![m.ident] = Accepted(m, k)]
            /\ Reply(m, Msg(m.ident, "server", "hello", k))
      BY <1>8 DEF ServerHello
  <2> DEFINE r == Msg(m.ident, "server", "hello", k)
  <2>2. /\ m.ident \in Idents /\ m.role = "client" /\ m.msg = "hello" /\ net[m] > 0
        /\ UNCHANGED <<outbox, opened, learned, clientDone, serverDone>>
      BY <1>8 DEF ServerHello, Arrives, Message, history
  <2>3. r \in Message /\ r # m
      BY <2>2, MsgType, ReplyDiffers
  <2>4. Caused(r)'
      BY DEF Caused, Msg
  <2>5. OpenedWith(m.ident, m.cookie)
      BY <1>1, <2>2 DEF PacketsCaused, Caused
  <2> HIDE DEF r
  <2>6. PacketsCaused'
      BY <1>1, <2>1, <2>2, <2>3, <2>4, CausesStay, ReplyType DEF PacketsCaused, r
  <2>7. ServersCaused'
      BY <1>1, <2>1, <2>2, <2>5 DEF ServersCaused, OpenedWith, Accepted, TypeOK
  <2> QED
      BY <1>1, <2>2, <2>6, <2>7, EndsStay
<1>9. ASSUME NEW m \in Message, ServerBye(m) PROVE Goal
  <2>0. PICK s : s = servers[m.ident]
      OBVIOUS
  <2> DEFINE r == Msg(m.ident, "server", "bye", s.clientCookie)
             e == [ident |-> m.ident, clientCookie |-> s.clientCookie,
                   serverCookie |-> s.serverCookie]
  <2>1. /\ m.ident \in Idents /\ m.role = "client" /\ net[m] > 0 /\ s # None
        /\ m.msg = "bye" /\ m.cookie = s.serverCookie
        /\ Reply(m, r)
        /\ serverDone' = serverDone \cup {e}
        /\ servers' = [servers EXCEPT ![m.ident] = None]
        /\ UNCHANGED <<outbox, opened, learned, clientDone>>
      BY <1>9, <2>0 DEF ServerBye, Arrives, Message, Proves
  <2>2. s.clientCookie \in Cookies
      BY <1>1, <2>0, <2>1 DEF TypeOK, Server
  <2>3. r \in Message /\ r # m
      BY <2>1, <2>2, MsgType, ReplyDiffers
  <2>4. Caused(r)'
    <3>1. e \in serverDone' /\ e.ident = m.ident /\ e.clientCookie = s.clientCookie
        BY <2>1
    <3>2. EndedWith(m.ident, s.clientCookie)'
        BY <3>1 DEF EndedWith
    <3>3. /\ r.ident = m.ident /\ r.cookie = s.clientCookie
          /\ r.role = "server" /\ r.msg = "bye"
        BY DEF Msg
    <3> QED
        BY <3>2, <3>3 DEF Caused
  <2>5. OpenedWith(m.ident, s.clientCookie) /\ Learned(m.ident, s.serverCookie)
      BY <1>1, <2>0, <2>1 DEF PacketsCaused, ServersCaused, Caused
  <2>6. ServerEndIsProved'
    <3>1. /\ [ident |-> e.ident, clientCookie |-> e.clientCookie] \in opened
          /\ [ident |-> e.ident, serverCookie |-> e.serverCookie] \in learned
        BY <2>5 DEF OpenedWith, Learned
    <3> HIDE DEF e
    <3> QED
        BY <1>1, <2>1, <3>1 DEF ServerEndIsProved
  <2>7. ClientEndHasServerEnd'
      BY <1>1, <2>1 DEF ClientEndHasServerEnd
  <2> HIDE DEF r, e
  <2>8. PacketsCaused'
      BY <1>1, <2>1, <2>3, <2>4, CausesStay, ReplyType DEF PacketsCaused
  <2>9. ServersCaused'
      BY <1>1, <2>1, CausesStay DEF ServersCaused, OpenedWith, TypeOK
  <2> QED
      BY <2>6, <2>7, <2>8, <2>9
<1>10. ASSUME NEW m \in Message, ServerReject(m) PROVE Goal
  <2>1. /\ net[m] > 0 /\ Consume(m) /\ UNCHANGED <<outbox, history>>
        /\ servers' = [servers EXCEPT ![m.ident] = None]
      BY <1>10 DEF ServerReject, Arrives, history
  <2>2. \A i \in Idents : servers'[i] # None => servers'[i] = servers[i]
      BY <1>1, <2>1 DEF TypeOK
  <2> QED
      BY <1>1, <1>3, <2>1, <2>2, ConsumeType
<1>11. ASSUME NEW m \in Message, Lose(m) \/ Duplicate(m) PROVE Goal
    BY <1>1, <1>3, <1>11 DEF Lose, Duplicate, Fault, TypeOK
<1>12. CASE Restart \/ UNCHANGED vars
    BY <1>3, <1>12 DEF Restart, vars, history
<1> QED
    BY <1>2, <1>4, <1>5, <1>6, <1>7, <1>8, <1>9, <1>10, <1>11, <1>12
       DEF Next, ClientPkt, ServerPkt

LEMMA CookiesInvariant == Spec => []CookieInv
<1>1. Init => CookieInv
  <2> SUFFICES ASSUME Init PROVE CookieInv
      OBVIOUS
  <2>1. TypeOK /\ Fresh
      BY DEF Init, TypeOK, Fresh
  <2>2. PacketsCaused /\ ServersCaused
      BY DEF Init, PacketsCaused, ServersCaused
  <2>3. ClientEndHasServerEnd /\ ServerEndIsProved
      BY DEF Init, ClientEndHasServerEnd, ServerEndIsProved
  <2> QED
      BY <2>1, <2>2, <2>3 DEF CookieInv
<1>2. CookieInv /\ [Next]_vars => CookieInv'
    BY CookieStep, TypeStep, FreshStep DEF CookieInv
<1> QED
    BY <1>1, <1>2, PTL DEF Spec

\* A client whose connection ends well was answered by a server that took its
\* cookie and ended well itself (runRecvBye's comparison), whatever is lost, copied,
\* reordered or kept over a restart.
THEOREM ClientEndCorrect == Spec => []ClientEndHasServerEnd
<1>1. CookieInv => ClientEndHasServerEnd
    BY DEF CookieInv
<1> QED
    BY <1>1, CookiesInvariant, PTL

\* The server ends a connection well only for a cookie that a client of the
\* identity has sent, and once a client has read its own (runBye's comparison).
THEOREM ServerEndCorrect == Spec => []ServerEndIsProved
<1>1. CookieInv => ServerEndIsProved
    BY DEF CookieInv
<1> QED
    BY <1>1, CookiesInvariant, PTL

-----------------------------------------------------------------------------
(* Until a packet is lost or copied or the client restarts: one packet of   *)
(* each open connection is under way, and both ends wait for it.            *)

Silent(i) == \A x \in Message : x.ident = i => x \notin outbox /\ net[x] = 0

\* m is the only packet of its connection, in the connector's batch or a queue.
Alone(m) ==
    /\ net[m] = IF m \in outbox THEN 0 ELSE 1
    /\ \A x \in Message : x.ident = m.ident /\ x # m => x \notin outbox /\ net[x] = 0

\* The two ends wait for m: in the order of the exchange the client's Hello, the
\* server's, the client's Bye and the server's.
Expected(m) ==
    LET c == Known(m.ident)
        s == servers[m.ident]
    IN  /\ c # None
        /\ \/ m.role = "client" /\ m.msg = "hello" /\ c.state = "bye"
              /\ s = None /\ m.cookie = c.clientCookie
           \/ m.role = "server" /\ m.msg = "hello" /\ c.state = "bye"
              /\ s # None /\ s.clientCookie = c.clientCookie /\ m.cookie = s.serverCookie
           \/ m.role = "client" /\ m.msg = "bye" /\ c.state = "recvbye"
              /\ s # None /\ s.clientCookie = c.clientCookie
              /\ c.serverCookie = s.serverCookie /\ m.cookie = s.serverCookie
           \/ m.role = "server" /\ m.msg = "bye" /\ c.state = "recvbye"
              /\ s = None /\ m.cookie = c.clientCookie

\* A connection is closed on both sides, or has one packet under way.
InOrder(i) ==
    \/ Silent(i) /\ Known(i) = None /\ servers[i] = None
    \/ \E m \in Message : m.ident = i /\ Alone(m) /\ Expected(m)

CalmInv == TypeOK /\ Fresh /\ (Undisturbed => \A i \in Idents : InOrder(i))

-----------------------------------------------------------------------------

\* A packet that arrives is the one its connection has.
LEMMA TheOne ==
    ASSUME CalmInv, Undisturbed, NEW m \in Message, net[m] > 0
    PROVE  m.ident \in Idents /\ m \notin outbox /\ net[m] = 1 /\ Alone(m) /\ Expected(m)
<1>1. m.ident \in Idents /\ net[m] # 0
    BY DEF Message, CalmInv, TypeOK
<1>2. InOrder(m.ident)
    BY <1>1 DEF CalmInv
<1>3. PICK x \in Message : x.ident = m.ident /\ Alone(x) /\ Expected(x)
    BY <1>1, <1>2 DEF InOrder, Silent
<1>4. x = m
    BY <1>1, <1>3 DEF Alone
<1> QED
    BY <1>1, <1>3, <1>4 DEF Alone

\* What does not concern a connection leaves it in order.
LEMMA OthersInOrder ==
    ASSUME TypeOK, NEW j \in Idents, InOrder(j),
           clients'[j] = clients[j], pool'[j] = pool[j], servers'[j] = servers[j],
           \A x \in Message : x.ident = j =>
                net'[x] = net[x] /\ (x \in outbox' <=> x \in outbox)
    PROVE  InOrder(j)'
<1>1. Known(j)' = Known(j)
    BY DEF Known
<1>2. CASE Silent(j) /\ Known(j) = None /\ servers[j] = None
    BY <1>1, <1>2 DEF InOrder, Silent
<1>3. ASSUME NEW m \in Message, m.ident = j, Alone(m), Expected(m) PROVE InOrder(j)'
  <2>1. Alone(m)'
      BY <1>3 DEF Alone
  <2>2. Expected(m)'
      BY <1>1, <1>3 DEF Expected
  <2> QED
      BY <1>3, <2>1, <2>2 DEF InOrder
<1> QED
    BY <1>2, <1>3 DEF InOrder

\* The answer to the only packet is the only packet.
LEMMA ReplyAlone ==
    ASSUME TypeOK, NEW m \in Message, Alone(m), net[m] = 1, m \notin outbox,
           NEW r \in Message, r # m, r.ident = m.ident, Reply(m, r), outbox' = outbox
    PROVE  /\ Alone(r)'
           /\ \A x \in Message : x.ident # m.ident => net'[x] = net[x]
<1>1. net[r] = 0 /\ r \notin outbox
    BY DEF Alone
<1>2. \A x \in Message : net'[x] = IF x = m THEN 0 ELSE IF x = r THEN 1 ELSE net[x]
    BY <1>1 DEF Reply, TypeOK
<1>3. Alone(r)'
    BY <1>1, <1>2 DEF Alone
<1> QED
    BY <1>2, <1>3

\* Without it the connection is silent.
LEMMA ConsumeSilent ==
    ASSUME TypeOK, NEW m \in Message, Alone(m), net[m] = 1, m \notin outbox,
           Consume(m), outbox' = outbox
    PROVE  /\ Silent(m.ident)'
           /\ \A x \in Message : x.ident # m.ident => net'[x] = net[x]
<1>1. \A x \in Message : net'[x] = IF x = m THEN 0 ELSE net[x]
    BY DEF Consume, TypeOK
<1> QED
    BY <1>1 DEF Alone, Silent

LEMMA KeepKnows ==
    ASSUME TypeOK, NEW i \in Idents, NEW st, Keep(i, st)
    PROVE  /\ Known(i)' = st
           /\ \A j \in Idents \ {i} : clients'[j] = clients[j] /\ pool'[j] = pool[j]
<1>1. clients'[i] = st
    BY DEF Keep, TypeOK
<1>2. st = None => pool'[i] = None
    BY DEF Keep, TypeOK
<1>3. \A j \in Idents \ {i} : clients'[j] = clients[j] /\ pool'[j] = pool[j]
    BY DEF Keep, TypeOK
<1> QED
    BY <1>1, <1>2, <1>3 DEF Known

\* The packet both ends wait for is refused by none.
LEMMA NothingRefused ==
    ASSUME CalmInv, Undisturbed, NEW m \in Message
    PROVE  ~(ClientUnknown(m) \/ ClientReject(m) \/ ServerRefuse(m) \/ ServerReject(m))
<1> SUFFICES ASSUME ClientUnknown(m) \/ ClientReject(m) \/ ServerRefuse(m) \/ ServerReject(m)
             PROVE  FALSE
    OBVIOUS
<1>1. net[m] > 0
    BY DEF ClientUnknown, ClientReject, ServerRefuse, ServerReject, Arrives
<1>2. Expected(m)
    BY <1>1, TheOne
<1>3. CASE ClientUnknown(m)
    BY <1>2, <1>3 DEF ClientUnknown, Expected
<1>4. CASE ClientReject(m)
    BY <1>2, <1>4 DEF ClientReject, Arrives, Expected, GoodEnd
<1>5. CASE ServerRefuse(m)
    BY <1>2, <1>5 DEF ServerRefuse, Arrives, Expected
<1>6. CASE ServerReject(m)
    BY <1>2, <1>6 DEF ServerReject, Arrives, Expected, Proves
<1> QED
    BY <1>3, <1>4, <1>5, <1>6

\* The network and a restart end it, and nothing brings it back.
LEMMA OnlyThreads ==
    ASSUME TypeOK, [Next]_vars, Undisturbed'
    PROVE  /\ Undisturbed
           /\ \/ \E i \in Idents : Connect(i)
              \/ \E m \in outbox : Enqueue(m)
              \/ \E m \in Message : ClientPkt(m) \/ ServerPkt(m)
              \/ UNCHANGED vars
<1>1. faults \in Nat /\ restarts \in Nat
    BY DEF TypeOK
<1>2. ASSUME NEW m \in Message, Lose(m) \/ Duplicate(m) PROVE FALSE
    BY <1>1, <1>2 DEF Lose, Duplicate, Fault, Undisturbed
<1>3. CASE Restart
    BY <1>1, <1>3 DEF Restart, Undisturbed
<1>4. ASSUME UNCHANGED <<faults, restarts>> PROVE Undisturbed
    BY <1>4 DEF Undisturbed
<1>5. ASSUME NEW i \in Idents, Connect(i) PROVE UNCHANGED <<faults, restarts>>
    BY <1>5 DEF Connect
<1>6. ASSUME NEW m, Enqueue(m) \/ ClientPkt(m) \/ ServerPkt(m)
      PROVE  UNCHANGED <<faults, restarts>>
    BY <1>6 DEF Enqueue, ClientPkt, ClientUnknown, ClientBye, ClientRecvBye, ClientReject,
                ServerPkt, ServerHello, ServerRefuse, ServerBye, ServerReject
<1>7. CASE UNCHANGED vars
    BY <1>4, <1>7 DEF vars
<1> QED
    BY <1>2, <1>3, <1>4, <1>5, <1>6, <1>7 DEF Next

LEMMA OrderStep ==
    ASSUME CalmInv, TypeOK', [Next]_vars, Undisturbed', NEW j \in Idents
    PROVE  InOrder(j)'
<1>1. TypeOK /\ Fresh /\ Undisturbed /\ (\A i \in Idents : InOrder(i))
    BY OnlyThreads DEF CalmInv
<1>2. ASSUME NEW i \in Idents, Connect(i) PROVE InOrder(j)'
  <2>1. PICK k \in Cookies :
          /\ pool' = [pool EXCEPT ![i] =
                          [state |-> "bye", clientCookie |-> k, serverCookie |-> 0]]
          /\ outbox' = outbox \cup {Msg(i, "client", "hello", k)}
      BY <1>2 DEF Connect
  <2> DEFINE m == Msg(i, "client", "hello", k)
  <2>2. /\ m \in Message /\ m.ident = i /\ m.role = "client" /\ m.msg = "hello"
        /\ m.cookie = k
      BY MsgType DEF Msg
  <2>3. Known(i) = None
      BY <1>1, <1>2 DEF Connect, Fresh, Known
  <2>4. Silent(i) /\ servers[i] = None
      BY <1>1, <2>3 DEF InOrder, Expected
  <2>5. CASE j = i
    <3>1. /\ Alone(m)'
        BY <1>2, <2>1, <2>2, <2>4 DEF Silent, Alone, Connect
    <3>2. Known(i)' = [state |-> "bye", clientCookie |-> k, serverCookie |-> 0]
        BY <1>1, <1>2, <2>1 DEF Connect, Known, Fresh, TypeOK
    <3>3. Known(i)' # None
        BY <3>2 DEF Client
    <3>4. servers'[i] = None
        BY <1>2, <2>4 DEF Connect
    <3> HIDE DEF m
    <3>5. Expected(m)'
        BY <2>2, <3>2, <3>3, <3>4 DEF Expected
    <3> QED
        BY <2>2, <2>5, <3>1, <3>5 DEF InOrder
  <2>6. CASE j # i
    <3>1. clients' = clients /\ servers' = servers /\ net' = net /\ pool'[j] = pool[j]
        BY <1>1, <1>2, <2>1, <2>6 DEF Connect, TypeOK
    <3>2. \A x \in Message : x.ident = j => (x \in outbox' <=> x \in outbox)
        BY <2>1, <2>2, <2>6
    <3> QED
        BY <1>1, <3>1, <3>2, OthersInOrder
  <2> QED
      BY <2>5, <2>6
<1>3. ASSUME NEW m \in outbox, Enqueue(m) PROVE InOrder(j)'
  <2>1. m \in Message /\ m.ident \in Idents
      BY <1>1 DEF TypeOK, Message
  <2>2. /\ UNCHANGED <<clients, servers, pool>> /\ outbox' = outbox \ {m}
        /\ \A x \in Message : net'[x] = IF x = m THEN net[m] + 1 ELSE net[x]
      BY <1>1, <1>3, <2>1 DEF Enqueue, TypeOK
  <2>3. CASE j = m.ident
    <3>1. PICK x \in Message : x.ident = j /\ Alone(x) /\ Expected(x)
        BY <1>1, <2>1, <2>3 DEF InOrder, Silent
    <3>2. x = m
        BY <2>1, <2>3, <3>1 DEF Alone
    <3>3. Alone(m)'
        BY <2>2, <3>1, <3>2 DEF Alone
    <3>4. Expected(m)'
        BY <2>2, <3>1, <3>2 DEF Expected, Known
    <3> QED
        BY <2>1, <2>3, <3>3, <3>4 DEF InOrder
  <2>4. CASE j # m.ident
      BY <1>1, <2>2, <2>4, OthersInOrder
  <2> QED
      BY <2>3, <2>4
<1>4. ASSUME NEW m \in Message, ClientBye(m) PROVE InOrder(j)'
  <2>1. /\ m.ident \in Idents /\ m \notin outbox /\ net[m] = 1 /\ Alone(m)
        /\ Expected(m) /\ m.role = "server" /\ m.cookie \in Cookies
      BY <1>1, <1>4, TheOne DEF ClientBye, Arrives, Message
  <2> DEFINE c == Known(m.ident)
             s == servers[m.ident]
  <2>2. /\ c \in Client /\ c.state = "bye" /\ m.msg = "hello"
        /\ s # None /\ s.clientCookie = c.clientCookie /\ m.cookie = s.serverCookie
      BY <1>1, <1>4, <2>1, KnownType DEF ClientBye, Expected
  <2>3. PICK st : st = [c EXCEPT !.state = "recvbye", !.serverCookie = m.cookie]
      OBVIOUS
  <2>4. PICK r : r = Msg(m.ident, "client", "bye", m.cookie)
      OBVIOUS
  <2>5. /\ st # None /\ st.state = "recvbye" /\ st.clientCookie = c.clientCookie
        /\ st.serverCookie = m.cookie
      BY <2>1, <2>2, <2>3 DEF Client
  <2>6. /\ r \in Message /\ r # m /\ r.ident = m.ident /\ r.role = "client"
        /\ r.msg = "bye" /\ r.cookie = m.cookie
      BY <2>1, <2>4, MsgType, ReplyDiffers DEF Msg
  <2>7. Keep(m.ident, st) /\ Reply(m, r) /\ servers' = servers /\ outbox' = outbox
      BY <1>4, <2>3, <2>4 DEF ClientBye, ByeFor
  <2>8. /\ Known(m.ident)' = st
        /\ \A i \in Idents \ {m.ident} : clients'[i] = clients[i] /\ pool'[i] = pool[i]
      BY <1>1, <2>1, <2>7, KeepKnows
  <2>9. Alone(r)' /\ \A x \in Message : x.ident # m.ident => net'[x] = net[x]
      BY <1>1, <2>1, <2>6, <2>7, ReplyAlone
  <2>10. Expected(r)'
      BY <2>2, <2>5, <2>6, <2>7, <2>8 DEF Expected
  <2>11. CASE j = m.ident
      BY <2>6, <2>9, <2>10, <2>11 DEF InOrder
  <2>12. CASE j # m.ident
      BY <1>1, <2>7, <2>8, <2>9, <2>12, OthersInOrder
  <2> QED
      BY <2>11, <2>12
<1>5. ASSUME NEW m \in Message, ClientRecvBye(m) PROVE InOrder(j)'
  <2>1. /\ m.ident \in Idents /\ m \notin outbox /\ net[m] = 1 /\ Alone(m)
        /\ Expected(m) /\ m.role = "server"
      BY <1>1, <1>5, TheOne DEF ClientRecvBye, Arrives
  <2>2. servers[m.ident] = None
      BY <1>5, <2>1 DEF ClientRecvBye, GoodEnd, Expected
  <2>3. Keep(m.ident, None) /\ Consume(m) /\ servers' = servers /\ outbox' = outbox
      BY <1>5 DEF ClientRecvBye
  <2>4. /\ Known(m.ident)' = None
        /\ \A i \in Idents \ {m.ident} : clients'[i] = clients[i] /\ pool'[i] = pool[i]
      BY <1>1, <2>1, <2>3, KeepKnows
  <2>5. Silent(m.ident)' /\ \A x \in Message : x.ident # m.ident => net'[x] = net[x]
      BY <1>1, <2>1, <2>3, ConsumeSilent
  <2>6. CASE j = m.ident
      BY <2>2, <2>3, <2>4, <2>5, <2>6 DEF InOrder
  <2>7. CASE j # m.ident
      BY <1>1, <2>3, <2>4, <2>5, <2>7, OthersInOrder
  <2> QED
      BY <2>6, <2>7
<1>6. ASSUME NEW m \in Message, ServerHello(m) PROVE InOrder(j)'
  <2>1. /\ m.ident \in Idents /\ m \notin outbox /\ net[m] = 1 /\ Alone(m)
        /\ Expected(m) /\ m.role = "client" /\ m.cookie \in Cookies
      BY <1>1, <1>6, TheOne DEF ServerHello, Arrives, Message
  <2> DEFINE c == Known(m.ident)
  <2>2. c # None /\ c.state = "bye" /\ m.cookie = c.clientCookie
      BY <1>6, <2>1 DEF ServerHello, Expected
  <2>3. PICK k \in Cookies :
            /\ servers' = [servers EXCEPT ![m.ident] = Accepted(m, k)]
            /\ Reply(m, Msg(m.ident, "server", "hello", k))
      BY <1>6 DEF ServerHello
  <2>4. PICK r : r = Msg(m.ident, "server", "hello", k)
      OBVIOUS
  <2>5. /\ r \in Message /\ r # m /\ r.ident = m.ident /\ r.role = "server"
        /\ r.msg = "hello" /\ r.cookie = k
      BY <2>1, <2>4, MsgType, ReplyDiffers DEF Msg
  <2>6. /\ servers'[m.ident] # None /\ servers'[m.ident].clientCookie = m.cookie
        /\ servers'[m.ident].serverCookie = k
        /\ \A i \in Idents \ {m.ident} : servers'[i] = servers[i]
    <3>1. Accepted(m, k) \in Server
        BY <2>1 DEF Accepted, Server
    <3> QED
        BY <1>1, <2>1, <2>3, <3>1 DEF TypeOK, Accepted
  <2>7. UNCHANGED <<clients, pool, outbox>>
      BY <1>6 DEF ServerHello
  <2>8. Known(m.ident)' = c
      BY <2>7 DEF Known
  <2>9. Alone(r)' /\ \A x \in Message : x.ident # m.ident => net'[x] = net[x]
      BY <1>1, <2>1, <2>3, <2>4, <2>5, <2>7, ReplyAlone
  <2>10. Expected(r)'
      BY <2>2, <2>5, <2>6, <2>8 DEF Expected
  <2>11. CASE j = m.ident
      BY <2>5, <2>9, <2>10, <2>11 DEF InOrder
  <2>12. CASE j # m.ident
      BY <1>1, <2>6, <2>7, <2>9, <2>12, OthersInOrder
  <2> QED
      BY <2>11, <2>12
<1>7. ASSUME NEW m \in Message, ServerBye(m) PROVE InOrder(j)'
  <2>1. /\ m.ident \in Idents /\ m \notin outbox /\ net[m] = 1 /\ Alone(m)
        /\ Expected(m) /\ m.role = "client"
      BY <1>1, <1>7, TheOne DEF ServerBye, Arrives
  <2> DEFINE c == Known(m.ident)
             s == servers[m.ident]
  <2>2. c # None /\ c.state = "recvbye" /\ s.clientCookie = c.clientCookie
      BY <1>7, <2>1 DEF ServerBye, Proves, Expected
  <2>3. s.clientCookie \in Cookies
      BY <1>1, <1>7, <2>1 DEF ServerBye, TypeOK, Server
  <2>4. PICK r : r = Msg(m.ident, "server", "bye", s.clientCookie)
      OBVIOUS
  <2>5. /\ r \in Message /\ r # m /\ r.ident = m.ident /\ r.role = "server"
        /\ r.msg = "bye" /\ r.cookie = s.clientCookie
      BY <2>1, <2>3, <2>4, MsgType, ReplyDiffers DEF Msg
  <2>6. /\ servers' = [servers EXCEPT ![m.ident] = None] /\ Reply(m, r)
        /\ UNCHANGED <<clients, pool, outbox>>
      BY <1>7, <2>4 DEF ServerBye
  <2>7. /\ servers'[m.ident] = None
        /\ \A i \in Idents \ {m.ident} : servers'[i] = servers[i]
      BY <1>1, <2>1, <2>6 DEF TypeOK
  <2>8. Known(m.ident)' = c
      BY <2>6 DEF Known
  <2>9. Alone(r)' /\ \A x \in Message : x.ident # m.ident => net'[x] = net[x]
      BY <1>1, <2>1, <2>5, <2>6, ReplyAlone
  <2>10. Expected(r)'
      BY <2>2, <2>5, <2>7, <2>8 DEF Expected
  <2>11. CASE j = m.ident
      BY <2>5, <2>9, <2>10, <2>11 DEF InOrder
  <2>12. CASE j # m.ident
      BY <1>1, <2>6, <2>7, <2>9, <2>12, OthersInOrder
  <2> QED
      BY <2>11, <2>12
<1>8. ASSUME NEW m \in Message,
             ClientUnknown(m) \/ ClientReject(m) \/ ServerRefuse(m) \/ ServerReject(m)
      PROVE  InOrder(j)'
    BY <1>1, <1>8, NothingRefused
<1>9. CASE UNCHANGED vars
    BY <1>1, <1>9, OthersInOrder DEF vars
<1> QED
  <2>1. ASSUME NEW m \in Message, ClientPkt(m) PROVE InOrder(j)'
      BY <1>4, <1>5, <1>8, <2>1 DEF ClientPkt
  <2>2. ASSUME NEW m \in Message, ServerPkt(m) PROVE InOrder(j)'
      BY <1>6, <1>7, <1>8, <2>2 DEF ServerPkt
  <2> QED
      BY <1>1, <1>2, <1>3, <1>9, <2>1, <2>2, OnlyThreads

LEMMA CalmInvariant == Spec => []CalmInv
<1>1. Init => CalmInv
  <2> SUFFICES ASSUME Init PROVE CalmInv
      OBVIOUS
  <2>1. TypeOK /\ Fresh
      BY DEF Init, TypeOK, Fresh
  <2>2. \A i \in Idents : InOrder(i)
      BY DEF Init, InOrder, Silent, Known
  <2> QED
      BY <2>1, <2>2 DEF CalmInv
<1>2. CalmInv /\ [Next]_vars => CalmInv'
  <2> SUFFICES ASSUME CalmInv, [Next]_vars PROVE CalmInv'
      OBVIOUS
  <2>1. TypeOK' /\ Fresh'
      BY FreshStep, TypeStep DEF CalmInv
  <2> QED
      BY <2>1, OrderStep DEF CalmInv
<1> QED
    BY <1>1, <1>2, PTL DEF Spec

\* While both ends wait for the Byes they hold the same cookies, until the exchange
\* is disturbed (runBye and runHello of both sides).
THEOREM CookiesAgreeCorrect == Spec => []CookiesAgree
<1>1. CalmInv => CookiesAgree
  <2> SUFFICES ASSUME CalmInv, Undisturbed, NEW i \in Idents,
                      Known(i) # None, servers[i] # None
               PROVE  /\ Known(i).clientCookie = servers[i].clientCookie
                      /\ Known(i).state = "recvbye" =>
                            Known(i).serverCookie = servers[i].serverCookie
      BY DEF CookiesAgree
  <2>1. PICK m \in Message : m.ident = i /\ Alone(m) /\ Expected(m)
      BY DEF CalmInv, InOrder
  <2> QED
      BY <2>1 DEF Expected
<1> QED
    BY <1>1, CalmInvariant, PTL

\* No end refuses a packet before the exchange is disturbed: what findState does not
\* find, and what the four functions refuse, never arrives.
THEOREM NoRefusalCorrect == Spec => NoRefusal
<1>1. CalmInv =>
        (Undisturbed =>
            ~\E m \in Message :
                \/ ClientUnknown(m) \/ ClientReject(m)
                \/ ServerRefuse(m) \/ ServerReject(m))
    BY NothingRefused
<1> QED
    BY <1>1, CalmInvariant, PTL DEF NoRefusal

=============================================================================
