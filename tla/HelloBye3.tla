----------------------------- MODULE HelloBye3 ------------------------------
(***************************************************************************)
(* The HelloBye3 protocol between one server and the two threads of a      *)
(* client: a connector that opens connections and a reflector that handles *)
(* the replies.  The client's threads share a ConnectionPool, and every    *)
(* exchange is Hello, Hello, Bye, Bye, each Bye carrying the peer's cookie.*)
(*                                                                         *)
(* The step of a thread is one packet (StateMachine says why that is       *)
(* enough); a reply is the received packet rewritten in place.  In the     *)
(* repository the network is a pair of queues between threads or a NIC; it *)
(* is external: it reorders packets, and loses or copies up to MaxFaults.  *)
(***************************************************************************)
EXTENDS Naturals

CONSTANTS
    Idents,         \* connection identities
    Cookies,        \* rand() % 256
    None,           \* no state for an identity
    MaxFaults,      \* bound: packets the network loses or copies
    MaxRestarts,    \* bound: restarts of the client
    MaxTroubles     \* bound: both together

ASSUME HelloByeAssumption ==
    /\ 0 \in Cookies
    /\ MaxFaults \in Nat /\ MaxRestarts \in Nat /\ MaxTroubles \in Nat

\* struct msg.  Packets with role client go to the server, the others to the
\* client.
Message == [ident : Idents, role : {"client", "server"}, msg : {"hello", "bye"},
            cookie : Cookies]

\* struct client and struct server, with the state of the connection.
Client == [state : {"bye", "recvbye"}, clientCookie : Cookies, serverCookie : Cookies]
Server == [clientCookie : Cookies, serverCookie : Cookies]

ASSUME NoneAssumption == None \notin Client \cup Server

VARIABLES
    pool,           \* the client's ConnectionPool
    clients,        \* stateTable of the reflector
    servers,        \* stateTable of the server, all in state Bye
    outbox,         \* sendBufsAll: what the connector has yet to enqueue
    net,            \* copies of each packet in the network
    next,           \* identities this run of the client has not used yet
    restarts, faults,
    opened,         \* history: [ident, clientCookie] of every createHello
    learned,        \* history: [ident, serverCookie] a client took from a Hello
    clientDone,     \* history: [ident, clientCookie] of the client's good ends
    serverDone      \* history: both cookies of the server's good ends

vars == <<pool, clients, servers, outbox, net, next, restarts, faults,
          opened, learned, clientDone, serverDone>>

history == <<opened, learned, clientDone, serverDone>>

Init ==
    /\ pool = [i \in Idents |-> None]
    /\ clients = [i \in Idents |-> None]
    /\ servers = [i \in Idents |-> None]
    /\ outbox = {}
    /\ net = [m \in Message |-> 0]
    /\ next = Idents
    /\ restarts = 0 /\ faults = 0
    /\ opened = {} /\ learned = {} /\ clientDone = {} /\ serverDone = {}

Msg(i, role, msg, cookie) == [ident |-> i, role |-> role, msg |-> msg, cookie |-> cookie]

\* The packet is freed, or goes back as r.
Consume(m) == net' = [net EXCEPT ![m] = @ - 1]

Reply(m, r) == net' = [net EXCEPT ![m] = @ - 1, ![r] = @ + 1]

Arrives(m, role) == net[m] > 0 /\ m.role = role

-----------------------------------------------------------------------------
(* The client: HelloBye3_Client_connect, and runBye and runRecvBye          *)

\* createHello, then addState: runHello fills the packet, and the State, already
\* in Bye, is in the pool before the connector enqueues the packet.
Connect(i) ==
    /\ i \in next
    /\ \E k \in Cookies :
        /\ pool' = [pool EXCEPT ![i] =
                        [state |-> "bye", clientCookie |-> k, serverCookie |-> 0]]
        /\ outbox' = outbox \cup {Msg(i, "client", "hello", k)}
        /\ opened' = opened \cup {[ident |-> i, clientCookie |-> k]}
    /\ next' = next \ {i}
    /\ UNCHANGED <<clients, servers, net, restarts, faults, learned, clientDone, serverDone>>

Enqueue(m) ==
    /\ m \in outbox
    /\ net' = [net EXCEPT ![m] = @ + 1]
    /\ outbox' = outbox \ {m}
    /\ UNCHANGED <<pool, clients, servers, next, restarts, faults, history>>

\* Faulty variant for the checks: the reflector does not look into the pool.
Known_TableOnly(i) == clients[i]

\* findState of the reflector, which does not listen.
Known(i) == IF clients[i] # None THEN clients[i] ELSE pool[i]

\* Faulty variant for the checks: the claimed State stays in the pool.
Keep_PoolToo(i, st) ==
    /\ clients' = [clients EXCEPT ![i] = st]
    /\ pool' = pool

\* The claimed State leaves the pool and is kept as st, or removed (None).
Keep(i, st) ==
    /\ clients' = [clients EXCEPT ![i] = st]
    /\ pool' = IF clients[i] = None THEN [pool EXCEPT ![i] = None] ELSE pool

ClientUnknown(m) ==
    /\ Arrives(m, "server") /\ Known(m.ident) = None
    /\ Consume(m)
    /\ UNCHANGED <<pool, clients, servers, outbox, next, restarts, faults, history>>

\* Faulty variant for the checks: the Bye answers with the client's own cookie.
ByeFor_OwnCookie(m, c) == Msg(m.ident, "client", "bye", c.clientCookie)

\* The server's cookie goes back to it.
ByeFor(m, c) == Msg(m.ident, "client", "bye", m.cookie)

\* runBye on a server Hello.
ClientBye(m) ==
    /\ Arrives(m, "server") /\ Known(m.ident) # None
    /\ LET c == Known(m.ident)
       IN  /\ c.state = "bye" /\ m.msg = "hello"
           /\ Keep(m.ident, [c EXCEPT !.state = "recvbye", !.serverCookie = m.cookie])
           /\ Reply(m, ByeFor(m, c))
    /\ learned' = learned \cup {[ident |-> m.ident, serverCookie |-> m.cookie]}
    /\ UNCHANGED <<servers, outbox, next, restarts, faults, opened, clientDone, serverDone>>

\* Faulty variant for the checks: the cookie of the server's Bye is not compared.
GoodEnd_AnyCookie(m, c) == c.state = "recvbye" /\ m.msg = "bye"

GoodEnd(m, c) == c.state = "recvbye" /\ m.msg = "bye" /\ m.cookie = c.clientCookie

\* runRecvBye on a server Bye with the right cookie.
ClientRecvBye(m) ==
    /\ Arrives(m, "server") /\ Known(m.ident) # None
    /\ GoodEnd(m, Known(m.ident))
    /\ Keep(m.ident, None)
    /\ Consume(m)
    /\ clientDone' = clientDone \cup
            {[ident |-> m.ident, clientCookie |-> Known(m.ident).clientCookie]}
    /\ UNCHANGED <<servers, outbox, next, restarts, faults, opened, learned, serverDone>>

\* Wrong message fields or cookie: Terminate.
ClientReject(m) ==
    /\ Arrives(m, "server") /\ Known(m.ident) # None
    /\ LET c == Known(m.ident)
       IN  ~(c.state = "bye" /\ m.msg = "hello") /\ ~GoodEnd(m, c)
    /\ Keep(m.ident, None)
    /\ Consume(m)
    /\ UNCHANGED <<servers, outbox, next, restarts, faults, history>>

\* Both client threads end and new ones start with a new pool, identities from
\* the first.  The connector ends with everything enqueued; the queues stay.
Restart ==
    /\ restarts < MaxRestarts /\ faults + restarts < MaxTroubles
    /\ outbox = {}
    /\ restarts' = restarts + 1
    /\ pool' = [i \in Idents |-> None]
    /\ clients' = [i \in Idents |-> None]
    /\ next' = Idents
    /\ UNCHANGED <<servers, outbox, net, faults, history>>

-----------------------------------------------------------------------------
(* The server: factory, runHello and runBye                                 *)

\* Faulty variant for the checks: the two cookies swapped.
Accepted_Swapped(m, k) == [clientCookie |-> k, serverCookie |-> m.cookie]

\* struct server after factory and runHello, k being the server's cookie.
Accepted(m, k) == [clientCookie |-> m.cookie, serverCookie |-> k]

\* findState accepts the connection: factory, then runHello on the client Hello.
ServerHello(m) ==
    /\ Arrives(m, "client") /\ servers[m.ident] = None
    /\ m.msg = "hello"
    /\ \E k \in Cookies :
        /\ servers' = [servers EXCEPT ![m.ident] = Accepted(m, k)]
        /\ Reply(m, Msg(m.ident, "server", "hello", k))
    /\ UNCHANGED <<pool, clients, outbox, next, restarts, faults, history>>

\* The same on anything else: the new connection ends at once.
ServerRefuse(m) ==
    /\ Arrives(m, "client") /\ servers[m.ident] = None
    /\ m.msg # "hello"
    /\ Consume(m)
    /\ UNCHANGED <<pool, clients, servers, outbox, next, restarts, faults, history>>

\* Faulty variant for the checks: the cookie of the client's Bye is not compared.
Proves_AnyCookie(m, s) == m.msg = "bye"

Proves(m, s) == m.msg = "bye" /\ m.cookie = s.serverCookie

\* runBye on a client Bye with the right cookie.
ServerBye(m) ==
    /\ Arrives(m, "client") /\ servers[m.ident] # None
    /\ LET s == servers[m.ident]
       IN  /\ Proves(m, s)
           /\ Reply(m, Msg(m.ident, "server", "bye", s.clientCookie))
           /\ serverDone' = serverDone \cup
                {[ident |-> m.ident, clientCookie |-> s.clientCookie,
                  serverCookie |-> s.serverCookie]}
    /\ servers' = [servers EXCEPT ![m.ident] = None]
    /\ UNCHANGED <<pool, clients, outbox, next, restarts, faults, opened, learned, clientDone>>

\* Wrong message fields or cookie: Terminate.
ServerReject(m) ==
    /\ Arrives(m, "client") /\ servers[m.ident] # None
    /\ ~Proves(m, servers[m.ident])
    /\ servers' = [servers EXCEPT ![m.ident] = None]
    /\ Consume(m)
    /\ UNCHANGED <<pool, clients, outbox, next, restarts, faults, history>>

-----------------------------------------------------------------------------
(* The network                                                              *)

Fault(m) ==
    /\ net[m] > 0
    /\ faults < MaxFaults /\ faults + restarts < MaxTroubles
    /\ faults' = faults + 1
    /\ UNCHANGED <<pool, clients, servers, outbox, next, restarts, history>>

Lose(m) == Fault(m) /\ net' = [net EXCEPT ![m] = @ - 1]

Duplicate(m) == Fault(m) /\ net' = [net EXCEPT ![m] = @ + 1]

-----------------------------------------------------------------------------

ClientPkt(m) == ClientUnknown(m) \/ ClientBye(m) \/ ClientRecvBye(m) \/ ClientReject(m)

ServerPkt(m) == ServerHello(m) \/ ServerRefuse(m) \/ ServerBye(m) \/ ServerReject(m)

Next ==
    \/ \E i \in Idents : Connect(i)
    \/ \E m \in outbox : Enqueue(m)
    \/ \E m \in Message : ClientPkt(m)
    \/ \E m \in Message : ServerPkt(m)
    \/ Restart
    \/ \E m \in Message : Lose(m)
    \/ \E m \in Message : Duplicate(m)

Spec == Init /\ [][Next]_vars

\* The threads poll their queues, and the queues serve every packet in turn.
Fairness ==
    /\ \A m \in Message : WF_vars(Enqueue(m))
    /\ \A m \in Message : WF_vars(ClientPkt(m))
    /\ \A m \in Message : WF_vars(ServerPkt(m))

FairSpec == Spec /\ Fairness

-----------------------------------------------------------------------------
(* Properties                                                              *)

\* The types of the tables, the pool and the queues; a connection is not in the
\* pool and in the reflector's table at once.
TypeOK ==
    /\ pool \in [Idents -> Client \cup {None}]
    /\ clients \in [Idents -> Client \cup {None}]
    /\ servers \in [Idents -> Server \cup {None}]
    /\ outbox \subseteq Message
    /\ net \in [Message -> Nat]
    /\ next \subseteq Idents
    /\ restarts \in 0..MaxRestarts /\ faults \in 0..MaxFaults
    /\ opened \subseteq [ident : Idents, clientCookie : Cookies]
    /\ learned \subseteq [ident : Idents, serverCookie : Cookies]
    /\ clientDone \subseteq [ident : Idents, clientCookie : Cookies]
    /\ serverDone \subseteq [ident : Idents, clientCookie : Cookies, serverCookie : Cookies]
    /\ \A i \in Idents : clients[i] # None => pool[i] = None

\* The last Bye: a client whose connection ends well was answered by a server
\* that took its cookie and whose own end was good, whatever the network lost,
\* copied, reordered or kept over a restart.
ClientEndHasServerEnd ==
    \A d \in clientDone :
        \E e \in serverDone : e.ident = d.ident /\ e.clientCookie = d.clientCookie

\* The first Bye: the server ends a connection well only for a cookie a client of
\* that identity has sent, and only when a client has read the server's cookie.
ServerEndIsProved ==
    \A e \in serverDone :
        /\ [ident |-> e.ident, clientCookie |-> e.clientCookie] \in opened
        /\ [ident |-> e.ident, serverCookie |-> e.serverCookie] \in learned

\* No packet was lost or copied, and the client was not restarted.
Undisturbed == faults = 0 /\ restarts = 0

\* While the two ends of a connection wait for the Byes they agree on both
\* cookies, as long as no packet is lost or copied and no client restarted.
CookiesAgree ==
    Undisturbed =>
        \A i \in Idents :
            Known(i) # None /\ servers[i] # None =>
                /\ Known(i).clientCookie = servers[i].clientCookie
                /\ Known(i).state = "recvbye" =>
                        Known(i).serverCookie = servers[i].serverCookie

\* Until something disturbs the exchange no end refuses the other's packet, in any
\* order between connections: all of std::cout's complaints are unreachable.
NoRefusal ==
    [][Undisturbed =>
        ~\E m \in Message :
            \/ ClientUnknown(m) \/ ClientReject(m)
            \/ ServerRefuse(m) \/ ServerReject(m)]_vars

\* Every connection the client opens comes to its good end on both sides, and
\* neither keeps a state for it, unless the exchange is disturbed.
EveryConnectionEnds ==
    \A i \in Idents :
        i \notin next ~> \/ /\ \E d \in clientDone : d.ident = i
                            /\ Known(i) = None /\ servers[i] = None
                         \/ ~Undisturbed

=============================================================================
