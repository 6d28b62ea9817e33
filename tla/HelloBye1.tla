------------------------------ MODULE HelloBye1 ------------------------------
(***************************************************************************)
(* The first version of the exchange (namespace HelloBye): texts with a    *)
(* digit as cookie, connections named by their addresses and ports, one    *)
(* StateMachine per side.  It differs from HelloBye3 in two ways that      *)
(* matter.  Almost every end that refuses a packet does not free it: the   *)
(* packet is sent again as it came.  And the functions of the client run   *)
(* on the object of the first state, read as one of their own class.       *)
(*                                                                         *)
(* The network is external: it reorders packets, and loses or copies up to *)
(* MaxFaults.  A packet has the addresses of the end its text is for, also *)
(* when that end has refused it.                                           *)
(***************************************************************************)
EXTENDS Naturals

CONSTANTS
    Conns,          \* ports a client connects from
    Cookies,        \* rand() % 10
    Address,        \* dstIp of a connection
    None,           \* no state for a connection
    MaxConnects,    \* bound: calls of connect
    MaxFaults       \* bound: packets the network loses or copies

ASSUME HelloBye1Assumption ==
    /\ Cookies \subseteq 0..9 /\ Address \notin Cookies
    /\ MaxConnects \in Nat /\ MaxFaults \in Nat

\* The texts of the four packets: an underscore is their blank, the colon is left out.
ToServer == {"CLIENT_HELLO", "CLIENT_BYE"}

ToClient == {"SERVER_HELLO", "SERVER_BYE"}

\* sstream << cookie writes one character, and - 48 reads it back.
Digit(k) == 48 + k

Value(char) == char - 48

\* A packet by its addresses and payload; refused is part of the model only: the
\* end it is addressed to has sent it again.
Message == [conn : Conns, text : ToServer \cup ToClient, char : {Digit(k) : k \in Cookies},
            refused : BOOLEAN]

\* The object behind stateData.  A client has that of HelloByeClientHello for
\* good: HelloByeClientBye and HelloByeClientRecvBye find their serverCookie
\* where it has dstIp.
Client == [state : {"bye", "recvbye"}, clientCookie : Cookies,
           second : Cookies \cup {Address}]
Server == [clientCookie : Cookies, serverCookie : Cookies]

ASSUME HelloBye1None == None \notin Client \cup Server

VARIABLES
    clients,        \* the client's connections
    servers,        \* the server's connections, all in state Bye
    net,            \* copies of each packet in the network
    reflects,       \* refused packets go to the peer
    connects, faults,
    opened,         \* history: [conn, clientCookie] of every connect
    learned,        \* history: [conn, serverCookie] a client took from a Hello
    clientDone,     \* history: [conn, clientCookie] of the client's good ends
    serverDone      \* history: both cookies of the server's good ends

vars == <<clients, servers, net, reflects, connects, faults,
          opened, learned, clientDone, serverDone>>

history == <<opened, learned, clientDone, serverDone>>

Init ==
    /\ clients = [c \in Conns |-> None]
    /\ servers = [c \in Conns |-> None]
    /\ net = [m \in Message |-> 0]
    /\ reflects \in BOOLEAN
    /\ connects = 0 /\ faults = 0
    /\ opened = {} /\ learned = {} /\ clientDone = {} /\ serverDone = {}

Msg(c, text, k) == [conn |-> c, text |-> text, char |-> Digit(k), refused |-> FALSE]

\* A refused packet goes to the peer when the backend swaps the MAC addresses of
\* all it sends, as the examples do, and otherwise back to where its addresses say.
Astray(m) == m.refused /\ reflects

AtServer(m) == net[m] > 0 /\ (m.text \in ToServer) # Astray(m)

AtClient(m) == net[m] > 0 /\ (m.text \in ToClient) # Astray(m)

\* freePkt
Free(m) == net' = [net EXCEPT ![m] = @ - 1]

\* The packet is sent, rewritten into r.
Reply(m, r) == net' = [net EXCEPT ![m] = @ - 1, ![r] = @ + 1]

\* Terminate without freePkt: the packet is sent as it is.
SendBack(m) == Reply(m, [m EXCEPT !.refused = TRUE])

-----------------------------------------------------------------------------
(* The client                                                               *)

\* HelloByeClient_connect: the State is added and its first function fills the
\* packet.  The program does not connect from a port that is in use.
Connect(c) ==
    /\ connects < MaxConnects
    /\ clients[c] = None
    /\ connects' = connects + 1
    /\ \E k \in Cookies :
        /\ clients' = [clients EXCEPT ![c] =
                [state |-> "bye", clientCookie |-> k, second |-> Address]]
        /\ net' = [net EXCEPT ![Msg(c, "CLIENT_HELLO", k)] = @ + 1]
        /\ opened' = opened \cup {[conn |-> c, clientCookie |-> k]}
    /\ UNCHANGED <<servers, reflects, faults, learned, clientDone, serverDone>>

\* A packet of no connection: a reversed one is named differently, and the client
\* does not listen.
ClientUnknown(m) ==
    /\ AtClient(m)
    /\ m.text \in ToServer \/ clients[m.conn] = None
    /\ Free(m)
    /\ UNCHANGED <<clients, servers, reflects, connects, faults, history>>

ClientKnown(m) == AtClient(m) /\ m.text \in ToClient /\ clients[m.conn] # None

\* Faulty variant for the checks: the server's cookie is the object's first word.
Stored_First(c, k) == [c EXCEPT !.state = "recvbye", !.clientCookie = k]

\* serverCookie of HelloByeClientBye.
Stored(c, k) == [c EXCEPT !.state = "recvbye", !.second = k]

\* HelloByeClientBye::fun on a server Hello.
ClientBye(m) ==
    /\ ClientKnown(m)
    /\ clients[m.conn].state = "bye" /\ m.text = "SERVER_HELLO"
    /\ LET k == Value(m.char)
       IN  /\ clients' = [clients EXCEPT ![m.conn] = Stored(@, k)]
           /\ Reply(m, Msg(m.conn, "CLIENT_BYE", k))
           /\ learned' = learned \cup {[conn |-> m.conn, serverCookie |-> k]}
    /\ UNCHANGED <<servers, reflects, connects, faults, opened, clientDone, serverDone>>

GoodEnd(m) ==
    LET c == clients[m.conn]
    IN  c.state = "recvbye" /\ m.text = "SERVER_BYE" /\ Value(m.char) = c.clientCookie

\* HelloByeClientRecvBye::fun on a server Bye with the client's cookie.
ClientRecvBye(m) ==
    /\ ClientKnown(m) /\ GoodEnd(m)
    /\ clientDone' = clientDone \cup
            {[conn |-> m.conn, clientCookie |-> clients[m.conn].clientCookie]}
    /\ clients' = [clients EXCEPT ![m.conn] = None]
    /\ Free(m)
    /\ UNCHANGED <<servers, reflects, connects, faults, opened, learned, serverDone>>

\* Another text or cookie: Terminate, and the packet goes out again.
ClientReject(m) ==
    /\ ClientKnown(m) /\ ~GoodEnd(m)
    /\ ~(clients[m.conn].state = "bye" /\ m.text = "SERVER_HELLO")
    /\ clients' = [clients EXCEPT ![m.conn] = None]
    /\ SendBack(m)
    /\ UNCHANGED <<servers, reflects, connects, faults, history>>

-----------------------------------------------------------------------------
(* The server                                                               *)

\* A packet the server has no connection for: the factory makes one.
ServerAccepts(m) == AtServer(m) /\ (m.text \in ToClient \/ servers[m.conn] = None)

\* HelloByeServerHello::fun on a client Hello, and run, which makes the object
\* of the next state from this one's.
ServerHello(m) ==
    /\ ServerAccepts(m) /\ m.text = "CLIENT_HELLO"
    /\ \E k \in Cookies :
        /\ servers' = [servers EXCEPT ![m.conn] =
                [clientCookie |-> Value(m.char), serverCookie |-> k]]
        /\ Reply(m, Msg(m.conn, "SERVER_HELLO", k))
    /\ UNCHANGED <<clients, reflects, connects, faults, history>>

\* Faulty variant for the checks: refused without freePkt, as the other functions
\* do it.
Refused_SendBack(m) == SendBack(m)

\* The one refusal with freePkt.
Refused(m) == Free(m)

\* The same on another text: the new connection ends at once.
ServerRefuse(m) ==
    /\ ServerAccepts(m) /\ m.text # "CLIENT_HELLO"
    /\ Refused(m)
    /\ UNCHANGED <<clients, servers, reflects, connects, faults, history>>

ServerKnown(m) == AtServer(m) /\ m.text \in ToServer /\ servers[m.conn] # None

\* Faulty variant for the checks: the cookie of the client's Bye is not compared.
Proves_AnyCookie(m) == m.text = "CLIENT_BYE"

Proves(m) == m.text = "CLIENT_BYE" /\ Value(m.char) = servers[m.conn].serverCookie

\* HelloByeServerBye::fun on a client Bye with the server's cookie.
ServerBye(m) ==
    /\ ServerKnown(m) /\ Proves(m)
    /\ LET s == servers[m.conn]
       IN  /\ Reply(m, Msg(m.conn, "SERVER_BYE", s.clientCookie))
           /\ serverDone' = serverDone \cup
                {[conn |-> m.conn, clientCookie |-> s.clientCookie,
                  serverCookie |-> s.serverCookie]}
    /\ servers' = [servers EXCEPT ![m.conn] = None]
    /\ UNCHANGED <<clients, reflects, connects, faults, opened, learned, clientDone>>

\* Another text or cookie: Terminate, and the packet goes out again.
ServerReject(m) ==
    /\ ServerKnown(m) /\ ~Proves(m)
    /\ servers' = [servers EXCEPT ![m.conn] = None]
    /\ SendBack(m)
    /\ UNCHANGED <<clients, reflects, connects, faults, history>>

-----------------------------------------------------------------------------
(* The network                                                              *)

Fault(m) ==
    /\ net[m] > 0
    /\ faults < MaxFaults
    /\ faults' = faults + 1
    /\ \E n \in {net[m] - 1, net[m] + 1} : net' = [net EXCEPT ![m] = n]
    /\ UNCHANGED <<clients, servers, reflects, connects, history>>

ClientPkt(m) == ClientUnknown(m) \/ ClientBye(m) \/ ClientRecvBye(m) \/ ClientReject(m)

ServerPkt(m) == ServerHello(m) \/ ServerRefuse(m) \/ ServerBye(m) \/ ServerReject(m)

Next ==
    \/ \E c \in Conns : Connect(c)
    \/ \E m \in Message : ClientPkt(m)
    \/ \E m \in Message : ServerPkt(m)
    \/ \E m \in Message : Fault(m)

Spec == Init /\ [][Next]_vars

\* Both ends poll their queues, which serve every packet in turn.
Fairness == \A m \in Message : WF_vars(ClientPkt(m)) /\ WF_vars(ServerPkt(m))

FairSpec == Spec /\ Fairness

-----------------------------------------------------------------------------
(* Properties                                                              *)

\* The types of the connections and packets.  Although the client's object is read
\* as three classes in turn, its first word is the cookie it was made with and
\* its second one is dstIp exactly until the server's cookie is known.
ObjectsFit ==
    /\ clients \in [Conns -> Client \cup {None}]
    /\ servers \in [Conns -> Server \cup {None}]
    /\ net \in [Message -> Nat]
    /\ connects \in 0..MaxConnects /\ faults \in 0..MaxFaults
    /\ \A c \in Conns : clients[c] # None =>
        /\ [conn |-> c, clientCookie |-> clients[c].clientCookie] \in opened
        /\ IF clients[c].state = "bye"
           THEN clients[c].second = Address
           ELSE [conn |-> c, serverCookie |-> clients[c].second] \in learned

\* A client whose connection ends well was answered by a good end of the server for
\* its cookie, and the server's good end is for the cookie of a client that has
\* read the server's, whatever is lost, copied, refused and sent again, or left
\* over from an earlier connection of the port.
GoodEndsAgree ==
    /\ \A d \in clientDone :
        \E e \in serverDone : e.conn = d.conn /\ e.clientCookie = d.clientCookie
    /\ \A e \in serverDone :
        /\ [conn |-> e.conn, clientCookie |-> e.clientCookie] \in opened
        /\ [conn |-> e.conn, serverCookie |-> e.serverCookie] \in learned

\* Packets that are refused and sent again do not go round for ever, in either kind
\* of network: when nobody connects any more it becomes silent.
NetworkDrains == <>[](\A m \in Message : net[m] = 0)

=============================================================================
