------------------------ MODULE HelloBye3MemPoolProofs ------------------------
(***************************************************************************)
(* The variant with memory pools keeps every promise of HelloBye3, and its *)
(* objects are never shared, freed twice or forgotten, for any number of   *)
(* objects, connections, faults and restarts.                              *)
(***************************************************************************)
EXTENDS HelloBye3MemPool, HelloBye3Proofs

USE HelloByeAssumption, NoneAssumption, ObjectsAssumption

-----------------------------------------------------------------------------
(* Every step is a step of HelloBye3 or leaves its variables alone         *)

LEMMA MemStep == [MemNext]_memVars => [Next]_vars
<1> SUFFICES ASSUME MemNext PROVE Next \/ UNCHANGED vars
    BY DEF memVars
<1>1. ASSUME NEW i \in Idents, MemConnect(i) \/ ConnectExhausted(i)
      PROVE  Next \/ UNCHANGED vars
    BY <1>1 DEF MemConnect, ConnectExhausted, Next
<1>2. ASSUME NEW m \in outbox, MemEnqueue(m) PROVE Next
    BY <1>2 DEF MemEnqueue, Next
<1>3. ASSUME NEW m \in Message, MemClientPkt(m) PROVE Next
    BY <1>3 DEF MemClientPkt, MemClientUnknown, MemClientBye, MemClientRecvBye,
                MemClientReject, ClientPkt, Next
<1>4. ASSUME NEW m \in Message, MemServerPkt(m) PROVE Next \/ UNCHANGED vars
    BY <1>4 DEF MemServerPkt, ServerExhausted, MemServerHello, MemServerRefuse,
                MemServerBye, MemServerReject, ServerPkt, Next
<1>5. ASSUME NEW m \in Message, MemFault(m) PROVE Next
    BY <1>5 DEF MemFault, Next
<1>6. CASE FreeClients
    BY <1>6 DEF FreeClients
<1>7. CASE MemRestart
    BY <1>7 DEF MemRestart, Next
<1> QED
    BY <1>1, <1>2, <1>3, <1>4, <1>5, <1>6, <1>7 DEF MemNext

\* The exchange of packets is the one of HelloBye3, whatever the mempools do.
THEOREM MemImplementsHelloBye3 == MemSpec => Spec
<1>1. MemInit => Init
    BY DEF MemInit
<1> QED
    BY <1>1, MemStep, PTL DEF MemSpec, Spec

\* A client's good end still has a server's, although the objects are recycled.
THEOREM MemClientEndCorrect == MemSpec => []ClientEndHasServerEnd
BY MemImplementsHelloBye3, ClientEndCorrect, PTL

\* So does the proof the server asks for.
THEOREM MemServerEndCorrect == MemSpec => []ServerEndIsProved
BY MemImplementsHelloBye3, ServerEndCorrect, PTL

-----------------------------------------------------------------------------
(* The objects                                                             *)

ObjectTypes ==
    /\ clientFree \subseteq Objects /\ serverFree \subseteq Objects
    /\ clientObj \in [Idents -> Objects \cup {None}]
    /\ serverObj \in [Idents -> Objects \cup {None}]
    /\ abandoned \subseteq Objects
    /\ connecting \in BOOLEAN /\ freed \in BOOLEAN
    /\ crash \in {"none", "empty", "freed"}

\* ObjectsExclusive is inductive with the types and Fresh: an identity the
\* connector may use has no object yet.
MemInv ==
    /\ TypeOK /\ Fresh
    /\ ObjectTypes /\ ObjectsExclusive /\ NoObjectLost

\* What the handlers do to the States of the client.
LEMMA KeepKnown ==
    ASSUME TypeOK, NEW i \in Idents, NEW st \in Client \cup {None}, Keep(i, st)
    PROVE  /\ Known(i)' = st
           /\ \A j \in Idents : j # i => Known(j)' = Known(j)
BY DEF TypeOK, Keep, Known

\* Nothing of the objects changes, and no State comes or goes.
LEMMA SameObjects ==
    ASSUME MemInv, TypeOK', Fresh',
           UNCHANGED <<clientMem, serverMem, abandoned>>,
           connecting' \in BOOLEAN, freed' \in BOOLEAN,
           crash' \in {"none", "empty", "freed"}, restarts' = restarts,
           \A j \in Idents : Known(j)' # None <=> Known(j) # None,
           \A j \in Idents : servers'[j] # None <=> servers[j] # None
    PROVE  MemInv'
BY DEF MemInv, ObjectTypes, ObjectsExclusive, Exclusive, NoObjectLost, Held,
       clientMem, serverMem

LEMMA ClientGetStep ==
    ASSUME MemInv, TypeOK', Fresh', NEW i \in Idents, ClientGet(i),
           Known(i) = None, Known(i)' # None, restarts' = restarts,
           \A j \in Idents : j # i => Known(j)' = Known(j),
           servers' = servers
    PROVE  MemInv'
<1>1. PICK o \in clientFree :
          /\ clientFree' = clientFree \ {o}
          /\ clientObj' = [clientObj EXCEPT ![i] = o]
    BY DEF ClientGet
<1>2. clientObj[i] = None /\ o \in Objects
    BY <1>1 DEF MemInv, ObjectsExclusive, ObjectTypes
<1>3. ObjectTypes'
    BY <1>1, <1>2 DEF ClientGet, UseClientPool, MemInv, ObjectTypes, serverMem
<1>4. ObjectsExclusive'
  <2>1. Exclusive(clientFree, clientObj)'
      BY <1>1, <1>2 DEF MemInv, ObjectsExclusive, Exclusive, ObjectTypes
  <2> QED
      BY <1>1, <1>2, <2>1 DEF ClientGet, MemInv, ObjectsExclusive, Exclusive,
                              ObjectTypes, serverMem
<1>5. NoObjectLost'
  <2>1. Held(clientObj') = Held(clientObj) \cup {o}
      BY <1>1, <1>2 DEF Held, MemInv, ObjectTypes
  <2>2. /\ serverFree' = serverFree /\ abandoned' = abandoned
        /\ Held(serverObj') = Held(serverObj)
      BY DEF ClientGet, serverMem
  <2>3. clientFree' \cup Held(clientObj') \cup abandoned' = Objects
      BY <1>1, <2>1, <2>2 DEF MemInv, NoObjectLost
  <2> QED
      BY <2>2, <2>3 DEF MemInv, NoObjectLost, Held
<1> QED
    BY <1>3, <1>4, <1>5 DEF MemInv

LEMMA ClientPutStep ==
    ASSUME MemInv, TypeOK', Fresh', NEW i \in Idents, ClientPut(i),
           Known(i) # None, Known(i)' = None, restarts' = restarts,
           \A j \in Idents : j # i => Known(j)' = Known(j),
           servers' = servers
    PROVE  MemInv'
<1>1. clientObj[i] \in Objects
    BY DEF MemInv, ObjectsExclusive, ObjectTypes
<1>2. ObjectTypes'
    BY <1>1 DEF ClientPut, UseClientPool, MemInv, ObjectTypes, serverMem
<1>3. ObjectsExclusive'
  <2>1. Exclusive(clientFree, clientObj)'
      BY <1>1 DEF ClientPut, MemInv, ObjectsExclusive, Exclusive, ObjectTypes
  <2> QED
      BY <1>1, <2>1 DEF ClientPut, MemInv, ObjectsExclusive, Exclusive,
                        ObjectTypes, serverMem
<1>4. NoObjectLost'
  <2>1. Held(clientObj') \cup {clientObj[i]} = Held(clientObj)
      BY <1>1 DEF ClientPut, Held, MemInv, ObjectTypes
  <2> QED
      BY <2>1 DEF ClientPut, MemInv, NoObjectLost, serverMem, Held
<1> QED
    BY <1>2, <1>3, <1>4 DEF MemInv

LEMMA ServerGetStep ==
    ASSUME MemInv, TypeOK', Fresh', NEW i \in Idents, ServerGet(i),
           servers[i] = None, servers'[i] # None, restarts' = restarts,
           \A j \in Idents : j # i => servers'[j] = servers[j],
           \A j \in Idents : Known(j)' = Known(j)
    PROVE  MemInv'
<1>1. PICK o \in serverFree :
          /\ serverFree' = serverFree \ {o}
          /\ serverObj' = [serverObj EXCEPT ![i] = o]
    BY DEF ServerGet
<1>2. serverObj[i] = None /\ o \in Objects
    BY <1>1 DEF MemInv, ObjectsExclusive, ObjectTypes
<1>3. ObjectTypes'
    BY <1>1, <1>2 DEF ServerGet, MemInv, ObjectTypes, clientMem
<1>4. ObjectsExclusive'
  <2>1. Exclusive(serverFree, serverObj)'
      BY <1>1, <1>2 DEF MemInv, ObjectsExclusive, Exclusive, ObjectTypes
  <2> QED
      BY <1>1, <1>2, <2>1 DEF ServerGet, MemInv, ObjectsExclusive, Exclusive,
                              ObjectTypes, clientMem
<1>5. NoObjectLost'
  <2>1. Held(serverObj') = Held(serverObj) \cup {o}
      BY <1>1, <1>2 DEF Held, MemInv, ObjectTypes
  <2>2. /\ clientFree' = clientFree /\ abandoned' = abandoned
        /\ Held(clientObj') = Held(clientObj)
      BY DEF ServerGet, clientMem
  <2>3. serverFree' \cup Held(serverObj') = Objects
      BY <1>1, <2>1, <2>2 DEF MemInv, NoObjectLost
  <2> QED
      BY <2>2, <2>3 DEF MemInv, NoObjectLost, Held
<1> QED
    BY <1>3, <1>4, <1>5 DEF MemInv

LEMMA ServerPutStep ==
    ASSUME MemInv, TypeOK', Fresh', NEW i \in Idents, ServerPut(i),
           servers[i] # None, servers'[i] = None, restarts' = restarts,
           \A j \in Idents : j # i => servers'[j] = servers[j],
           \A j \in Idents : Known(j)' = Known(j)
    PROVE  MemInv'
<1>1. serverObj[i] \in Objects
    BY DEF MemInv, ObjectsExclusive, ObjectTypes
<1>2. ObjectTypes'
    BY <1>1 DEF ServerPut, MemInv, ObjectTypes, clientMem
<1>3. ObjectsExclusive'
  <2>1. Exclusive(serverFree, serverObj)'
      BY <1>1 DEF ServerPut, MemInv, ObjectsExclusive, Exclusive, ObjectTypes
  <2> QED
      BY <1>1, <2>1 DEF ServerPut, MemInv, ObjectsExclusive, Exclusive,
                        ObjectTypes, clientMem
<1>4. NoObjectLost'
  <2>1. Held(serverObj') \cup {serverObj[i]} = Held(serverObj)
      BY <1>1 DEF ServerPut, Held, MemInv, ObjectTypes
  <2>2. serverFree' \cup Held(serverObj') = Objects
      BY <2>1 DEF ServerPut, MemInv, NoObjectLost
  <2>3. /\ clientFree' = clientFree /\ abandoned' = abandoned
        /\ Held(clientObj') = Held(clientObj)
      BY DEF ServerPut, clientMem
  <2> QED
      BY <2>2, <2>3 DEF MemInv, NoObjectLost, Held
<1> QED
    BY <1>2, <1>3, <1>4 DEF MemInv

LEMMA MemInvStep == MemInv /\ [MemNext]_memVars => MemInv'
<1> SUFFICES ASSUME MemInv, [MemNext]_memVars PROVE MemInv'
    OBVIOUS
<1>1. TypeOK' /\ Fresh'
    BY MemStep, TypeStep, FreshStep DEF MemInv
<1> USE <1>1
<1>2. CASE UNCHANGED memVars
    BY <1>2, SameObjects DEF memVars, mem, vars, Known, MemInv, ObjectTypes,
                             clientMem, serverMem
<1>3. ASSUME NEW i \in Idents, MemConnect(i) PROVE MemInv'
  <2>1. i \in next /\ pool[i] = None /\ clients[i] = None
      BY <1>3 DEF MemConnect, Connect, MemInv, Fresh
  <2>2. PICK k \in Cookies : pool' = [pool EXCEPT ![i] =
                [state |-> "bye", clientCookie |-> k, serverCookie |-> 0]]
      BY <1>3 DEF MemConnect, Connect
  <2>3. [state |-> "bye", clientCookie |-> k, serverCookie |-> 0] \in Client
      BY DEF Client
  <2>4. /\ clients' = clients /\ servers' = servers /\ restarts' = restarts
        /\ ClientGet(i)
      BY <1>3 DEF MemConnect, Connect
  <2>5. Known(i) = None /\ Known(i)' # None
      BY <2>1, <2>2, <2>3, <2>4 DEF Known, MemInv, TypeOK
  <2>6. \A j \in Idents : j # i => Known(j)' = Known(j)
      BY <2>2, <2>4 DEF Known, MemInv, TypeOK
  <2> QED
      BY <2>4, <2>5, <2>6, ClientGetStep
<1>4. ASSUME NEW i \in Idents, ConnectExhausted(i) PROVE MemInv'
    BY <1>4, SameObjects DEF ConnectExhausted, vars, Known, MemInv, ObjectTypes,
                             clientMem, serverMem
<1>5. ASSUME NEW m \in outbox, MemEnqueue(m) PROVE MemInv'
    BY <1>5, SameObjects DEF MemEnqueue, Enqueue, mem, Known, MemInv, ObjectTypes
<1>6. ASSUME NEW m \in Message, MemClientUnknown(m) PROVE MemInv'
    BY <1>6, SameObjects DEF MemClientUnknown, ClientUnknown, mem, Known, MemInv,
                             ObjectTypes
<1>7. ASSUME NEW m \in Message, MemClientBye(m) PROVE MemInv'
  <2> DEFINE c == Known(m.ident)
             st == [c EXCEPT !.state = "recvbye", !.serverCookie = m.cookie]
  <2>1. m.ident \in Idents /\ m.cookie \in Cookies
      BY DEF Message
  <2>2. c # None /\ Keep(m.ident, st) /\ servers' = servers /\ restarts' = restarts
      BY <1>7 DEF MemClientBye, ClientBye
  <2>3. st \in Client
      BY <2>1, <2>2, KnownType DEF Client, MemInv
  <2>4. \A j \in Idents : Known(j)' # None <=> Known(j) # None
      BY <2>1, <2>2, <2>3, KeepKnown DEF MemInv
  <2> QED
      BY <1>7, <2>2, <2>4, SameObjects DEF MemClientBye, mem, MemInv, ObjectTypes
<1>8. ASSUME NEW m \in Message, MemClientRecvBye(m) \/ MemClientReject(m) PROVE MemInv'
  <2>1. /\ m.ident \in Idents /\ Known(m.ident) # None
        /\ Keep(m.ident, None) /\ ClientPut(m.ident)
        /\ servers' = servers /\ restarts' = restarts
      BY <1>8 DEF MemClientRecvBye, MemClientReject, ClientRecvBye, ClientReject,
                  Message, history
  <2>2. /\ Known(m.ident)' = None
        /\ \A j \in Idents : j # m.ident => Known(j)' = Known(j)
      BY <2>1, KeepKnown DEF MemInv
  <2> QED
      BY <2>1, <2>2, ClientPutStep
<1>9. CASE FreeClients
    BY <1>9, SameObjects DEF FreeClients, UseClientPool, vars, Known, MemInv,
                             ObjectTypes, clientMem, serverMem
<1>10. CASE MemRestart
  <2>1. /\ clientObj' = [i \in Idents |-> None]
        /\ clientFree' = clientFree /\ serverFree' = serverFree
        /\ serverObj' = serverObj /\ servers' = servers
        /\ abandoned' = abandoned \cup Held(clientObj)
        /\ restarts' = restarts + 1
        /\ \A j \in Idents : Known(j)' = None
      BY <1>10 DEF MemRestart, Restart, serverMem, Known
  <2>2. Held(clientObj') = {} /\ Held(clientObj) \subseteq Objects
      BY <2>1 DEF Held, MemInv, ObjectTypes
  <2>3. ObjectTypes'
      BY <1>10, <2>1, <2>2 DEF MemRestart, UseClientPool, ObjectTypes, MemInv
  <2>4. ObjectsExclusive'
    <3>1. Exclusive(clientFree, clientObj)' /\ Exclusive(serverFree, serverObj)'
        BY <2>1 DEF MemInv, ObjectsExclusive, Exclusive, ObjectTypes
    <3> QED
        BY <2>1, <3>1 DEF MemInv, ObjectsExclusive
  <2>5. NoObjectLost'
    <3>1. Held(serverObj') = Held(serverObj)
        BY <2>1
    <3>2. restarts' # 0
        BY <2>1 DEF MemInv, TypeOK
    <3>3. /\ serverFree' \cup Held(serverObj') = Objects
          /\ clientFree' \cup Held(clientObj') \cup abandoned' = Objects
        BY <2>1, <2>2, <3>1 DEF MemInv, NoObjectLost
    <3> QED
        BY <3>2, <3>3 DEF NoObjectLost, Held
  <2> QED
      BY <2>3, <2>4, <2>5 DEF MemInv
<1>11. ASSUME NEW m \in Message, ServerExhausted(m) PROVE MemInv'
    BY <1>11, SameObjects DEF ServerExhausted, vars, Known, MemInv, ObjectTypes,
                              clientMem, serverMem
<1>12. ASSUME NEW m \in Message, MemServerHello(m) PROVE MemInv'
  <2>1. PICK k \in Cookies : servers' = [servers EXCEPT ![m.ident] = Accepted(m, k)]
      BY <1>12 DEF MemServerHello, ServerHello
  <2>2. Accepted(m, k) \in Server
      BY DEF Accepted, Server, Message
  <2>3. /\ m.ident \in Idents /\ servers[m.ident] = None /\ ServerGet(m.ident)
        /\ restarts' = restarts /\ pool' = pool /\ clients' = clients
      BY <1>12 DEF MemServerHello, ServerHello, Message
  <2>4. servers'[m.ident] # None
      BY <2>1, <2>2, <2>3 DEF MemInv, TypeOK
  <2>5. \A j \in Idents : j # m.ident => servers'[j] = servers[j]
      BY <2>1, <2>3 DEF MemInv, TypeOK
  <2>6. \A j \in Idents : Known(j)' = Known(j)
      BY <2>3 DEF Known
  <2> QED
      BY <2>3, <2>4, <2>5, <2>6, ServerGetStep
<1>13. ASSUME NEW m \in Message, MemServerRefuse(m) PROVE MemInv'
    BY <1>13, SameObjects DEF MemServerRefuse, ServerRefuse, mem, Known, MemInv,
                              ObjectTypes
<1>14. ASSUME NEW m \in Message, MemServerBye(m) \/ MemServerReject(m) PROVE MemInv'
  <2>1. /\ m.ident \in Idents /\ servers[m.ident] # None /\ ServerPut(m.ident)
        /\ servers' = [servers EXCEPT ![m.ident] = None]
        /\ restarts' = restarts /\ pool' = pool /\ clients' = clients
      BY <1>14 DEF MemServerBye, MemServerReject, ServerBye, ServerReject, Message,
                   history
  <2>2. servers'[m.ident] = None /\ \A j \in Idents : j # m.ident => servers'[j] = servers[j]
      BY <2>1 DEF MemInv, TypeOK
  <2>3. \A j \in Idents : Known(j)' = Known(j)
      BY <2>1 DEF Known
  <2> QED
      BY <2>1, <2>2, <2>3, ServerPutStep
<1>15. ASSUME NEW m \in Message, MemFault(m) PROVE MemInv'
    BY <1>15, SameObjects DEF MemFault, Lose, Duplicate, Fault, mem, Known, MemInv,
                              ObjectTypes, history
<1> QED
    BY <1>2, <1>3, <1>4, <1>5, <1>6, <1>7, <1>8, <1>9, <1>10, <1>11, <1>12, <1>13,
       <1>14, <1>15 DEF MemNext, MemClientPkt, MemServerPkt

LEMMA MemInvariant == MemSpec => []MemInv
<1>1. MemInit => MemInv
  <2> SUFFICES ASSUME MemInit PROVE MemInv
      OBVIOUS
  <2>1. TypeOK /\ Fresh
      BY DEF MemInit, Init, TypeOK, Fresh
  <2>2. Held(clientObj) = {} /\ Held(serverObj) = {}
      BY DEF MemInit, Held
  <2> QED
      BY <2>1, <2>2 DEF MemInit, Init, MemInv, ObjectTypes, ObjectsExclusive,
                        Exclusive, NoObjectLost, Known
<1> QED
    BY <1>1, MemInvStep, PTL DEF MemSpec

\* The types of the mempools and of stateData.
THEOREM MemTypeCorrect == MemSpec => []MemTypeOK
<1>1. MemInv => MemTypeOK
    BY DEF MemInv, ObjectTypes, MemTypeOK
<1> QED
    BY <1>1, MemInvariant, PTL

\* No two connections ever share an object, none has one that is free, and none
\* is put back twice.
THEOREM ObjectsExclusiveCorrect == MemSpec => []ObjectsExclusive
<1>1. MemInv => ObjectsExclusive
    BY DEF MemInv
<1> QED
    BY <1>1, MemInvariant, PTL

\* Every end of a connection returns its object; only restarts abandon objects.
THEOREM NoObjectLostCorrect == MemSpec => []NoObjectLost
<1>1. MemInv => NoObjectLost
    BY DEF MemInv
<1> QED
    BY <1>1, MemInvariant, PTL

=============================================================================
