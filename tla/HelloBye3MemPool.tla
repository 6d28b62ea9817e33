--------------------------- MODULE HelloBye3MemPool ---------------------------
(***************************************************************************)
(* The variant of HelloBye3 whose connection objects come from two DPDK    *)
(* memory pools of fixed size, one for the clients and one for the servers *)
(* of the process.  The handlers exchange the same packets as HelloBye3    *)
(* does: every action here is one of its actions and what the variant does *)
(* to the pools.                                                           *)
(*                                                                         *)
(* rte_mempool is external: a set of free objects of which get takes any.  *)
(* A get from an empty pool throws std::runtime_error, which nobody        *)
(* catches.  The mempool of the clients is a static variable: the thread   *)
(* that ends first frees it for all, and the next init keeps the pointer.  *)
(* Working on a freed mempool is undefined: it goes well or ends the       *)
(* process.                                                                *)
(***************************************************************************)
EXTENDS HelloBye3

CONSTANT Objects    \* the entries of a mempool, 8192 in the code

ASSUME ObjectsAssumption == None \notin Objects

VARIABLES
    clientFree, serverFree,     \* the free objects of the two mempools
    clientObj, serverObj,       \* stateData of each connection
    abandoned,                  \* objects of States that went with their threads
    connecting,                 \* the connector has not ended
    freed,                      \* Client_free was called on the clients' mempool
    crash                       \* "none", "empty" or "freed"

clientMem == <<clientFree, clientObj>>

serverMem == <<serverFree, serverObj>>

mem == <<clientMem, serverMem, abandoned, connecting, freed, crash>>

memVars == <<vars, mem>>

MemInit ==
    /\ Init
    /\ clientFree = Objects /\ serverFree = Objects
    /\ clientObj = [i \in Idents |-> None]
    /\ serverObj = [i \in Idents |-> None]
    /\ abandoned = {}
    /\ connecting = TRUE /\ freed = FALSE
    /\ crash = "none"

\* What becomes of the process when it works on the clients' mempool.
UseClientPool == crash' \in IF freed THEN {"none", "freed"} ELSE {"none"}

ClientGet(i) ==
    /\ \E o \in clientFree :
        /\ clientFree' = clientFree \ {o}
        /\ clientObj' = [clientObj EXCEPT ![i] = o]
    /\ UseClientPool
    /\ UNCHANGED <<serverMem, abandoned, connecting, freed>>

\* Faulty variant for the checks: the object stays with the connection that
\* ended.
ClientPut_Forgotten(i) ==
    /\ clientObj' = [clientObj EXCEPT ![i] = None]
    /\ UseClientPool
    /\ UNCHANGED <<clientFree, serverMem, abandoned, connecting, freed>>

ClientPut(i) ==
    /\ clientFree' = clientFree \cup {clientObj[i]}
    /\ clientObj' = [clientObj EXCEPT ![i] = None]
    /\ UseClientPool
    /\ UNCHANGED <<serverMem, abandoned, connecting, freed>>

ServerGet(i) ==
    /\ \E o \in serverFree :
        /\ serverFree' = serverFree \ {o}
        /\ serverObj' = [serverObj EXCEPT ![i] = o]
    /\ UNCHANGED <<clientMem, abandoned, connecting, freed, crash>>

\* Faulty variant for the checks: the State of the connection keeps its pointer.
ServerPut_KeepPointer(i) ==
    /\ serverFree' = serverFree \cup {serverObj[i]}
    /\ UNCHANGED <<serverObj, clientMem, abandoned, connecting, freed, crash>>

ServerPut(i) ==
    /\ serverFree' = serverFree \cup {serverObj[i]}
    /\ serverObj' = [serverObj EXCEPT ![i] = None]
    /\ UNCHANGED <<clientMem, abandoned, connecting, freed, crash>>

-----------------------------------------------------------------------------
(* The client                                                               *)

\* The same with nothing left: createHello throws.
ConnectExhausted(i) ==
    /\ connecting /\ i \in next
    /\ clientFree = {}
    /\ crash' = "empty"
    /\ UNCHANGED <<vars, clientMem, serverMem, abandoned, connecting, freed>>

MemConnect(i) == connecting /\ Connect(i) /\ ClientGet(i)

MemEnqueue(m) == Enqueue(m) /\ UNCHANGED mem

MemClientUnknown(m) == ClientUnknown(m) /\ UNCHANGED mem

\* runBye only writes to the object it has.
MemClientBye(m) == ClientBye(m) /\ UNCHANGED mem

\* Each end of runBye and runRecvBye puts the object back.
MemClientRecvBye(m) == ClientRecvBye(m) /\ ClientPut(m.ident)

MemClientReject(m) == ClientReject(m) /\ ClientPut(m.ident)

\* The connector ends while the reflector still works: Client_free.
FreeClients ==
    /\ connecting /\ restarts < MaxRestarts
    /\ outbox = {}
    /\ connecting' = FALSE /\ freed' = TRUE
    /\ UseClientPool
    /\ UNCHANGED <<vars, clientMem, serverMem, abandoned>>

Held(obj) == {obj[i] : i \in Idents} \ {None}

\* The reflector ends too and frees the mempool again; new threads start with
\* it.  The States of the old pool and table go without their objects.
MemRestart ==
    /\ ~connecting
    /\ Restart
    /\ connecting' = TRUE
    /\ abandoned' = abandoned \cup Held(clientObj)
    /\ clientObj' = [i \in Idents |-> None]
    /\ UseClientPool
    /\ UNCHANGED <<clientFree, serverMem, freed>>

-----------------------------------------------------------------------------
(* The server                                                               *)

\* factory throws out of findState in the middle of the batch.
ServerExhausted(m) ==
    /\ Arrives(m, "client") /\ servers[m.ident] = None
    /\ serverFree = {}
    /\ crash' = "empty"
    /\ UNCHANGED <<vars, clientMem, serverMem, abandoned, connecting, freed>>

MemServerHello(m) == ServerHello(m) /\ ServerGet(m.ident)

\* factory takes an object and runHello puts it back: none is left over, but one
\* must be there.
MemServerRefuse(m) == ServerRefuse(m) /\ serverFree # {} /\ UNCHANGED mem

MemServerBye(m) == ServerBye(m) /\ ServerPut(m.ident)

MemServerReject(m) == ServerReject(m) /\ ServerPut(m.ident)

-----------------------------------------------------------------------------

MemClientPkt(m) ==
    MemClientUnknown(m) \/ MemClientBye(m) \/ MemClientRecvBye(m) \/ MemClientReject(m)

MemServerPkt(m) ==
    \/ ServerExhausted(m)
    \/ MemServerHello(m) \/ MemServerRefuse(m) \/ MemServerBye(m) \/ MemServerReject(m)

MemFault(m) == (Lose(m) \/ Duplicate(m)) /\ UNCHANGED mem

MemNext ==
    /\ crash = "none"
    /\ \/ \E i \in Idents : MemConnect(i)
       \/ \E i \in Idents : ConnectExhausted(i)
       \/ \E m \in outbox : MemEnqueue(m)
       \/ \E m \in Message : MemClientPkt(m)
       \/ FreeClients
       \/ MemRestart
       \/ \E m \in Message : MemServerPkt(m)
       \/ \E m \in Message : MemFault(m)

MemSpec == MemInit /\ [][MemNext]_memVars

-----------------------------------------------------------------------------
(* Properties                                                              *)

\* The types of the mempools and of the pointers into them.
MemTypeOK ==
    /\ TypeOK
    /\ clientFree \subseteq Objects /\ serverFree \subseteq Objects
    /\ clientObj \in [Idents -> Objects \cup {None}]
    /\ serverObj \in [Idents -> Objects \cup {None}]
    /\ abandoned \subseteq Objects
    /\ connecting \in BOOLEAN /\ freed \in BOOLEAN
    /\ crash \in {"none", "empty", "freed"}

Exclusive(free, obj) ==
    \A i \in Idents :
        /\ obj[i] \notin free
        /\ \A j \in Idents : obj[i] = obj[j] /\ obj[i] # None => i = j

\* A connection has an object exactly while its State exists, and the object is
\* neither free nor that of another connection: no end is reported to the
\* mempool twice, none of its objects is used after it went back.
ObjectsExclusive ==
    /\ Exclusive(clientFree, clientObj)
    /\ Exclusive(serverFree, serverObj)
    /\ \A i \in Idents :
        /\ clientObj[i] # None <=> Known(i) # None
        /\ serverObj[i] # None <=> servers[i] # None

\* Every object is free or belongs to a connection that has not ended, however
\* the packets of a connection are lost, copied or refused; only a restart of
\* the client abandons those of its open connections.  So the server runs out
\* of objects only when that many connections are open.
NoObjectLost ==
    /\ serverFree \cup Held(serverObj) = Objects
    /\ clientFree \cup Held(clientObj) \cup abandoned = Objects
    /\ restarts = 0 => abandoned = {}

=============================================================================
