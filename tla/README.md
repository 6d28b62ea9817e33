# A TLA+ model of MoonState

MoonState runs the state machines of network protocols over batches of packets.
A thread receives packets, an *Identifier* names the connection of each, a
*StateMachine* object finds the connection's state and runs the *function* of
that state, and the functions decide, through *FunIface*, where the connection
goes next and what happens to the packet.  One thread can open a connection and
another can receive its packets: the threads share a *ConnectionPool*.

This directory models that framework, the packet array under it and five
protocols on top of it: the HelloBye exchange in three versions, a TCP server
and DTLS.  It checks them with TLC and proves the theorems listed below with
TLAPS.

Source paths are relative to the root of the repository.

## 1. Inventory

### Framework

| Component | State | Operations | Interacts with |
|---|---|---|---|
| `BufArray` (`include/bufArray.hpp`) | the packet pointers, `numBufs`, one bit per slot (`sendMask`: send or free), whether it owns the pointer array | `markDropPkt`, `markSendPkt`, `addPkt` (grows), `getSendCount`, `getFreeCount`, `getSendBufs`, `getFreeBufs` | filled by the C interface, marked by `FunIface`, emptied by the caller of `..._getPkts` |
| `StateMachine` (`include/stateMachine.hpp`) | `stateTable`, the function table, `timeoutsQ`, `timeoutFunctions`, `curTimeoutID` | `runPktBatch`, `runPkt`, `findState`, `addState`, `addStateNoFun`, `removeState`, registration | calls the functions of the program; one object per thread |
| `FunIface` | packet index, reference to the State, `sendPkt`, `transitionNow` flag | `transition`, `transitionNow`, `freePkt`, `getPkt`, `setTimeout`, and a destructor that marks the packet and runs the `transitionNow` function | written to by the functions |
| `ConnectionPool` | `newStates`, a `tbb::concurrent_hash_map` | `add`, `findAndErase` | the only state the threads share |
| Timeouts | a priority queue of `(time, id)`, and a map from id to connection and function | `setTimeout`, the loop at the head of `runPktBatch`, invalidation in `runPkt` | steady clock |

Hard behaviours: two threads that look for one connection while it moves through
the pool; `addState` whose State is published before its `FunIface` dies; the end
state, which is noticed in four different places; packets that race a timeout;
timeouts of a connection that has moved; batches that grow while they are run.

What makes it correct: one owner per connection object at any time, no reference
to an object that was disposed of, no object lost, every packet handed out
exactly once and with the mark its function chose, a timeout that fires if and
only if no packet came before it, and calls that return.

### Protocols over the framework

| Component | State | Operations | Hard behaviours |
|---|---|---|---|
| HelloBye3 (`src/helloBye3.cpp`, driven by `tests/helloBye3SynthMulti.cpp`) | two cookies per end, state of the exchange | client `runHello`, `runBye`, `runRecvBye`; server `factory`, `runHello`, `runBye` | connector and reflector threads share a pool; packets lost, copied, reordered; clients restart with old identities |
| HelloBye1 (`src/helloByeProto.cpp`, `include/helloByeProto.hpp`, `src/helloBye_C.cpp`) | the first version: a digit as cookie, addresses and ports as identity, one object for three classes | `fun` and `run` of five classes | refused packets are sent again; an object is read as another class |
| HelloBye2 (`src/helloBye2Proto.cpp`, its `...Static.cpp` and `..._C.cpp`) | the exchange of HelloBye3, other identifiers and layout, one class per state | the same | the same |
| HelloBye3MemPool (`src/helloBye3MemPool.cpp`, driven by `tests/helloBye3MemPoolSynthMulti.cpp`) | as HelloBye3, objects from two static `rte_mempool`s of 8192 | as HelloBye3, `rte_mempool_get/put`, `Client_free` | exhaustion throws inside a batch; the mempool is shared by threads that free it separately |
| TCP server (`src/tcp.cpp`, `include/tcp.hpp`, `include/tcpConCtlSimple.hpp`, `include/tcpProtoJoke.hpp`) | sequence numbers, segments sent and to send, windows | `runSynAck`, `runEst`, `runAckFin` | go-back-N, splitting of a segment, 32-bit sequence numbers, acknowledgement by comparison |
| DTLS (`src/dtlsServer.cpp`, `src/dtlsClient.cpp`) | an OpenSSL engine with two memory queues per connection | handshake, data, teardown | several packets per reply, engine freed and then used |
| Astraeus (`src/astraeusServer.cpp`, `src/astraeusClient.cpp`) | as DTLS, external crypto library | as DTLS | as DTLS |

### Utilities

`SpinLock` (test-and-set lock), `uint48` and `uint24` (`include/common.hpp`),
header accessors (`include/headers.hpp`), `mbuf`, the identifiers, the pcap
backend, measurement, the Lua wrappers, and the tests, benchmarks and examples
that drive all of it.

`PROJECT.json` lists each component with its status, and under `hazards` each
place of the code that is hard to test, with the properties that watch it or the
reason why none does.

## 2. Modules

| Module | Models |
|---|---|
| `BufArray` | the packet array as a record and one operator per method |
| `PacketBatch` | the life of one `BufArray`: filled, marked, grown, counted, collected, deleted; the pointer array's memory |
| `StateMachine` | any number of StateMachine objects and their shared pool; EXTENDS `BufArray` |
| `ConnectionOwnership` | what the pool promises: an abstract protocol over the owner of each connection object |
| `HelloBye3` | the HelloBye3 exchange between a two-thread client and a server over a faulty network |
| `HelloBye3MemPool` | the same with objects from memory pools; EXTENDS `HelloBye3` and implements it |
| `HelloBye1` | the first version of the exchange, in which refused packets are sent again |
| `TcpServer` | one connection of the TCP server with its echo protocol, and a client |
| `Dtls` | connections between the DTLS server and client around an external engine |
| `MCPacketBatch`, `MCStateMachine` | instances for TLC |
| `StateMachineProofs`, `StateMachineTimerProofs`, `PacketBatchProofs`, `HelloBye3Proofs`, `HelloBye3MemPoolProofs`, `HelloBye1Proofs`, `TcpServerProofs`, `DtlsProofs` | theorems |

Definitions named `X_Something` next to a definition `X` are faulty variants.
They are used by no specification.  Replacing `X` by one of them shows that the
properties can fail.

### BufArray and PacketBatch

An array is a record of the pointers, one bit per slot (send or free), the number
of packets, the capacity, and whether the pointer array belongs to Lua, as the
class keeps it; slots that nothing was stored into hold `Garbage`.  `Grow` doubles
the array as `addPkt` does.  `PacketBatch` adds what the C interface does
with it: the batch comes with an array that belongs to Lua, the first growth
replaces it by memory of the `BufArray`, later growths free what they replace,
and `Collect` is `..._getPkts`, which deletes the `BufArray`.

### StateMachine

One step is one packet, one timeout, or the part of `addState` between two
accesses to the pool.  This is enough: an object is used by one thread, and
`ConnectionPool::add` and `findAndErase` are the only places where threads meet,
so every interleaving of smaller steps is equivalent to one of these.

* `BeginBatch`, `SkipTimeout`, `FireTimeout`, `TimeoutWithoutState`,
  `EndTimeouts`, `DropPkt`, `RunPkt`, `EndBatch` are `runPktBatch` in its order:
  the timeout loop, the loop over the packets that were there at entry, the end.
* `OpenRun`, `OpenPublish`, `OpenReturn` are `addState`: the function on a local
  copy, the `add` to the pool, the destructor of `FunIface`.
* `OpenNoFun` and `RemoveState` are the other two public operations.
* `Tick` is the clock.  It is external.

A function of the embedding program is an *effect*: the state it goes to, and
whether it called `transitionNow`, `freePkt`, `getPkt` and `setTimeout`.  `Call`
applies one.  `RunPkt` applies one for the state function and, after
`transitionNow`, one for the function the destructor runs; marks, removal of an
end state and the destructor keep the order of the code.

A failed assertion is a value of `crash`, after which nothing happens.  `Asserts`
says whether the build has assertions (`CMakeLists.txt` sets plain `-O3`, so it
does).  With `Asserts = FALSE` the write outside of the mask that a timeout's
`FunIface` makes is allowed to go unnoticed, which is how the timeout properties
can be examined at all.

### ConnectionOwnership

Each connection object is owned by nobody, a thread or the pool.  It is created by
a thread (or directly in the pool), published by its owner, claimed from the pool
by one thread, and closed by its owner.  `OwnershipRefined` is this specification
under the refinement mapping `OwnerOf`, which looks for the object in the tables,
in an `addState` in progress, and in the pool.

### HelloBye3

The arrangement of `tests/helloBye3SynthMulti.cpp`.  The connector opens
connections (`Connect`: `createHello`, `runHello` inside of `addState`) and
enqueues the packets of a batch afterwards (`Enqueue`).  The reflector claims
connections from the pool as packets arrive (`Known`, `Keep`) and runs `runBye`
and `runRecvBye`.  The server accepts (`ServerHello`), checks the Bye
(`ServerBye`) or refuses.  `Restart` is the middle of `main`: both client threads
end, new ones start with a fresh pool and count identities from zero again, while
the server and the queues stay.

`net` holds a number of copies of each packet; delivery is in any order, and `Lose`
and `Duplicate` change the number.  The queues of the test do neither; the
drivers over a NIC meet both.  Each thread's step is one packet, and a reply
is available at once; in the code it appears at the end of the batch, which a
packet that waits in `net` covers.  `opened`, `learned`, `clientDone` and
`serverDone` are history variables: they record which cookies were sent, read,
and accepted, and no action reads them.

### HelloBye3MemPool

Each action is the action of `HelloBye3` of the same name together with what the
handler does to the mempools: `createHello` and `factory` take an object, every
end puts it back.  With an empty mempool both throw, which the test's loops do
not catch (`ConnectExhausted`, `ServerExhausted`); `crash` says so and nothing
follows.

The clients' mempool is a static pointer.  Connector and reflector each call
`Client_free` when they end, which frees it (`FreeClients`, `MemRestart`), and
`Client_init` of the new threads goes on with the same one.  What a freed mempool
does is undefined: `UseClientPool` lets the process end or go on as if nothing
had happened, at every later use.  An end puts the object back before `runPkt`
removes the State that points to it; the model does both in one step, so that
another thread takes the object in between is not in it.

### HelloBye1

A message is its addresses, its text and the character of the cookie; `Digit` and
`Value` are the two conversions.  All refusals but one do not call
`freePkt`, so the packet goes out again as it is (`SendBack`); only the server's
refusal of a new connection frees it.  Where it goes is up to the backend:
`reflects` is chosen once and covers both, a backend that swaps the MAC addresses
of everything it sends, as the examples do, and one that sends by address.

The client's `run` functions never replace `stateData`: the object made as
`HelloByeClientHello` is read as `HelloByeClientBye` and as
`HelloByeClientRecvBye`.  `Client` therefore has the two words by position, and
the second is the destination address before it is the server's cookie.  That
the classes' members lie at these positions is what the usual layout gives; the
language does not promise it.

### TcpServer

`state`, `seqLocal`, `seqRemote`, `closing`, `toSend` and `sent` are the entry of
the table and `struct connection`; `control` is `TcpConCtlSimple`.  One action is
one packet at the server: `SynAck`, `EstRefuse`, `EstUnexpected`, `EstTake` are the
ways through `runSynAck` and `runEst`, the `AckFin` actions those through
`runAckFin`.  The whole `runEst` is one step: acknowledgement, repeated
acknowledgement, the payload through the echo protocol and `sendData`, the loop
that fills the packet, and the FIN.

The client is external: it connects, sends its bytes in order, takes what it
expects, acknowledges, sends again from its first unacknowledged byte, and
closes.  It takes nothing after a FIN.  A payload is the position of its first byte in the client's stream and
a length, so a byte that comes back at the wrong number is visible.

`runEst` computes the payload's length twice.  The first length, by the packet's
own header, moves `seqRemote` (`p.len`); the second, after `setOffset(5)`, is what
is echoed and what moves `seqLocal` (`DataLen`, `Start`).  They differ by the
option bytes of the packet, `p.opt`.  `Options` says how many a client may send: the
SYN-ACK offers none, so an ordinary client sends none (`Options` = {0}), and what
the code does with others is in section 5.  A refusal keeps the old offset, so
with options it is shorter than its header and no client takes it (`Refusal`).

`faults`
counts packets lost, copied and sent again, closed windows and closes before the
last answer is acknowledged.  `resent` is a history variable: the server has sent
a segment again.  `calm` is a run without either.

### Dtls

Both sides' tables, an engine per connection and side, and the queue BIO between
engine and handler.  `ServerHandshake`, `ServerEcho`, `ServerClose`, `ServerDrop`,
`ClientHandshake`, `ClientEcho` and `ClientAssertion` are the ways through the
handlers; `Connect` is `DtlsClient_connect` with `createStateData` and
`initHandshake`.  `writeAllDataAvailable` sends the first datagram in the packet
that came in and each other one in a packet of the pool.

The engine is external and small: four flights, the next one written when all
parts of the last are there, records given out once, and a timer that may repeat
a flight when a handler calls the engine again.  A datagram to a connection the
server does not have makes a new engine, a session of its own (`sessions` counts
them).

## 3. Runs

Run them as `tlc -config <cfg> <module>`.

| Run | Instance | Shows |
|---|---|---|
| `PacketBatch` | batches of 1–2 out of five packets; the others can be added | every packet is handed out once, in the list its mark says; counts agree with the lists; arrays are freed once |
| `Pool` | 2 objects, 2 connections, 3 objects of state data | `SingleOwner`, `NoDangling`, `NoLeak`, `OneStatePerConnection` in every order of open, packet, remove and end |
| `Sharing` | a connecting and a listening object, batches of up to two packets, `transitionNow`, `getPkt`, a timeout set in `addState` | the framework implements `ConnectionOwnership`; nothing stays in the end state; `freePkt` and `getPkt` are honoured when a later packet, or a function after `transitionNow`, makes the array grow |
| `Timers` | 1 object, 2 connections, 2 ticks, waits of 1 and 2, up to 4 timeouts | the State, `timeoutFunctions` and `timeoutsQ` agree; calls return |
| `HelloBye` | 2 identities, 2 cookies, a reordering network with at most one loss, copy or restart | until it happens the ends agree and nobody refuses anything; unless it happens every connection ends well on both sides |
| `HelloByeMemPool` | 2 identities, 2 cookies, mempools of 1 object, up to 2 losses or copies, 1 restart | a good end implies a peer with the same cookie; no object is shared, used after it went back, or lost |
| `HelloByeFirst` | 1 port that connects twice, 2 cookies, up to 2 losses or copies, both kinds of network | the object read as three classes fits each; good ends agree; packets that are refused and sent again die out |
| `Tcp` | 4 bytes in payloads of 1 and 2, segments of at most 2, windows open or closed, no options, up to 2 faults | the client accepts its bytes in order; the server takes no byte and no FIN the client has not sent, and its queues hold each byte once; without a fault, and with no segment sent again, everything comes back and nothing is refused |
| `Dtls` | 2 connections, flights of 2 datagrams, up to 2 losses, copies or repetitions | the two sides agree on the session; the server makes a second engine for a connection only after a fault, and never a third; it forgets a connection only after the echo, and without a fault it does |

Three runs are expected to fail.  Each checks one thing the repository says of
itself, in a comment or an assertion, against what the code does (`findings` in
`PROJECT.json` quotes the lines):

| Run | Violated | Why |
|---|---|---|
| `NearestTimeout` | `DueTimeoutsRunFirst` | `Compare` puts the latest timeout on top, so a due one can wait behind it |
| `TimeoutMark` | `MarksInRange` | the `FunIface` of a timeout marks packet 2^32 - 1 |
| `DtlsClose` | `ClientReads` | the client's `assert(readLen > 0)` fails on the server's answer to its own close |

### Bounds

* Two objects and two connections are the smallest instance in which a claim races
  a claim, and a publication races a claim; the properties speak of pairs of
  places.  The theorems lift `SingleOwner` and `NoDangling` to any number.
* Three addresses of state data: two connections that are open plus one whose
  address is free again and can be reused.  `Data` is never exhausted while fewer
  than three connections are open.
* `InvalidID` stands for 2^32 - 1.  Unless `IDsWrap`, effects that would bring the
  counter to it are left out, so a bounded number of timeouts is set.  In
  `Timers`, four are enough for both connections to wait, be disarmed by a packet
  and wait again.
* `MaxTime` bounds the clock; `Timers` lets both kinds of wait expire.
* `FreshIDs`: the program calls `addState` with IDs that are not in use.
* In `HelloBye`, two connections overtake each other in either direction and
  between the client's two threads.  `MaxTroubles` bounds losses, copies and
  restarts together; the properties of this run speak of what comes before the
  first, so it is 1.
* In `HelloByeMemPool`, two identities and one object make the mempools run empty
  with a connection open, and an object go from one identity to the other.  Two
  faults allow a copied Hello whose exchange also loses or copies a Bye, around a
  restart that opens the identity again with an equal or a different cookie.
* In `HelloByeFirst`, connections of different ports share nothing, so one port is
  enough; the second `MaxConnects` meets what the first one left on the server
  and in the network.
* In `Tcp`, `MSS` = 2 and payloads of one and two bytes make segments that fill a
  packet and segments that do not; four bytes are two full segments, so one can be
  lost while the other is acknowledged, and the three repeated acknowledgements
  that make `TcpConCtlSimple` reset occur.  `SynLen` = 2 keeps the SYN-ACK's
  segment, which is longer than what it stands for, in the list as the code does.
  A window is closed or larger than all data; what a window in between does is
  in section 5, and so is what options do.  With `Options` = {0} the SYN carries
  none either, as if its options ended with it: a copy of a SYN that has some is
  refused by a packet too short for its header, which no client takes.
* In `Dtls`, `Parts` = 2 is the smallest flight of which a part can be missing;
  two faults are a copied ClientHello together with one more event.
* `Pool`, `Sharing` and the other `MCStateMachine` runs without liveness use
  symmetry over data and connections, which no definition distinguishes;
  `Timers`, which checks liveness, uses none.  The other runs use none either,
  apart from `PacketBatch`.

Deadlock checking is off where the program may stop: the clock at its bound, a
client that has no identity or connection left, a process that has ended.

### Fairness

`StateMachine!Fairness` is weak fairness of `Continue(m)`: a thread inside of
`runPktBatch` or `addState` keeps running.  Nothing makes a program call them, and
nothing makes the clock advance.  `CallsReturn` needs no more.

`HelloBye3!Fairness` is weak fairness of the steps that take a packet from a queue
and of `Enqueue`, packet by packet: the threads poll in a loop and the queues
deliver everything.  `Connect`, `Restart` and the faults are not fair.
`HelloBye1!Fairness` is the same for its two ends.

`TcpServer!Fairness` and `Dtls!Fairness` are weak fairness of a step of the server
and of a step of the client's packet handling: both poll for ever.  The packets
of a TCP connection are queues, so nothing more is needed; in `Dtls`, `net` is a
set, and weak fairness of the whole side suffices because without faults it only
empties or moves on.  Connecting, sending, closing and faults are not fair.
`EchoComes`, `EchoArrives` and `ServerForgets` promise nothing once a fault
happened: the server has no timer of its own, and what the client repeats is the
client's affair.  `EchoComes` promises nothing either once the server has sent a
segment again, which can happen without a fault (section 5).

## 4. Theorems

`tlapm` on each of the eight `...Proofs` modules checks them, from the constants'
assumptions of the modules they extend (`HelloByeAssumption`, `TcpAssumption`,
and so on) and no others than those named here.

**StateMachine**, for every number of objects, connections, states, addresses and
timeouts, every set of effects and batches, wrap of the timeout IDs included:

* `TypeCorrect`: `Spec => []TypeOK`.
* `OwnerCorrect`: `Spec => []SingleOwner`, and `NoDanglingCorrect`:
  `Spec => []NoDangling`, both for programs that satisfy `NoOpenNow`: no function
  that `addState` runs calls `transitionNow`.  No program of the repository does,
  and section 5 shows that the assumption is needed.

`SingleOwner` is not inductive alone.  A new connection takes an address that is
not in `live`; only `NoDangling` says that nobody reaches such an address.  The
other way round, `NoDangling` survives the end of a connection because
`SingleOwner` says nobody else reaches the object that goes.  `IInv` is their
conjunction with `TypeOK` and the fact that no `addState` in progress has a
`transitionNow` to run.  Two lemmas carry the argument: `StoreMoves` (what
`findState` with the store of its result does to the set of places) and
`PublishMoves` (what `add` does), and `MoveKeepsOwner` shows that a change of that
kind preserves `IInv`.

* `OwnershipCorrect`: `Spec => OwnershipRefined`, under `NoOpenNow`: the framework
  implements `ConnectionOwnership`.  Every handler either leaves the places of all
  objects alone (`Still`) or moves one object, which no other thread has, to one
  new place or to none (`OnlyMoves`); a move is a step of the abstract protocol.
* `EndStateGoneCorrect`: `Spec => []EndStateGone`, for any program.  `EndInv` adds
  that an `addState` in progress has left its State in another state: only then may
  `add` publish it.
* `NoLeakCorrect`: `Spec => []NoLeak`, for `NoOpenNow` and `FreshIDs`.  `add` does
  not overwrite, so an entry of the pool that is there already would lose the new
  object.  `FreshInv` says that this cannot be: an ID is opened by one object at a
  time and the pool has no State of it.
* `OneStateCorrect`: `Spec => []OneStatePerConnection`, if besides no object is
  listening: a listening one would make a State of its own for a packet that
  arrives between `addState`'s look into the table and its `add`.

Its timers, for programs of the kind they are made for (`OneTimeout`: a function
that a packet runs sets at most one timeout, not together with `transitionNow` or on
the way to the end state; IDs do not wrap; the embedding program removes no State):

* `ArmedCorrect` and `OnlyArmedCorrect`: `Spec => []ArmedTimeoutPending` and
  `Spec => []OnlyArmedTimeouts`; `TimeoutFindsStateCorrect`:
  `Spec => []TimeoutFindsState`; `PacketInvalidatesCorrect`, an action property:
  `Spec => PacketInvalidatesTimeouts`.  `TimerInv` joins them with `EndInv` and
  `IDsFresh`: the next ID names no timeout of the queue, so a State cannot be taken
  for the owner of an old one.  Section 5 gives, for what `OneTimeout` excludes,
  the run in which the property fails.

Its marks, for functions that are not more severe after a `transitionNow` than
before (`NoLateFree`) and batches that are not empty (`FullBatches`):

* `FreePktCorrect`: `Spec => []FreePktHonoured`, and `ExtraPktsCorrect`:
  `Spec => []ExtraPktsSent`.  `BatchInv` says that the array has a slot and a bit
  for each packet, that the first `inCount` bits up to the current packet are
  those of the functions' calls, and that every later bit in use is send, which
  survives the growth in the middle of a batch.

**PacketBatch**, for every number of packets, every batch size and any number of
growths:

* `PacketTypeCorrect`, `ArrayMemoryCorrect`, `CountsCorrect` and
  `CollectedCorrect`: all four invariants.  The module says where the scan of
  `getSendBufs` finds its `k`-th packet by the rank of its slot (`Rank`,
  `SlotMarked`), and the lemmas about ranks (`RankGrows`, `ScanFinds`, `RankAgrees`,
  `RankRest`) replace the induction over the loop.  The invariant `Agrees` relates
  the array to the history: pointers and bits of the used slots are those of the
  packets in order of entry, and the bits of the unused slots are FALSE.  The last
  part is what the counts need, since `getSendCount` runs over unused slots
  too.

**HelloBye3**, for every number of identities and cookies, losses, copies and
restarts:

* `HelloByeTypeCorrect`: `Spec => []TypeOK`, which includes that a connection is
  never in the client's pool and in its reflector's table at once.  The
  strengthening is `Fresh`: an identity that was not used yet has no State.
* `ClientEndCorrect`: `Spec => []ClientEndHasServerEnd` and `ServerEndCorrect`:
  `Spec => []ServerEndIsProved`.  The inductive invariant `CookieInv` gives every
  packet and every server connection a cause: a client's Hello was opened, a
  client's Bye answers a cookie a client has read, a server's Bye belongs to a good
  end of the server.  Losses, copies, reordering and restarts leave causes alone.

What the cookies do *not* give is visible in the same model: after a copied Hello
the two ends can hold different cookies, and one of them then refuses.
`CookiesAgree` and `NoRefusal` are therefore stated for an undisturbed exchange,
and proved as such:

* `CookiesAgreeCorrect`: `Spec => []CookiesAgree`, and `NoRefusalCorrect`:
  `Spec => NoRefusal`.  Agreement is not inductive: an end takes its peer's cookie
  from a packet, so the packet has to be the right one.  `CalmInv` says, while no
  fault and no restart has happened, that each connection either has no packet
  under way and is over or not begun, or has exactly one (`Alone`), which is the
  one that both ends wait for (`Expected`).  A step replaces that packet by the
  next one of the exchange; the step of one connection leaves the others alone
  (`OthersInOrder`).

**HelloBye3MemPool**, for every number of objects besides:

* `MemImplementsHelloBye3`: `MemSpec => Spec`.  Every step is a step of `HelloBye3`
  or leaves its variables alone, so the guarantees of the exchange carry over
  (`MemClientEndCorrect`, `MemServerEndCorrect`).
* `MemTypeCorrect`, `ObjectsExclusiveCorrect`, `NoObjectLostCorrect`.  The invariant
  `MemInv` joins the three with `TypeOK` and `Fresh` of `HelloBye3`: an object is
  taken for an identity without a State, and `ObjectsExclusive` says that such an
  identity has no object yet.  They assume that a freed mempool goes on working
  or ends the process (`UseClientPool`).

**HelloBye1**, for every number of ports, connections, cookies and faults, and both
kinds of network:

* `ObjectsFitCorrect`: `Spec => []ObjectsFit`, and `GoodEndsAgreeCorrect`:
  `Spec => []GoodEndsAgree`.  The inductive invariant gives each packet and each
  server connection a cause, as in `HelloBye3`; a refused packet has the cause it
  had before (`SendBackType`), wherever it goes.

**TcpServer**, for every segment size, window, payload and number of faults:

* `TakenCorrect`: `Spec => []TakenWasSent`, for clients with options too.  By itself
  this is not inductive: it needs that the peer's FIN carries the last of its
  numbers, which the invariant says of every packet under way (`Sound`).

The others are about the bytes that come back and assume a client without options
(`NoOptions`); section 5 shows that the first of them is false otherwise.  The
lemmas use that the server gives out one number for every byte it takes
(`EchoedOnce`), which holds of one length and not of two.

* `EchoIsPrefixCorrect`: `Spec => []EchoIsPrefix`, and `TcpTypeCorrect`:
  `Spec => []TypeOK`.  `StreamInv` says of each segment, queued, sent or under way
  in an answer, that it carries the bytes its number stands for (`InOrder`,
  `Answers`), and of the client that its next number follows the bytes it has
  (`Accepted`).  The handlers take parts of the queues; `Part` says which by the
  rank of an index in a set, and `RankOnto` (every rank up to the set's
  cardinality is taken, by counting) gives the type of what is left without an
  induction over the queue.
* `CalmNoResetCorrect`: `Spec => []CalmNoReset`.  `CalmInv` says where a calm
  connection is (`Phase`).  While both ends are established (`Exchange`), the
  packets to the server follow each other without a gap (`Chain`), from the number
  it expects to the client's next one; what is under way to the client and what
  waits in `dataToSend` lies in order between what the client has and what the
  server has given out (`Rising`).  The client closes when it has all it sent, so
  nothing lies between the two: no answer is left that it could acknowledge in
  `ack_fin`, which accepts only the acknowledgement of the server's FIN.
* `BytesHeldOnceCorrect`: `Spec => []BytesHeldOnce`, if each window is closed or
  holds all the client sends (`WideWindows`, as in `Tcp.cfg`).  `HeldInv` says that no
  byte is in two segments of a queue (`Single`) or in both queues (`Apart`), that no
  segment reaches behind what the server has given out, and that the client
  acknowledges only what it has (`Offers`).  An acknowledgement, the echo and the
  loop of `runEst` each keep this (`AckHeld`, `EchoHeld`, `LoopHeld`); the order of a
  queue, which `Requeued` turns around, does not matter to it (`Picks`).  That a wide
  window splits no segment needs the sum of a queue's lengths (`BytesFit`): it is the
  number of bytes the queue has, by induction over the queue.  The induction is on a
  set of numbers (`SetInduction`), from the fact that `<` is well-founded on `Nat`.

**Dtls**, for every number of connections, parts of a flight and faults:

* `EstablishedTogetherCorrect` and `ForgottenAfterEchoCorrect`.  The inductive
  invariant says of a last flight under way that its sender serves the session
  (`LastFlight`), of a close_notify that its sender has the echo
  (`CloseAfterEcho`), and that table and engine of a client agree (`ClientOpen`).
  They hold for the engine as modelled.
* `DtlsTypeCorrect`: `Spec => []TypeOK`, with the bound on the engines: at most two
  for a connection, and a second one only when there was a fault.  `OrderInv` has
  two parts.  `Sessioned` counts: the server forgets a connection on a close_notify
  of the client's session; the client never leaves the first session, so a later
  engine is not closed and no third one made.  `InTurn` is about runs without a
  fault: what is under way to the server is what the client has written last, each
  part once and none the server has (`Leaves`), so that nothing is left when the
  server answers, and nothing of a connection comes after it is forgotten.

### Model-checked only

* Liveness (`CallsReturn`, `EveryConnectionEnds`, `EchoComes`, `EchoArrives`,
  `ServerForgets`, `NetworkDrains`): fairness is outside of the prover's reach.
* The TCP server's bytes under a window that splits a segment: `BytesHeldOnce` is
  false there (section 5).
* ENABLED, and with it that a step is possible at all: TLC's deadlock check and the
  liveness properties speak of it on the instances.

Nothing else a run expects to hold is left to TLC alone.

## 5. What is known not to hold

Besides the three runs above.  Where a property of the modules says it, the
configuration that shows it is given as a change of one that is there.

### Framework

* `addState` publishes the State before its `transitionNow` function runs
  (`include/stateMachine.hpp:726`), so the pool can be left with a connection that
  function ended.  `Pool.cfg` with `Removable = {}`,
  `Effects <- EndEffects`, `OpenEffects <- NowOpenEffects`, `Listening = {}`,
  `Batches <- Singles`: `NoDangling`.
* After `transitionNow` to the end state, the destructor looks for the function of a
  State that was removed (`:153`).  `Pool.cfg` with
  `Effects <- NowEndEffects`, `OpenEffects <- NoEffects`, `Removable = {}`, a fourth
  object of data, and no symmetry: `ImmediateStateHasFunction`.
* `pop()` after a timeout function ran removes the timeout it has just set
  (`:823`).  `Timers.cfg` with one connecting and listening object
  (`Listening = {m1}`) and `TimeoutEffects <- RewaitEffects`:
  `QueueHasAllTimeouts`.
* A timeout set in `addState` stays with the object that opened the connection
  (`:802`).  `Sharing.cfg` with `Effects <- EndEffects`,
  `OpenEffects <- WaitOpenEffects`, `Listening = {}`, `Batches <- Singles`,
  `InvalidID = 3`, `Asserts = TRUE`: `TimeoutFindsState`.
* `freePkt` called by a function that `transitionNow` ran comes after the packet was
  marked and has no effect.  The functions of `Sharing`, which checks
  `FreePktHonoured`, call it before (`MoveFreeNow`) or not at all.
* `ConnectionPool::add` keeps the old entry if the ID is in the pool already; the
  new object is lost.  The runs assume `FreshIDs`.
* Timeout IDs wrap after 2^32 timeouts and pass through the value that means
  none.  The runs stop before that and the timer theorems assume it; the other
  theorems do not depend on it.
* A packet can set two timeouts (`setTimeout` twice, or again in a `transitionNow`
  function), but a State names one, so the next packet disarms only that.
  `Timers.cfg` with `Effects <- TwoWaitEffects` and `OnlyArmedTimeouts` alone.

### The exchanges

* After a restart with identities of the old run, the server's leftover
  connection refuses the first Hello of the new client; both then hold nothing
  useful until the identity is used again.  No property says otherwise, since no
  document promises it.
* HelloBye1: the objects of the client and of the server's second state are never
  deleted.  A copied Hello ends the exchange it was copied from.

### TCP

* Option bytes are echoed.  `numBytesReceived` (`src/tcp.cpp:214`) leaves out the
  packet's whole header, `dataLen` (`:269`) is computed after `setOffset(5)` and leaves
  out 20 bytes only.  With options on a segment, an acknowledgement for instance,
  the client gets bytes it never sent, and `seqLocal` advances more than `seqRemote`.
  `Tcp.cfg` with `Options = {0, 1}` and `EchoIsPrefix` alone.  The SYN-ACK carries
  no options, so an ordinary client sends none.
* A segment that is larger than the window is split (`src/tcp.cpp:325-341`): its
  length is overwritten before the rest's is computed from it, and neither part
  keeps a byte.  `Tcp.cfg` with `Windows = {1, 9}`, `MaxFaults = 1` and
  `BytesHeldOnce` alone.
* A loop that sends more than one segment fills the same packet each time; only the
  last one goes out, the others wait for repeated acknowledgements.
* Acknowledgements are counted as repeated when the number stays and the packet's
  own number is larger (`include/tcpConCtlSimple.hpp:16-25`), which is also true of
  packets that carry data and were sent without waiting for the answers.  After
  four or more of them the server sends again what nobody has lost.  Those segments
  are queued ahead of one that was not sent yet, the loop fills one packet with all
  of them, and only the last goes out.  So the echo can stop until the client sends
  more, and a client that closes while such a copy is under way acknowledges it in
  `ack_fin` and is reset.  `Tcp.cfg` with `MSS = 1`, `MaxData = 6`, `Sizes = {1}`,
  `Windows = {1, 9}`, `MaxFaults = 0`, and `calm` without its second conjunct:
  `CalmNoReset`.  `calm` leaves these runs out.
* The comment at `src/tcp.cpp:187-188` says that what was lost is sent again after
  three acknowledgements, but the segment that starts at the acknowledged number
  stays where it is.
* An acknowledgement without payload is answered by one, so after a loss the two
  sides can answer each other for ever.
* A client that closes before it has acknowledged the last answer is reset, since
  `ack_fin` accepts no other acknowledgement than the one of the FIN.
* `ack_fin` waits for a FIN of the peer that `runEst` has taken already: the entry
  of such a connection stays.  Each end leaves the connection object and its
  segments behind.
* The FIN can ride on a segment that is sent again, with a lower number
  (`src/tcp.cpp:364-374`).  A client that has not got the bytes behind that
  segment then takes the FIN for the end of the stream and drops them when they
  come: what it has is a prefix of the echo (`EchoIsPrefix`), but not all of it.

### DTLS

* `RUN_TEARDOWN` is registered and never entered; a connection's engine, BIOs and
  object stay when the table's entry goes.
* A datagram that begins no handshake also makes an engine at the server, which
  waits in `HANDSHAKE` for ever.

## 6. Not modelled

* Registration (`registerFunction`, `registerStartStateID`, ...) happens before the
  first packet and is part of the constants.
* The internals of `dense_hash_map`, `concurrent_hash_map`, the moodycamel queue,
  DPDK and OpenSSL: external.
* Packet contents other than what the control depends on, identification,
  statistics, printing.
* HelloBye2: its control is that of HelloBye3, state by state and refusal by
  refusal.  Each transition replaces and deletes the object of the last state.
* Astraeus: both sides hand every packet to a handshake engine and go to
  `DELETED` when it is done or fails.  The engine (`cryptoProto.hpp`) is a git
  submodule that is not part of the sources, and nothing here tells how many
  messages it exchanges.
* `SpinLock`, which no code of `src` or `include` takes; `uint48` and `uint24`, which
  no handler uses.
* The 32-bit wrap of TCP numbers, and payloads of more than the echo protocol's
  counters hold.
* The pcap backend, Lua wrappers, measurement, benchmarks and examples: pure input
  and output, or drivers.

## 7. Plan

1. Done: `BufArray`, `PacketBatch`, `StateMachine` with `ConnectionOwnership`,
   `HelloBye3`, `HelloBye3MemPool`, `HelloBye1`, `TcpServer`, `Dtls`, and the
   theorems above.
2. Proofs: the runs' invariants and action properties are proved.  Left are weaker
   assumptions: `BytesHeldOnce` for every window that meets the borders of segments,
   and the timer theorems for functions that set more than one timeout.
3. TCP numbers modulo a small power of two, and a client that keeps segments out
   of order.
