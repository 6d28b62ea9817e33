---------------------------- MODULE StateMachine ----------------------------
(***************************************************************************)
(* The framework of include/stateMachine.hpp: any number of StateMachine   *)
(* objects, one per thread, that share one ConnectionPool.                 *)
(*                                                                         *)
(* The state functions belong to the embedding program.  A call of one is  *)
(* modelled by what it does through FunIface: an Effect names the state it *)
(* goes to, whether it used transitionNow, freePkt, getPkt and setTimeout. *)
(* stateData is one token per connection object; the function that sends a *)
(* connection to the end state disposes of it.                             *)
(*                                                                         *)
(* The threads share nothing but the pool, so one step is one packet, one  *)
(* timeout, or one part of addState between two accesses to the pool.      *)
(***************************************************************************)
EXTENDS BufArray

CONSTANTS
    SMs,            \* the StateMachine objects
    Conns,          \* ConnectionIDs
    Unidentified,   \* a packet identify() throws on
    Listening,      \* the objects registerStartStateID was called on
    StateIDs,       \* states of the embedding program
    Start,          \* startStateID
    End,            \* endStateID; every other state has a function
    Data,           \* addresses of connection objects
    NoState, NoConn, NoTimeout, Stay,
    InvalidID,      \* timeoutIDInvalid, the largest timeout ID (2^32 - 1)
    Effects,        \* what state functions do when a packet runs them
    OpenEffects,    \* ... when addState runs them
    TimeoutEffects, \* what timeout functions do
    Batches,        \* the batches threads receive: sequences of packets
    Removable,      \* the IDs the program calls removeState on
    FreshIDs,       \* TRUE: addState is called on unused IDs only
    Asserts,        \* TRUE: built without NDEBUG, as CMakeLists.txt does
    IDsWrap,        \* FALSE: no more than InvalidID timeouts per object
    MaxTime,        \* bound of the clock
    Pool, Nobody    \* owners of a connection object other than threads

State == [data : Data, state : StateIDs, timeoutID : 0..InvalidID]

Effect == [next : StateIDs \cup {Stay}, now : BOOLEAN, free : BOOLEAN,
           get : BOOLEAN, delay : Nat \cup {NoTimeout}]

ASSUME ConstantsAssumption ==
    /\ Listening \subseteq SMs
    /\ Start \in StateIDs /\ End \in StateIDs /\ Start # End
    /\ Unidentified \notin Conns /\ NoConn \notin Conns
    /\ NoState \notin State
    /\ Stay \notin StateIDs /\ NoTimeout \notin Nat
    /\ InvalidID \in Nat \ {0} /\ MaxTime \in Nat
    /\ Pool \notin SMs /\ Nobody \notin SMs /\ Pool # Nobody
    /\ FreshIDs \in BOOLEAN /\ Asserts \in BOOLEAN /\ IDsWrap \in BOOLEAN

ASSUME ProgramAssumption ==
    /\ Effects \subseteq Effect /\ OpenEffects \subseteq Effect
    /\ TimeoutEffects \subseteq Effect
    /\ Removable \subseteq Conns
    /\ Batches \subseteq Seq(Conns \cup {Unidentified})

VARIABLES
    now,               \* steady_clock, read by every thread
    crash,             \* "none", or the assertion that aborted the process
    table,             \* stateTable of each object
    pool,              \* ConnectionPool::newStates
    live,              \* the connection objects nobody disposed of
    timeoutsQ,         \* priority queue of each object, as a set
    timeoutFunctions,  \* timeout ID -> connection, of each object
    curTimeoutID,
    pc,                \* where each thread is
    batch,             \* the BufArray it works on, and the loop index
    opening            \* the local st of addState

vars == <<now, crash, table, pool, live, timeoutsQ, timeoutFunctions,
          curTimeoutID, pc, batch, opening>>

timers == <<timeoutsQ, timeoutFunctions, curTimeoutID>>

Timeout == [time : Nat, timeoutID : 0..InvalidID]

\* inCount is the size at entry; freed collects the packets whose function
\* called freePkt.
BatchOf(ps) ==
    [ba |-> New(ps, TRUE), inCount |-> Len(ps), cur |-> 1, freed |-> {}]

NoBatch == BatchOf(<<>>)

NoOpening == [conn |-> NoConn, st |-> NoState, now |-> FALSE, free |-> FALSE]

Init ==
    /\ now = 0
    /\ crash = "none"
    /\ table = [m \in SMs |-> [c \in Conns |-> NoState]]
    /\ pool = [c \in Conns |-> NoState]
    /\ live = {}
    /\ timeoutsQ = [m \in SMs |-> {}]
    /\ timeoutFunctions = [m \in SMs |-> [i \in 0..InvalidID |-> NoConn]]
    /\ curTimeoutID = [m \in SMs |-> 0]
    /\ pc = [m \in SMs |-> "idle"]
    /\ batch = [m \in SMs |-> NoBatch]
    /\ opening = [m \in SMs |-> NoOpening]

At(m, loc) == crash = "none" /\ pc[m] = loc

-----------------------------------------------------------------------------
(* FunIface                                                                *)

\* Faulty variant for the checks: the constructor's arguments swapped.
NewState_Swapped(s, d) == [data |-> s, state |-> d, timeoutID |-> InvalidID]

NewState(s, d) == [data |-> d, state |-> s, timeoutID |-> InvalidID]

\* state.timeoutID = timeoutIDInvalid, before a function is called.  The faulty
\* variant for the checks leaves it out.
ClearTimeout_Missing(st) == st

ClearTimeout(st) == [st EXCEPT !.timeoutID = InvalidID]

\* The work of one FunIface: the State it refers to, the timers of its
\* StateMachine and the BufArray.
Work(m, st) ==
    [st   |-> st, q |-> timeoutsQ[m], funs |-> timeoutFunctions[m],
     cur  |-> curTimeoutID[m], ba |-> batch[m].ba]

\* curTimeoutID++ in 32 bits.
NextTimeoutID(id) == IF id = InvalidID THEN 0 ELSE id + 1

\* unordered_map::emplace keeps an entry that exists.
Emplace(funs, id, c) == IF funs[id] = NoConn THEN [funs EXCEPT ![id] = c] ELSE funs

SetTimeout(w, c, delay) ==
    [w EXCEPT !.st.timeoutID = w.cur,
              !.q    = @ \cup {[time |-> now + delay, timeoutID |-> w.cur]},
              !.funs = Emplace(@, w.cur, c),
              !.cur  = NextTimeoutID(@)]

\* One call of a state function or timeout function with effect e.
Call(w, c, e) ==
    LET moved == [w EXCEPT !.st.state = IF e.next = Stay THEN @ ELSE e.next,
                           !.ba = IF e.get THEN AddPkt(@, Unidentified) ELSE @]
    IN  IF e.delay = NoTimeout THEN moved ELSE SetTimeout(moved, c, e.delay)

\* Bound on the number of timeouts, unless the counter may wrap.
Allowed(m, e, n) ==
    e.delay # NoTimeout => IDsWrap \/ curTimeoutID[m] + n < InvalidID

\* ~FunIface(): the packet gets the mark of this FunIface ...
Mark(ba, idx, free) ==
    IF free THEN MarkDropPkt(ba, idx) ELSE MarkSendPkt(ba, idx)

\* ... then the function of the state transitionNow chose runs.  Its own
\* freePkt and transitionNow only set members of the dying FunIface.
Immediate(w, c, e1, e2) == IF e1.now THEN Call(w, c, e2) ELSE w

SaveTimers(m, w) ==
    /\ timeoutsQ' = [timeoutsQ EXCEPT ![m] = w.q]
    /\ timeoutFunctions' = [timeoutFunctions EXCEPT ![m] = w.funs]
    /\ curTimeoutID' = [curTimeoutID EXCEPT ![m] = w.cur]

-----------------------------------------------------------------------------
(* ConnectionPool and findState                                            *)

\* Faulty variants for the checks: the state is kept out of an empty slot, and
\* the claimed entry stays in the pool.
PoolAdd_Inverted(c, st) == IF pool[c] # NoState THEN [pool EXCEPT ![c] = st] ELSE pool

PoolErase_Missing(c) == pool

\* add(): tbb's insert keeps an entry that exists.
PoolAdd(c, st) == IF pool[c] = NoState THEN [pool EXCEPT ![c] = st] ELSE pool

\* findAndErase() when the entry exists: the pool without it.
PoolErase(c) == [pool EXCEPT ![c] = NoState]

\* The ways findState can return a state: from the table, from the pool, or a
\* new one on a listening object.  The empty set is stateTable.end().
FindState(m, c) ==
    IF table[m][c] # NoState
    THEN {[st |-> table[m][c], pool |-> pool, live |-> live]}
    ELSE IF pool[c] # NoState
    THEN {[st |-> pool[c], pool |-> PoolErase(c), live |-> live]}
    ELSE IF m \in Listening
    THEN {[st |-> NewState(Start, d), pool |-> pool, live |-> live \cup {d}] :
             d \in Data \ live}
    ELSE {}

\* Whether findState returns stateTable.end().
Unknown(m, c) ==
    table[m][c] = NoState /\ pool[c] = NoState /\ m \notin Listening

\* Faulty variant for the checks: nobody calls removeState in the end state.
Store_KeepEntry(m, c, f, st) ==
    /\ table' = [table EXCEPT ![m][c] = st]
    /\ live' = IF st.state = End THEN f.live \ {st.data} ELSE f.live
    /\ pool' = f.pool

\* The entry of c after its function left it as st; removeState() in the end
\* state, where the function has disposed of the connection object.
Store(m, c, f, st) ==
    /\ table' = [table EXCEPT ![m][c] = IF st.state = End THEN NoState ELSE st]
    /\ live' = IF st.state = End THEN f.live \ {st.data} ELSE f.live
    /\ pool' = f.pool

-----------------------------------------------------------------------------
(* runPktBatch                                                             *)

BeginBatch(m, ps) ==
    /\ At(m, "idle")
    /\ batch' = [batch EXCEPT ![m] = BatchOf(ps)]
    /\ pc' = [pc EXCEPT ![m] = "timeouts"]
    /\ UNCHANGED <<now, crash, table, pool, live, timers, opening>>

\* priority_queue::top() under Timeout::Compare: operator() is a.time < b.time,
\* so the entry with the largest time; any of them on a tie.
Tops(q) == {t \in q : \A u \in q : u.time <= t.time}

Due(m) == {t \in Tops(timeoutsQ[m]) : t.time <= now}

\* Faulty variant for the checks: continue without pop.
SkipTimeout_NoPop(m) ==
    /\ At(m, "timeouts")
    /\ \E t \in Due(m) : timeoutFunctions[m][t.timeoutID] = NoConn
    /\ UNCHANGED vars

\* The top is due but its ID is not in timeoutFunctions: pop and continue.
SkipTimeout(m) ==
    /\ At(m, "timeouts")
    /\ \E t \in Due(m) :
        /\ timeoutFunctions[m][t.timeoutID] = NoConn
        /\ timeoutsQ' = [timeoutsQ EXCEPT ![m] = @ \ {t}]
    /\ UNCHANGED <<now, crash, table, pool, live, timeoutFunctions,
                   curTimeoutID, pc, batch, opening>>

\* assert(stateIt != stateTable.end()): nothing is known of the connection.
TimeoutWithoutState(m) ==
    /\ At(m, "timeouts")
    /\ \E t \in Due(m) :
        LET c == timeoutFunctions[m][t.timeoutID]
        IN  c # NoConn /\ Unknown(m, c)
    /\ crash' = "nostate"
    /\ UNCHANGED <<now, table, pool, live, timers, pc, batch, opening>>

\* The FunIface of a timeout has packet index 2^32 - 1, which is never below
\* numBufs: the assertion in its destructor's mark fails.  Without assertions
\* the mark is a write far outside of the mask, which may go unnoticed; a
\* transitionNow then takes the packet from outside of the array.
MarkOutOfRange(e) ==
    IF Asserts \/ e.now THEN {"mark"} ELSE {"mark", "none"}

\* The entry is cleaned up with a pop() after the function ran: t itself, unless
\* the function pushed a later timeout, which is on top now.
PopAfterCall(q, t) ==
    {q \ {u} : u \in IF t \in Tops(q) THEN {t} ELSE Tops(q)}

\* The work once the timeout function has returned with effect e.
RunTimeout(m, c, st, e) == Call(Work(m, ClearTimeout(st)), c, e)

FireTimeout(m) ==
    /\ At(m, "timeouts")
    /\ \E t \in Due(m), e \in TimeoutEffects :
        LET id == t.timeoutID
            c  == timeoutFunctions[m][id]
        IN  /\ c # NoConn
            /\ Allowed(m, e, 1)
            /\ \E f \in FindState(m, c) :
                LET w == RunTimeout(m, c, f.st, e)
                IN  /\ Store(m, c, f, w.st)
                    /\ \E q \in PopAfterCall(w.q, t) :
                         SaveTimers(m, [w EXCEPT !.q = q, !.funs[id] = NoConn])
                    /\ batch' = [batch EXCEPT ![m].ba = w.ba]
                    /\ crash' \in MarkOutOfRange(e)
    /\ UNCHANGED <<now, pc, opening>>

\* The queue is empty or its top is in the future: the packets are next.
EndTimeouts(m) ==
    /\ At(m, "timeouts")
    /\ Due(m) = {}
    /\ pc' = [pc EXCEPT ![m] = "packets"]
    /\ UNCHANGED <<now, crash, table, pool, live, timers, batch, opening>>

CurrentPkt(m) == batch[m].ba.pkts[batch[m].cur]

\* Faulty variant for the checks: the size is read when the loop tests it.
MorePkts_Growing(m) == batch[m].cur <= GetTotalCount(batch[m].ba)

MorePkts(m) == batch[m].cur <= batch[m].inCount

\* runPkt on a packet identify() throws on, or whose connection is unknown.
DropPkt(m) ==
    /\ At(m, "packets") /\ MorePkts(m)
    /\ CurrentPkt(m) \in Conns => Unknown(m, CurrentPkt(m))
    /\ batch' = [batch EXCEPT ![m].ba  = MarkDropPkt(@, batch[m].cur),
                              ![m].cur = @ + 1]
    /\ UNCHANGED <<now, crash, table, pool, live, timers, pc, opening>>

\* Faulty variant for the checks: only the State forgets the timeout.
Disarm_Missing(funs, st) == funs

\* "Invalidate any previous timeouts": the function of the one the State names.
Disarm(funs, st) ==
    IF st.timeoutID # InvalidID THEN [funs EXCEPT ![st.timeoutID] = NoConn]
                                ELSE funs

\* The work once the function of the state has returned with effect e and its
\* FunIface has marked the packet.
RunFunction(m, c, st, e) ==
    LET w == Call([Work(m, ClearTimeout(st)) EXCEPT !.funs = Disarm(@, st)], c, e)
    IN  [w EXCEPT !.ba = Mark(@, batch[m].cur, e.free)]

\* removeState ran before the destructor, which then finds no function for the
\* cleared State.
NoFunction(w, e) == w.st.state = End /\ e.now

\* runPkt on a packet of a known or accepted connection; e2 is the effect of the
\* function transitionNow chose.
RunPkt(m) ==
    /\ At(m, "packets") /\ MorePkts(m)
    /\ CurrentPkt(m) \in Conns
    /\ \E e1, e2 \in Effects, f \in FindState(m, CurrentPkt(m)) :
        LET c    == CurrentPkt(m)
            cur  == batch[m].cur
            w1   == RunFunction(m, c, f.st, e1)
            dead == NoFunction(w1, e1)
            w2   == IF dead THEN w1 ELSE Immediate(w1, c, e1, e2)
        IN  /\ ~e1.now => e2 = e1
            /\ Allowed(m, e1, 1) /\ Allowed(m, e2, 2)
            /\ Store(m, c, f, w2.st)
            /\ SaveTimers(m, w2)
            /\ crash' = IF dead THEN "nofun" ELSE "none"
            /\ batch' = [batch EXCEPT
                 ![m].ba    = w2.ba,
                 ![m].cur   = @ + 1,
                 ![m].freed = IF e1.free \/ (e1.now /\ ~dead /\ e2.free)
                              THEN @ \cup {cur} ELSE @]
    /\ UNCHANGED <<now, pc, opening>>

EndBatch(m) ==
    /\ At(m, "packets") /\ ~MorePkts(m)
    /\ batch' = [batch EXCEPT ![m] = NoBatch]
    /\ pc' = [pc EXCEPT ![m] = "idle"]
    /\ UNCHANGED <<now, crash, table, pool, live, timers, opening>>

-----------------------------------------------------------------------------
(* addState, addStateNoFun, removeState                                    *)

Unused(c) ==
    /\ pool[c] = NoState
    /\ \A n \in SMs : table[n][c] = NoState /\ opening[n].conn # c

\* addState up to connPool->add: the function runs on the local copy st with
\* the packet the caller allocated.
OpenRun(m, c) ==
    /\ At(m, "idle")
    /\ FreshIDs => Unused(c)
    /\ \E d \in Data \ live, s \in StateIDs \ {End}, e \in OpenEffects :
        LET w == Call([Work(m, NewState(s, d)) EXCEPT !.ba = New(<<c>>, TRUE)], c, e)
        IN  /\ Allowed(m, e, 1)
            /\ SaveTimers(m, w)
            /\ IF w.st.state = End
               THEN \* return; the destructor looks for a function of End
                    /\ crash' = IF e.now THEN "nofun" ELSE "none"
                    /\ UNCHANGED <<live, pc, batch, opening>>
               ELSE /\ opening' = [opening EXCEPT ![m] =
                         [conn |-> c, st |-> w.st, now |-> e.now, free |-> e.free]]
                    /\ batch' = [batch EXCEPT ![m] = [BatchOf(<<c>>) EXCEPT !.ba = w.ba]]
                    /\ live' = live \cup {d}
                    /\ pc' = [pc EXCEPT ![m] = "publish"]
                    /\ UNCHANGED crash
    /\ UNCHANGED <<now, table, pool>>

\* connPool->add(id, st)
OpenPublish(m) ==
    /\ At(m, "publish")
    /\ pool' = PoolAdd(opening[m].conn, opening[m].st)
    /\ pc' = [pc EXCEPT ![m] = "return"]
    /\ UNCHANGED <<now, crash, table, live, timers, batch, opening>>

\* The FunIface of addState dies after the pool got its copy of st: whatever a
\* transitionNow still runs works on the local copy, and removeState on the
\* table of this object.  The packet leaves once addState returned.
OpenReturn(m) ==
    /\ At(m, "return")
    /\ \E e \in OpenEffects :
        LET o == opening[m]
            w == Immediate([Work(m, o.st) EXCEPT !.ba = Mark(@, 1, o.free)], o.conn, o, e)
            ended == o.now /\ w.st.state = End
        IN  /\ o.now => Allowed(m, e, 1)
            /\ SaveTimers(m, w)
            /\ table' = IF ended THEN [table EXCEPT ![m][o.conn] = NoState] ELSE table
            /\ live' = IF ended THEN live \ {o.st.data} ELSE live
    /\ opening' = [opening EXCEPT ![m] = NoOpening]
    /\ batch' = [batch EXCEPT ![m] = NoBatch]
    /\ pc' = [pc EXCEPT ![m] = "idle"]
    /\ UNCHANGED <<now, crash, pool>>

\* addStateNoFun with a state other than End, for which it does nothing.
OpenNoFun(m, c) ==
    /\ At(m, "idle")
    /\ FreshIDs => Unused(c)
    /\ \E d \in Data \ live, s \in StateIDs \ {End} :
        /\ pool' = PoolAdd(c, NewState(s, d))
        /\ live' = live \cup {d}
    /\ UNCHANGED <<now, crash, table, timers, pc, batch, opening>>

\* removeState by the program, which disposes of the connection object.
RemoveState(m, c) ==
    /\ At(m, "idle")
    /\ table[m][c] # NoState
    /\ live' = live \ {table[m][c].data}
    /\ table' = [table EXCEPT ![m][c] = NoState]
    /\ UNCHANGED <<now, crash, pool, timers, pc, batch, opening>>

Tick ==
    /\ crash = "none"
    /\ now < MaxTime
    /\ now' = now + 1
    /\ UNCHANGED <<crash, table, pool, live, timers, pc, batch, opening>>

-----------------------------------------------------------------------------

\* The steps a call that was begun takes on its own.
Continue(m) ==
    \/ SkipTimeout(m)
    \/ TimeoutWithoutState(m)
    \/ FireTimeout(m)
    \/ EndTimeouts(m)
    \/ DropPkt(m)
    \/ RunPkt(m)
    \/ EndBatch(m)
    \/ OpenPublish(m)
    \/ OpenReturn(m)

Next ==
    \/ \E m \in SMs : Continue(m)
    \/ \E m \in SMs, ps \in Batches : BeginBatch(m, ps)
    \/ \E m \in SMs, c \in Conns : OpenRun(m, c)
    \/ \E m \in SMs, c \in Conns : OpenNoFun(m, c)
    \/ \E m \in SMs, c \in Removable : RemoveState(m, c)
    \/ Tick

Spec == Init /\ [][Next]_vars

\* A thread inside of a call keeps running.
Fairness == \A m \in SMs : WF_vars(Continue(m))

FairSpec == Spec /\ Fairness

-----------------------------------------------------------------------------
(* Properties                                                              *)

StateOrNone == State \cup {NoState}

Opening == [conn : Conns, st : State, now : BOOLEAN, free : BOOLEAN] \cup {NoOpening}

\* The types of the members of StateMachine and ConnectionPool, and that a thread
\* has a local st exactly while it is inside of addState.  (The BufArray of a
\* batch is typed in PacketBatch.)
TypeOK ==
    /\ now \in Nat
    /\ crash \in {"none", "mark", "nostate", "nofun"}
    /\ table \in [SMs -> [Conns -> StateOrNone]]
    /\ pool \in [Conns -> StateOrNone]
    /\ live \subseteq Data
    /\ timeoutsQ \in [SMs -> SUBSET Timeout]
    /\ timeoutFunctions \in [SMs -> [0..InvalidID -> Conns \cup {NoConn}]]
    /\ curTimeoutID \in [SMs -> 0..InvalidID]
    /\ pc \in [SMs -> {"idle", "timeouts", "packets", "publish", "return"}]
    /\ opening \in [SMs -> Opening]
    /\ \A m \in SMs : pc[m] \in {"publish", "return"} <=> opening[m] # NoOpening

\* The places a connection object is reached from: a stateTable, the pool, and an
\* addState that still works on its local st.
InTable(m, c, d) == table[m][c] # NoState /\ table[m][c].data = d

InPool(c, d) == pool[c] # NoState /\ pool[c].data = d

InHand(m) == pc[m] = "publish" \/ (pc[m] = "return" /\ opening[m].now)

Opens(m, d) == InHand(m) /\ opening[m].st.data = d

Holds(m, d) == (\E c \in Conns : InTable(m, c, d)) \/ Opens(m, d)

Shared(d) == \E c \in Conns : InPool(c, d)

\* No two places reach the same stateData: not two threads, not two connections
\* of a thread, and no thread together with the pool.  findAndErase hands a
\* published state to exactly one object, whatever the order in which packets of
\* the connection arrive at the threads.
SingleOwner ==
    \A d \in Data, m, n \in SMs, c, k \in Conns :
        /\ InTable(m, c, d) /\ InTable(n, k, d) => m = n /\ c = k
        /\ InPool(c, d) /\ InPool(k, d) => c = k
        /\ Opens(m, d) /\ Opens(n, d) => m = n
        /\ ~(InTable(m, c, d) /\ InPool(k, d))
        /\ ~(InTable(m, c, d) /\ Opens(n, d))
        /\ ~(InPool(c, d) /\ Opens(m, d))

\* No table, pool entry or addState refers to a connection object that was
\* disposed of at the end state.
NoDangling ==
    \A d \in Data : (Shared(d) \/ \E m \in SMs : Holds(m, d)) => d \in live

\* Every connection object that was not disposed of can still be reached: none is
\* dropped between addState, the pool and the table of the object that claims it.
NoLeak ==
    \A d \in live : Shared(d) \/ \E m \in SMs : Holds(m, d)

\* With IDs that are not reused, a connection opened by one object and claimed by
\* another has one State in the whole process: the pool, one table, or one
\* addState in progress.  (Objects that listen accept an ID each on their own.)
Places(c) ==
    {m \in SMs : table[m][c] # NoState}
        \cup {m \in SMs : InHand(m) /\ opening[m].conn = c}
        \cup (IF pool[c] # NoState THEN {Pool} ELSE {})

OneStatePerConnection == \A c \in Conns : Cardinality(Places(c)) <= 1

\* "If a connections reaches this id, it will be destroyed": no table and no pool
\* entry keeps a connection in the end state, whichever of the four checks
\* (runPkt, destructor, timeout, addState) had to notice it.
EndStateGone ==
    \A c \in Conns :
        /\ pool[c] # NoState => pool[c].state # End
        /\ \A m \in SMs : table[m][c] # NoState => table[m][c].state # End

\* "Free the packet after the batch is processed, do not send it": a packet whose
\* function called freePkt is not handed out for sending.
FreePktHonoured ==
    \A m \in SMs : \A i \in batch[m].freed : ~batch[m].ba.sendMask[i]

\* "this buffer will be sent": the packets getPkt added to a batch are handed out
\* for sending and are not run through the state machine with the batch.
ExtraPktsSent ==
    \A m \in SMs : \A i \in (batch[m].inCount + 1)..batch[m].ba.numBufs :
        batch[m].ba.sendMask[i]

\* A connection whose State names a timeout has it in timeoutFunctions and still
\* in timeoutsQ, so it will go off unless a packet comes first.
ArmedTimeoutPending ==
    \A m \in SMs, c \in Conns :
        table[m][c] # NoState /\ table[m][c].timeoutID # InvalidID =>
            /\ timeoutFunctions[m][table[m][c].timeoutID] = c
            /\ \E t \in timeoutsQ[m] : t.timeoutID = table[m][c].timeoutID

\* Every function in timeoutFunctions is that of the one timeout its connection
\* is waiting for, and the connection is in the table: no timeout of an earlier
\* packet, of a removed connection or of another connection's ID can fire.
OnlyArmedTimeouts ==
    \A m \in SMs : \A id \in 0..InvalidID :
        LET c == timeoutFunctions[m][id]
        IN  c # NoConn => table[m][c] # NoState /\ table[m][c].timeoutID = id

\* The comment on timeoutsQ, "This contains all the timeouts": a timeout that is
\* valid (it has a function) is in the queue.
QueueHasAllTimeouts ==
    \A m \in SMs : \A id \in 0..InvalidID :
        timeoutFunctions[m][id] # NoConn =>
            \E t \in timeoutsQ[m] : t.timeoutID = id

\* "Invalidate any previous timeouts": once a packet of a connection has run, the
\* only timeouts of the connection that are valid were set for that packet.
PacketInvalidatesTimeouts ==
    [][\A m \in SMs :
         (RunPkt(m) /\ crash' = "none") =>
            \A id \in 0..InvalidID :
                /\ timeoutFunctions[m][id] = CurrentPkt(m)
                /\ timeoutFunctions'[m][id] = CurrentPkt(m)
                => \E t \in timeoutsQ'[m] \ timeoutsQ[m] : t.timeoutID = id]_vars

\* "Make sure, that the nearest timeout is the first one": when runPktBatch turns
\* to the packets, no valid timeout that is due is left waiting.
DueTimeoutsRunFirst ==
    [][\A m \in SMs :
         EndTimeouts(m) =>
            \A t \in timeoutsQ[m] :
                t.time <= now => timeoutFunctions[m][t.timeoutID] = NoConn]_vars

\* assert(pktIdx < numBufs) in the mark a FunIface makes when it is destroyed.
MarksInRange == crash # "mark"

\* assert(stateIt != stateTable.end()) for the connection of a timeout.
TimeoutFindsState == crash # "nostate"

\* ~FunIface: "We are not in the endstate - checked by runPkt", and the assertion
\* that the state has a function.
ImmediateStateHasFunction == crash # "nofun"

\* A call of runPktBatch or addState returns (or has aborted the process): the
\* timeout loop does not go on for ever.
CallsReturn == \A m \in SMs : pc[m] # "idle" ~> (pc[m] = "idle" \/ crash # "none")

-----------------------------------------------------------------------------
(* The promise of the pool                                                 *)

OwnerOf(d) ==
    IF \E m \in SMs : Holds(m, d) THEN CHOOSE m \in SMs : Holds(m, d)
    ELSE IF Shared(d) THEN Pool
    ELSE Nobody

Ownership == INSTANCE ConnectionOwnership WITH
                Threads <- SMs, Objects <- Data,
                owner <- [d \in Data |-> OwnerOf(d)]

\* Every step of the framework is a step of the abstract pool protocol: an object
\* never moves from one thread to another except through the pool.
OwnershipRefined == Ownership!Spec

=============================================================================
