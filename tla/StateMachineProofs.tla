------------------------- MODULE StateMachineProofs -------------------------
(***************************************************************************)
(* Theorems of the framework, for every number of objects, connections and *)
(* connection objects and for every set of effects of the state functions. *)
(***************************************************************************)
EXTENDS StateMachine, FiniteSetTheorems, TLAPS

USE ConstantsAssumption

\* What a FunIface works on: a State and the timers of its object.
WorkOn(b) ==
    [st : State, q : SUBSET Timeout, funs : [0..InvalidID -> Conns \cup {NoConn}],
     cur : 0..InvalidID, ba : {b}]

IsWork(w) == w \in WorkOn(w.ba)

LEMMA WorkType ==
    ASSUME TypeOK, NEW m \in SMs, NEW st \in State
    PROVE  IsWork(Work(m, st)) /\ Work(m, st).st = st
BY DEF TypeOK, IsWork, WorkOn, Work

LEMMA NewStateType ==
    ASSUME NEW s \in StateIDs, NEW d \in Data
    PROVE  NewState(s, d) \in State /\ NewState(s, d).data = d
BY DEF NewState, State

LEMMA ClearTimeoutType ==
    ASSUME NEW st \in State
    PROVE  ClearTimeout(st) \in State /\ ClearTimeout(st).data = st.data
BY DEF ClearTimeout, State

LEMMA NextTimeoutIDType ==
    ASSUME NEW id \in 0..InvalidID
    PROVE  NextTimeoutID(id) \in 0..InvalidID
BY DEF NextTimeoutID

LEMMA SetTimeoutType ==
    ASSUME now \in Nat, NEW w, IsWork(w), NEW c \in Conns, NEW delay \in Nat
    PROVE  /\ IsWork(SetTimeout(w, c, delay))
           /\ SetTimeout(w, c, delay).st.data = w.st.data
<1> DEFINE t    == [time |-> now + delay, timeoutID |-> w.cur]
           funs == Emplace(w.funs, w.cur, c)
           cur  == NextTimeoutID(w.cur)
           x    == [w EXCEPT !.st.timeoutID = w.cur, !.q = @ \cup {t},
                             !.funs = funs, !.cur = cur]
<1>1. w.cur \in 0..InvalidID /\ w.funs \in [0..InvalidID -> Conns \cup {NoConn}]
    BY DEF IsWork, WorkOn
<1>2. t \in Timeout
    BY <1>1 DEF Timeout
<1>3. funs \in [0..InvalidID -> Conns \cup {NoConn}]
    BY <1>1 DEF Emplace
<1>4. cur \in 0..InvalidID
    BY <1>1, NextTimeoutIDType
<1>5. SetTimeout(w, c, delay) = x
    BY DEF SetTimeout, IsWork, WorkOn
<1>6. IsWork(x) /\ x.st.data = w.st.data
  <2> HIDE DEF t, funs, cur
  <2> QED BY <1>1, <1>2, <1>3, <1>4 DEF IsWork, WorkOn, State
<1> QED
    BY <1>5, <1>6

LEMMA CallType ==
    ASSUME now \in Nat, NEW w, IsWork(w), NEW c \in Conns, NEW e \in Effect
    PROVE  IsWork(Call(w, c, e)) /\ Call(w, c, e).st.data = w.st.data
<1> DEFINE moved == [w EXCEPT !.st.state = IF e.next = Stay THEN @ ELSE e.next,
                              !.ba = IF e.get THEN AddPkt(@, Unidentified) ELSE @]
<1>1. IsWork(moved) /\ moved.st.data = w.st.data
    BY DEF IsWork, WorkOn, State, Effect
<1>2. Call(w, c, e) = IF e.delay = NoTimeout THEN moved ELSE SetTimeout(moved, c, e.delay)
    BY DEF Call
<1>3. e.delay # NoTimeout => e.delay \in Nat
    BY DEF Effect
<1> QED
  <2> HIDE DEF moved
  <2> QED BY <1>1, <1>2, <1>3, SetTimeoutType

LEMMA ImmediateType ==
    ASSUME now \in Nat, NEW w, IsWork(w), NEW c \in Conns,
           NEW e1 \in Effect, NEW e2 \in Effect
    PROVE  IsWork(Immediate(w, c, e1, e2)) /\ Immediate(w, c, e1, e2).st.data = w.st.data
BY CallType DEF Immediate

LEMMA FindStateType ==
    ASSUME TypeOK, NEW m \in SMs, NEW c \in Conns, NEW f \in FindState(m, c)
    PROVE  /\ f.st \in State
           /\ f.pool \in [Conns -> StateOrNone]
           /\ f.live \subseteq Data
<1>1. CASE table[m][c] # NoState
  <2>1. f = [st |-> table[m][c], pool |-> pool, live |-> live]
      BY <1>1 DEF FindState
  <2> QED
      BY <1>1, <2>1 DEF TypeOK, StateOrNone
<1>2. CASE table[m][c] = NoState /\ pool[c] # NoState
  <2>1. f = [st |-> pool[c], pool |-> PoolErase(c), live |-> live]
      BY <1>2 DEF FindState
  <2> QED
      BY <1>2, <2>1 DEF TypeOK, StateOrNone, PoolErase
<1>3. CASE table[m][c] = NoState /\ pool[c] = NoState
  <2>1. PICK d \in Data \ live :
            f = [st |-> NewState(Start, d), pool |-> pool, live |-> live \cup {d}]
      BY <1>3 DEF FindState
  <2>2. NewState(Start, d) \in State
      BY NewStateType
  <2> QED
      BY <2>1, <2>2 DEF TypeOK
<1> QED
    BY <1>1, <1>2, <1>3

LEMMA RunTimeoutType ==
    ASSUME TypeOK, NEW m \in SMs, NEW c \in Conns, NEW st \in State, NEW e \in Effect
    PROVE  /\ IsWork(RunTimeout(m, c, st, e))
           /\ RunTimeout(m, c, st, e).st.data = st.data
<1>1. ClearTimeout(st) \in State /\ ClearTimeout(st).data = st.data
    BY ClearTimeoutType
<1>2. IsWork(Work(m, ClearTimeout(st))) /\ Work(m, ClearTimeout(st)).st.data = st.data
    BY <1>1, WorkType
<1> QED
    BY <1>2, CallType DEF RunTimeout, TypeOK

LEMMA RunFunctionType ==
    ASSUME TypeOK, NEW m \in SMs, NEW c \in Conns, NEW st \in State, NEW e \in Effect
    PROVE  /\ IsWork(RunFunction(m, c, st, e))
           /\ RunFunction(m, c, st, e).st.data = st.data
<1> DEFINE found == Work(m, ClearTimeout(st))
           disarmed == [found EXCEPT !.funs = Disarm(@, st)]
<1>1. ClearTimeout(st) \in State /\ ClearTimeout(st).data = st.data
    BY ClearTimeoutType
<1>2. IsWork(found) /\ found.st.data = st.data
    BY <1>1, WorkType
<1>3. IsWork(disarmed) /\ disarmed.st.data = st.data
  <2> HIDE DEF found
  <2> QED BY <1>2 DEF IsWork, WorkOn, Disarm, State
<1>4. IsWork(Call(disarmed, c, e)) /\ Call(disarmed, c, e).st.data = disarmed.st.data
  <2> HIDE DEF disarmed
  <2> QED BY <1>3, CallType DEF TypeOK
<1>5. PICK w, a : w = Call(disarmed, c, e) /\ a = Mark(w.ba, batch[m].cur, e.free)
    OBVIOUS
<1>6. RunFunction(m, c, st, e) = [w EXCEPT !.ba = a]
    BY <1>5 DEF RunFunction
<1>7. IsWork([w EXCEPT !.ba = a]) /\ [w EXCEPT !.ba = a].st = w.st
  <2>1. w \in WorkOn(w.ba)
      BY <1>4, <1>5 DEF IsWork
  <2> QED
      BY <2>1 DEF IsWork, WorkOn
<1> QED
    BY <1>3, <1>4, <1>5, <1>6, <1>7

\* The conjuncts of TypeOK about the timers, the only ones SaveTimers disturbs.
TimersTyped ==
    /\ timeoutsQ \in [SMs -> SUBSET Timeout]
    /\ timeoutFunctions \in [SMs -> [0..InvalidID -> Conns \cup {NoConn}]]
    /\ curTimeoutID \in [SMs -> 0..InvalidID]

LEMMA SaveTimersType ==
    ASSUME TypeOK, NEW m \in SMs, NEW w, IsWork(w), SaveTimers(m, w)
    PROVE  TimersTyped'
BY DEF TypeOK, TimersTyped, SaveTimers, IsWork, WorkOn

\* Store is the only way runPkt and a timeout change the table, the pool and
\* the connection objects.
LEMMA StoreType ==
    ASSUME TypeOK, NEW m \in SMs, NEW c \in Conns, NEW f \in FindState(m, c),
           NEW st \in State, Store(m, c, f, st)
    PROVE  /\ table' \in [SMs -> [Conns -> StateOrNone]]
           /\ pool' \in [Conns -> StateOrNone]
           /\ live' \subseteq Data
<1>1. f.pool \in [Conns -> StateOrNone] /\ f.live \subseteq Data
    BY FindStateType
<1>2. (IF st.state = End THEN NoState ELSE st) \in StateOrNone
    BY DEF StateOrNone
<1> QED
    BY <1>1, <1>2 DEF Store, TypeOK

LEMMA PoolAddType ==
    ASSUME TypeOK, NEW c \in Conns, NEW st \in State
    PROVE  PoolAdd(c, st) \in [Conns -> StateOrNone]
BY DEF TypeOK, PoolAdd, StateOrNone

\* The members of StateMachine and ConnectionPool keep their types, and a thread
\* has a local st exactly while it is inside of addState.
LEMMA TypeStep == TypeOK /\ [Next]_vars => TypeOK'
<1> SUFFICES ASSUME TypeOK, [Next]_vars PROVE TypeOK'
    OBVIOUS
<1> USE ProgramAssumption
<1>1. CASE UNCHANGED vars
    BY <1>1 DEF TypeOK, vars, timers, Opening, StateOrNone
<1>2. ASSUME NEW m \in SMs, SkipTimeout(m) PROVE TypeOK'
    BY <1>2 DEF SkipTimeout, TypeOK
<1>3. ASSUME NEW m \in SMs, TimeoutWithoutState(m) PROVE TypeOK'
    BY <1>3 DEF TimeoutWithoutState, TypeOK, timers
<1>4. ASSUME NEW m \in SMs, FireTimeout(m) PROVE TypeOK'
  <2>1. PICK t \in Due(m), e \in TimeoutEffects :
            LET id == t.timeoutID
                c  == timeoutFunctions[m][id]
            IN  /\ c # NoConn
                /\ \E f \in FindState(m, c) :
                    LET w == RunTimeout(m, c, f.st, e)
                    IN  /\ Store(m, c, f, w.st)
                        /\ \E q \in PopAfterCall(w.q, t) :
                             SaveTimers(m, [w EXCEPT !.q = q, !.funs[id] = NoConn])
                        /\ crash' \in MarkOutOfRange(e)
      BY <1>4 DEF FireTimeout
  <2> DEFINE id == t.timeoutID
             c  == timeoutFunctions[m][id]
  <2>2. id \in 0..InvalidID /\ c \in Conns
      BY <2>1 DEF Due, Tops, TypeOK, Timeout
  <2>3. PICK f \in FindState(m, c) :
            LET w == RunTimeout(m, c, f.st, e)
            IN  /\ Store(m, c, f, w.st)
                /\ \E q \in PopAfterCall(w.q, t) :
                     SaveTimers(m, [w EXCEPT !.q = q, !.funs[id] = NoConn])
      BY <2>1
  <2> DEFINE w == RunTimeout(m, c, f.st, e)
  <2>4. IsWork(w)
    <3>1. f.st \in State /\ e \in Effect
        BY <2>2, FindStateType
    <3> QED
        BY <2>2, <3>1, RunTimeoutType
  <2>5. PICK q \in PopAfterCall(w.q, t) :
            SaveTimers(m, [w EXCEPT !.q = q, !.funs[id] = NoConn])
      BY <2>3
  <2>6. q \in SUBSET Timeout
      BY <2>4, <2>5 DEF PopAfterCall, IsWork, WorkOn
  <2> DEFINE v == [w EXCEPT !.q = q, !.funs[id] = NoConn]
  <2>7. IsWork(v)
    <3> HIDE DEF w, id
    <3> QED BY <2>2, <2>4, <2>6 DEF IsWork, WorkOn
  <2>8. TimersTyped'
    <3> HIDE DEF v
    <3> QED BY <2>5, <2>7, SaveTimersType DEF v
  <2>9. /\ table' \in [SMs -> [Conns -> StateOrNone]]
        /\ pool' \in [Conns -> StateOrNone]
        /\ live' \subseteq Data
    <3>1. w.st \in State /\ Store(m, c, f, w.st)
        BY <2>3, <2>4 DEF IsWork, WorkOn
    <3> HIDE DEF w, c
    <3> QED BY <2>2, <3>1, StoreType
  <2>10. crash' \in {"mark", "none"}
      BY <2>1 DEF MarkOutOfRange
  <2>11. UNCHANGED <<now, pc, opening>>
      BY <1>4 DEF FireTimeout
  <2> QED
      BY <2>8, <2>9, <2>10, <2>11 DEF TypeOK, TimersTyped, Opening
<1>5. ASSUME NEW m \in SMs, EndTimeouts(m) PROVE TypeOK'
    BY <1>5 DEF EndTimeouts, TypeOK, timers, At
<1>6. ASSUME NEW m \in SMs, DropPkt(m) PROVE TypeOK'
    BY <1>6 DEF DropPkt, TypeOK, timers
<1>7. ASSUME NEW m \in SMs, RunPkt(m) PROVE TypeOK'
  <2> DEFINE c == CurrentPkt(m)
  <2>1. PICK e1 \in Effects, e2 \in Effects, f \in FindState(m, c) :
            LET w1   == RunFunction(m, c, f.st, e1)
                dead == NoFunction(w1, e1)
                w2   == IF dead THEN w1 ELSE Immediate(w1, c, e1, e2)
            IN  /\ Store(m, c, f, w2.st)
                /\ SaveTimers(m, w2)
                /\ crash' = IF dead THEN "nofun" ELSE "none"
      BY <1>7 DEF RunPkt
  <2> DEFINE w1 == RunFunction(m, c, f.st, e1)
             w2 == IF NoFunction(w1, e1) THEN w1 ELSE Immediate(w1, c, e1, e2)
  <2>2. c \in Conns /\ UNCHANGED <<now, pc, opening>>
      BY <1>7 DEF RunPkt
  <2>3. Store(m, c, f, w2.st) /\ SaveTimers(m, w2) /\ crash' \in {"nofun", "none"}
      BY <2>1
  <2>4. f.st \in State /\ e1 \in Effect /\ e2 \in Effect
      BY <2>2, FindStateType
  <2> HIDE DEF c
  <2>5. IsWork(w1)
      BY <2>2, <2>4, RunFunctionType
  <2>6. IsWork(w2)
    <3> HIDE DEF w1
    <3>1. IsWork(Immediate(w1, c, e1, e2))
        BY <2>2, <2>4, <2>5, ImmediateType DEF TypeOK
    <3> QED BY <2>5, <3>1
  <2> HIDE DEF w2
  <2>7. TimersTyped'
      BY <2>3, <2>6, SaveTimersType
  <2>8. w2.st \in State
      BY <2>6 DEF IsWork, WorkOn
  <2>9. /\ table' \in [SMs -> [Conns -> StateOrNone]]
        /\ pool' \in [Conns -> StateOrNone]
        /\ live' \subseteq Data
      BY <2>2, <2>3, <2>8, StoreType
  <2> QED
      BY <2>2, <2>3, <2>7, <2>9 DEF TypeOK, TimersTyped, Opening
<1>8. ASSUME NEW m \in SMs, EndBatch(m) PROVE TypeOK'
    BY <1>8 DEF EndBatch, TypeOK, timers, At
<1>9. ASSUME NEW m \in SMs, OpenPublish(m) PROVE TypeOK'
  <2>1. opening[m].conn \in Conns /\ opening[m].st \in State
      BY <1>9 DEF OpenPublish, At, TypeOK, Opening
  <2>2. pool' \in [Conns -> StateOrNone]
      BY <1>9, <2>1, PoolAddType DEF OpenPublish
  <2> QED
      BY <1>9, <2>2 DEF OpenPublish, TypeOK, timers, At
<1>10. ASSUME NEW m \in SMs, OpenReturn(m) PROVE TypeOK'
  <2> DEFINE o == opening[m]
             v == [Work(m, o.st) EXCEPT !.ba = Mark(@, 1, o.free)]
  <2>1. PICK e \in OpenEffects :
            LET w == Immediate(v, o.conn, o, e)
                ended == o.now /\ w.st.state = End
            IN  /\ SaveTimers(m, w)
                /\ table' = IF ended THEN [table EXCEPT ![m][o.conn] = NoState] ELSE table
                /\ live' = IF ended THEN live \ {o.st.data} ELSE live
      BY <1>10 DEF OpenReturn
  <2>2. o.conn \in Conns /\ o.st \in State
      BY <1>10 DEF OpenReturn, At, TypeOK, Opening
  <2>3. IsWork(v)
    <3>1. IsWork(Work(m, o.st))
        BY <2>2, WorkType
    <3> QED
        BY <3>1 DEF IsWork, WorkOn
  <2>4. IsWork(Immediate(v, o.conn, o, e))
    <3>1. now \in Nat /\ e \in Effect
        BY DEF TypeOK
    <3> HIDE DEF v, o
    <3> QED BY <2>2, <2>3, <3>1, CallType DEF Immediate
  <2>5. TimersTyped'
    <3> HIDE DEF v, o
    <3> QED BY <2>1, <2>4, SaveTimersType
  <2>6. table' \in [SMs -> [Conns -> StateOrNone]] /\ live' \subseteq Data
      BY <2>1 DEF TypeOK, StateOrNone
  <2>7. /\ opening' = [opening EXCEPT ![m] = NoOpening]
        /\ pc' = [pc EXCEPT ![m] = "idle"]
        /\ UNCHANGED <<now, crash, pool>>
      BY <1>10 DEF OpenReturn
  <2> QED
      BY <2>5, <2>6, <2>7 DEF TypeOK, TimersTyped, Opening
<1>11. ASSUME NEW m \in SMs, NEW ps \in Batches, BeginBatch(m, ps) PROVE TypeOK'
    BY <1>11 DEF BeginBatch, TypeOK, timers, At
<1>12. ASSUME NEW m \in SMs, NEW c \in Conns, OpenRun(m, c) PROVE TypeOK'
  <2>1. PICK d \in Data \ live, s \in StateIDs \ {End}, e \in OpenEffects :
            LET w == Call([Work(m, NewState(s, d)) EXCEPT !.ba = New(<<c>>, TRUE)], c, e)
            IN  /\ SaveTimers(m, w)
                /\ IF w.st.state = End
                   THEN /\ crash' = IF e.now THEN "nofun" ELSE "none"
                        /\ UNCHANGED <<live, pc, batch, opening>>
                   ELSE /\ opening' = [opening EXCEPT ![m] =
                             [conn |-> c, st |-> w.st, now |-> e.now, free |-> e.free]]
                        /\ live' = live \cup {d}
                        /\ pc' = [pc EXCEPT ![m] = "publish"]
                        /\ UNCHANGED crash
      BY <1>12 DEF OpenRun
  <2> DEFINE v == [Work(m, NewState(s, d)) EXCEPT !.ba = New(<<c>>, TRUE)]
             w == Call(v, c, e)
  <2>2. IsWork(v)
    <3>1. IsWork(Work(m, NewState(s, d)))
        BY NewStateType, WorkType
    <3> QED
        BY <3>1 DEF IsWork, WorkOn
  <2>3. e \in Effect /\ now \in Nat
      BY DEF TypeOK
  <2>4. IsWork(w)
    <3> HIDE DEF v
    <3> QED BY <2>2, <2>3, CallType
  <2>5. SaveTimers(m, w)
      BY <2>1
  <2>6. w.st \in State
      BY <2>4 DEF IsWork, WorkOn
  <2>7. UNCHANGED <<now, table, pool>> /\ pc[m] = "idle"
      BY <1>12 DEF OpenRun, At
  <2>8. TimersTyped'
    <3> HIDE DEF w
    <3> QED BY <2>4, <2>5, SaveTimersType
  <2>9. CASE w.st.state = End
    <3>1. crash' \in {"nofun", "none"} /\ UNCHANGED <<live, pc, opening>>
        BY <2>1, <2>9
    <3> QED
        BY <2>7, <2>8, <3>1 DEF TypeOK, TimersTyped
  <2>10. CASE w.st.state # End
    <3> DEFINE o == [conn |-> c, st |-> w.st, now |-> e.now, free |-> e.free]
    <3>1. /\ opening' = [opening EXCEPT ![m] = o]
          /\ live' = live \cup {d}
          /\ pc' = [pc EXCEPT ![m] = "publish"]
          /\ UNCHANGED crash
        BY <2>1, <2>10
    <3>2. o \in Opening /\ o # NoOpening
        BY <2>3, <2>6 DEF Opening, NoOpening, Effect
    <3> HIDE DEF o
    <3> QED
        BY <2>7, <2>8, <3>1, <3>2 DEF TypeOK, TimersTyped
  <2> QED
      BY <2>9, <2>10
<1>13. ASSUME NEW m \in SMs, NEW c \in Conns, OpenNoFun(m, c) PROVE TypeOK'
  <2>1. PICK d \in Data \ live, s \in StateIDs \ {End} :
            pool' = PoolAdd(c, NewState(s, d)) /\ live' = live \cup {d}
      BY <1>13 DEF OpenNoFun
  <2>2. pool' \in [Conns -> StateOrNone]
      BY <2>1, NewStateType, PoolAddType
  <2> QED
      BY <1>13, <2>1, <2>2 DEF OpenNoFun, TypeOK, timers
<1>14. ASSUME NEW m \in SMs, NEW c \in Removable, RemoveState(m, c) PROVE TypeOK'
    BY <1>14 DEF RemoveState, TypeOK, timers, StateOrNone
<1>15. CASE Tick
    BY <1>15 DEF Tick, TypeOK, timers
<1> QED
    BY <1>1, <1>2, <1>3, <1>4, <1>5, <1>6, <1>7, <1>8, <1>9, <1>10, <1>11, <1>12,
       <1>13, <1>14, <1>15 DEF Next, Continue

\* The type invariant of the framework holds in every reachable state.
THEOREM TypeCorrect == Spec => []TypeOK
<1>1. Init => TypeOK
    BY DEF Init, TypeOK, StateOrNone, Opening
<1> QED
    BY <1>1, TypeStep, PTL DEF Spec

-----------------------------------------------------------------------------
(* Ownership of the connection objects                                     *)

\* No function that addState runs calls transitionNow.  With one that does, the
\* state is in the pool while addState still works on it.
NoOpenNow == \A e \in OpenEffects : ~e.now

\* What makes SingleOwner inductive: an object that is disposed of, and may be
\* allocated again, is reached from nowhere.
IInv ==
    /\ TypeOK
    /\ SingleOwner
    /\ NoDangling
    /\ \A m \in SMs : ~opening[m].now

Kinds == {"table", "pool", "open", "none"}

\* The step changes nothing but the place d0 is reached from: d0, which no other
\* thread than m has, leaves all of its places for the one that kind, m and c
\* name, if any.
OnlyMoves(d0, kind, m, c) ==
    /\ \A n \in SMs, k \in Conns, d \in Data :
        /\ InTable(n, k, d)' <=> \/ d # d0 /\ InTable(n, k, d)
                                 \/ d = d0 /\ kind = "table" /\ n = m /\ k = c
        /\ InPool(k, d)' <=> \/ d # d0 /\ InPool(k, d)
                             \/ d = d0 /\ kind = "pool" /\ k = c
        /\ Opens(n, d)' <=> \/ d # d0 /\ Opens(n, d)
                            \/ d = d0 /\ kind = "open" /\ n = m
    /\ \A n \in SMs, k \in Conns : InTable(n, k, d0) \/ Opens(n, d0) => n = m
    /\ live \ {d0} = live' \ {d0}
    /\ kind # "none" => d0 \in live'

\* An object that leaves its place for none is disposed of.
Clean(d0, kind) == kind = "none" => d0 \notin live'

\* The step leaves every object where it is.
Still ==
    /\ UNCHANGED <<table, pool, live>>
    /\ \A n \in SMs, d \in Data : Opens(n, d)' <=> Opens(n, d)

\* The pool has no State of an ID that addState is about to add.
AddsFresh == \A m \in SMs : pc[m] = "publish" => pool[opening[m].conn] = NoState

Moves ==
    \/ Still
    \/ \E d0 \in Data, kind \in Kinds, m \in SMs, c \in Conns :
        /\ OnlyMoves(d0, kind, m, c)
        /\ FreshIDs /\ AddsFresh => Clean(d0, kind)

LEMMA MoveKeepsOwner ==
    ASSUME SingleOwner, NoDangling, NEW d0, NEW kind, NEW m \in SMs, NEW c \in Conns,
           OnlyMoves(d0, kind, m, c)
    PROVE  SingleOwner' /\ NoDangling'
<1>1. SingleOwner'
  <2> SUFFICES ASSUME NEW d \in Data, NEW n1 \in SMs, NEW n2 \in SMs,
                      NEW k1 \in Conns, NEW k2 \in Conns
               PROVE  /\ InTable(n1, k1, d)' /\ InTable(n2, k2, d)' => n1 = n2 /\ k1 = k2
                      /\ InPool(k1, d)' /\ InPool(k2, d)' => k1 = k2
                      /\ Opens(n1, d)' /\ Opens(n2, d)' => n1 = n2
                      /\ ~(InTable(n1, k1, d)' /\ InPool(k2, d)')
                      /\ ~(InTable(n1, k1, d)' /\ Opens(n2, d)')
                      /\ ~(InPool(k1, d)' /\ Opens(n1, d)')
      BY DEF SingleOwner
  <2>1. CASE d = d0
      BY <2>1 DEF OnlyMoves
  <2>2. CASE d # d0
    <3>1. /\ InTable(n1, k1, d)' => InTable(n1, k1, d)
          /\ InTable(n2, k2, d)' => InTable(n2, k2, d)
          /\ InPool(k1, d)' => InPool(k1, d)
          /\ InPool(k2, d)' => InPool(k2, d)
          /\ Opens(n1, d)' => Opens(n1, d)
          /\ Opens(n2, d)' => Opens(n2, d)
        BY <2>2 DEF OnlyMoves
    <3> QED
        BY <3>1 DEF SingleOwner
  <2> QED
      BY <2>1, <2>2
<1>2. NoDangling'
  <2> SUFFICES ASSUME NEW d \in Data,
                      \/ \E k \in Conns : InPool(k, d)'
                      \/ \E n \in SMs, k \in Conns : InTable(n, k, d)'
                      \/ \E n \in SMs : Opens(n, d)'
               PROVE  d \in live'
      BY DEF NoDangling, Shared, Holds
  <2>1. CASE d = d0
      BY <2>1 DEF OnlyMoves
  <2>2. CASE d # d0
    <3>1. \/ \E k \in Conns : InPool(k, d)
          \/ \E n \in SMs, k \in Conns : InTable(n, k, d)
          \/ \E n \in SMs : Opens(n, d)
        BY <2>2 DEF OnlyMoves
    <3>2. d \in live
        BY <3>1 DEF NoDangling, Shared, Holds
    <3> QED
        BY <2>2, <3>2 DEF OnlyMoves
  <2> QED
      BY <2>1, <2>2
<1> QED
    BY <1>1, <1>2

\* An object nobody made yet, or that was disposed of, is reached from nowhere.
LEMMA NewIsUnreached ==
    ASSUME NoDangling, NEW d \in Data, d \notin live
    PROVE  /\ \A n \in SMs, k \in Conns : ~InTable(n, k, d)
           /\ \A k \in Conns : ~InPool(k, d)
           /\ \A n \in SMs : ~Opens(n, d)
BY DEF NoDangling, Shared, Holds

\* findState followed by a run of the connection's function moves the object to
\* the table of m, or disposes of it: whether the State was in that table, came
\* out of the pool, or is new.
LEMMA StoreMoves ==
    ASSUME IInv, NEW m \in SMs, NEW c \in Conns, NEW f \in FindState(m, c),
           NEW st \in State, st.data = f.st.data, Store(m, c, f, st),
           UNCHANGED <<pc, opening>>
    PROVE  \E kind \in Kinds : OnlyMoves(f.st.data, kind, m, c) /\ Clean(f.st.data, kind)
<1> DEFINE d0   == f.st.data
           kind == IF st.state = End THEN "none" ELSE "table"
           new  == IF st.state = End THEN NoState ELSE st
<1>1. /\ table \in [SMs -> [Conns -> StateOrNone]]
      /\ pool \in [Conns -> StateOrNone]
    BY DEF IInv, TypeOK
<1>2. /\ table' = [table EXCEPT ![m][c] = new]
      /\ live' = IF st.state = End THEN f.live \ {d0} ELSE f.live
      /\ pool' = f.pool
    BY DEF Store
<1>3. \A n \in SMs : \A d : Opens(n, d)' <=> Opens(n, d)
    BY DEF Opens, InHand
<1>4. \A n \in SMs, k \in Conns, d \in Data :
        InTable(n, k, d)' <=> \/ InTable(n, k, d) /\ ~(n = m /\ k = c)
                              \/ n = m /\ k = c /\ d = d0 /\ kind = "table"
    BY <1>1, <1>2 DEF InTable
<1>10. kind \in Kinds /\ kind # "pool" /\ kind # "open"
    BY DEF Kinds
<1>5. CASE table[m][c] # NoState
  <2>1. f = [st |-> table[m][c], pool |-> pool, live |-> live]
      BY <1>5 DEF FindState
  <2>2. InTable(m, c, d0) /\ d0 \in Data
      BY <1>1, <1>5, <2>1 DEF InTable, StateOrNone, State
  <2>3. d0 \in live
      BY <2>2 DEF IInv, NoDangling, Holds
  <2>4. \A k \in Conns : \A d : InPool(k, d)' <=> InPool(k, d)
      BY <1>2, <2>1 DEF InPool
  <2>5. \A n \in SMs, k \in Conns :
          /\ InTable(n, k, d0) => n = m /\ k = c
          /\ ~InPool(k, d0) /\ ~Opens(n, d0)
      BY <2>2 DEF IInv, SingleOwner
  <2>6. /\ live \ {d0} = live' \ {d0} /\ (kind # "none" => d0 \in live')
        /\ Clean(d0, kind)
      BY <1>2, <2>1, <2>3 DEF Clean
  <2>8. \A d : InTable(m, c, d) => d = d0
      BY <2>1 DEF InTable
  <2> HIDE DEF d0, kind
  <2>7. OnlyMoves(d0, kind, m, c)
      BY <1>3, <1>4, <1>10, <2>4, <2>5, <2>6, <2>8 DEF OnlyMoves
  <2> QED
      BY <1>10, <2>6, <2>7 DEF d0
<1>6. CASE table[m][c] = NoState /\ pool[c] # NoState
  <2>1. f = [st |-> pool[c], pool |-> PoolErase(c), live |-> live]
      BY <1>6 DEF FindState
  <2>2. InPool(c, d0) /\ d0 \in Data
      BY <1>1, <1>6, <2>1 DEF InPool, StateOrNone, State
  <2>3. d0 \in live
      BY <2>2 DEF IInv, NoDangling, Shared
  <2>4. \A k \in Conns : \A d : InPool(k, d)' <=> InPool(k, d) /\ k # c
      BY <1>1, <1>2, <2>1 DEF InPool, PoolErase
  <2>5. \A n \in SMs, k \in Conns :
          /\ InPool(k, d0) => k = c
          /\ ~InTable(n, k, d0) /\ ~Opens(n, d0)
      BY <2>2 DEF IInv, SingleOwner
  <2>6. /\ live \ {d0} = live' \ {d0} /\ (kind # "none" => d0 \in live')
        /\ Clean(d0, kind)
      BY <1>2, <2>1, <2>3 DEF Clean
  <2>8. \A d : ~InTable(m, c, d) /\ (InPool(c, d) => d = d0)
      BY <1>6, <2>1 DEF InTable, InPool
  <2> HIDE DEF d0, kind
  <2>7. OnlyMoves(d0, kind, m, c)
      BY <1>3, <1>4, <1>10, <2>4, <2>5, <2>6, <2>8 DEF OnlyMoves
  <2> QED
      BY <1>10, <2>6, <2>7 DEF d0
<1>7. CASE table[m][c] = NoState /\ pool[c] = NoState
  <2>1. PICK d1 \in Data \ live :
            f = [st |-> NewState(Start, d1), pool |-> pool, live |-> live \cup {d1}]
      BY <1>7 DEF FindState
  <2>2. d0 = d1
      BY <2>1 DEF NewState
  <2>3. \A k \in Conns : \A d : InPool(k, d)' <=> InPool(k, d)
      BY <1>2, <2>1 DEF InPool
  <2>4. \A n \in SMs, k \in Conns :
          ~InTable(n, k, d0) /\ ~InPool(k, d0) /\ ~Opens(n, d0)
    <3> HIDE DEF d0
    <3> QED BY <2>2, NewIsUnreached DEF IInv
  <2>5. /\ live \ {d0} = live' \ {d0} /\ (kind # "none" => d0 \in live')
        /\ Clean(d0, kind)
      BY <1>2, <2>1, <2>2 DEF Clean
  <2>7. \A d : ~InTable(m, c, d)
      BY <1>7 DEF InTable
  <2> HIDE DEF d0, kind
  <2>6. OnlyMoves(d0, kind, m, c)
      BY <1>3, <1>4, <1>10, <2>3, <2>4, <2>5, <2>7 DEF OnlyMoves
  <2> QED
      BY <1>10, <2>5, <2>6 DEF d0
<1> QED
    BY <1>5, <1>6, <1>7

\* connPool->add moves the object to the pool or, when the pool has another State
\* of the ID, leaves it to nobody.
LEMMA PublishMoves ==
    ASSUME IInv, NEW m \in SMs, NEW c \in Conns, NEW st \in State,
           pool' = PoolAdd(c, st), UNCHANGED table, live' = live \cup {st.data},
           \A n \in SMs, k \in Conns : ~InTable(n, k, st.data) /\ ~InPool(k, st.data),
           \A n \in SMs, d \in Data : Opens(n, d)' <=> Opens(n, d) /\ d # st.data,
           \A n \in SMs : Opens(n, st.data) => n = m
    PROVE  \E kind \in Kinds :
              OnlyMoves(st.data, kind, m, c) /\ (pool[c] = NoState => kind = "pool")
<1> DEFINE kind == IF pool[c] = NoState THEN "pool" ELSE "none"
<1>1. pool \in [Conns -> StateOrNone] /\ NoState \notin State
    BY DEF IInv, TypeOK
<1>2. \A n \in SMs, k \in Conns : \A d : InTable(n, k, d)' <=> InTable(n, k, d)
    BY DEF InTable
<1>3. \A k \in Conns : \A d : InPool(k, d)' <=> \/ InPool(k, d)
                                                \/ k = c /\ d = st.data /\ kind = "pool"
    BY <1>1 DEF InPool, PoolAdd
<1>4. kind \in Kinds /\ kind # "table" /\ kind # "open" /\ (pool[c] = NoState => kind = "pool")
    BY DEF Kinds
<1> HIDE DEF kind
<1>5. OnlyMoves(st.data, kind, m, c)
    BY <1>2, <1>3, <1>4 DEF OnlyMoves
<1> QED
    BY <1>4, <1>5

LEMMA Unmoved ==
    ASSUME IInv, Still
    PROVE  SingleOwner' /\ NoDangling'
<1>1. /\ \A n \in SMs, k \in Conns, d \in Data : InTable(n, k, d)' <=> InTable(n, k, d)
      /\ \A k \in Conns, d \in Data : InPool(k, d)' <=> InPool(k, d)
      /\ \A n \in SMs, d \in Data : Opens(n, d)' => Opens(n, d)
      /\ UNCHANGED live
    BY DEF Still, InTable, InPool
<1>2. SingleOwner'
    BY <1>1 DEF IInv, SingleOwner
<1>3. NoDangling'
  <2> SUFFICES ASSUME NEW d \in Data,
                      \/ \E k \in Conns : InPool(k, d)'
                      \/ \E n \in SMs, k \in Conns : InTable(n, k, d)'
                      \/ \E n \in SMs : Opens(n, d)'
               PROVE  d \in live'
      BY DEF NoDangling, Shared, Holds
  <2>1. CASE \E k \in Conns : InPool(k, d)'
      BY <1>1, <2>1 DEF IInv, NoDangling, Shared
  <2>2. CASE \E n \in SMs, k \in Conns : InTable(n, k, d)'
      BY <1>1, <2>2 DEF IInv, NoDangling, Holds
  <2>3. CASE \E n \in SMs : Opens(n, d)'
      BY <1>1, <2>3 DEF IInv, NoDangling, Holds
  <2> QED
      BY <2>1, <2>2, <2>3
<1> QED
    BY <1>2, <1>3

\* Every step leaves the objects where they are or moves one.
LEMMA EveryStep ==
    ASSUME NoOpenNow, IInv, [Next]_vars
    PROVE  Moves
<1> USE ProgramAssumption DEF IInv
<1>2. CASE UNCHANGED vars
  <2>1. UNCHANGED <<table, pool, live, opening, pc>>
      BY <1>2 DEF vars
  <2> QED
      BY <2>1 DEF Moves, Still, InHand, Opens
<1>3. ASSUME NEW m \in SMs,
             \/ SkipTimeout(m) \/ TimeoutWithoutState(m) \/ EndTimeouts(m)
             \/ DropPkt(m) \/ EndBatch(m) \/ \E ps \in Batches : BeginBatch(m, ps)
      PROVE  Moves
  <2>1. UNCHANGED <<table, pool, live, opening>>
      BY <1>3 DEF SkipTimeout, TimeoutWithoutState, EndTimeouts, DropPkt, EndBatch,
                  BeginBatch
  <2>2. \/ UNCHANGED pc
        \/ pc' = [pc EXCEPT ![m] = "packets"]
        \/ pc' = [pc EXCEPT ![m] = "idle"]
        \/ pc' = [pc EXCEPT ![m] = "timeouts"]
      BY <1>3 DEF SkipTimeout, TimeoutWithoutState, EndTimeouts, DropPkt, EndBatch,
                  BeginBatch
  <2>3. pc[m] \notin {"publish", "return"}
      BY <1>3 DEF SkipTimeout, TimeoutWithoutState, EndTimeouts, DropPkt, EndBatch,
                  BeginBatch, At
  <2>4. \A n \in SMs : InHand(n)' <=> InHand(n)
      BY <2>1, <2>2, <2>3 DEF InHand, TypeOK
  <2> QED
      BY <2>1, <2>4 DEF Moves, Still, Opens
<1>4. ASSUME NEW m \in SMs, FireTimeout(m) PROVE Moves
  <2>0. PICK t \in Due(m), e \in TimeoutEffects :
            LET c == timeoutFunctions[m][t.timeoutID]
            IN  /\ c # NoConn
                /\ \E f \in FindState(m, c) :
                     Store(m, c, f, RunTimeout(m, c, f.st, e).st)
      BY <1>4 DEF FireTimeout
  <2>1. PICK f \in FindState(m, timeoutFunctions[m][t.timeoutID]) :
            LET c == timeoutFunctions[m][t.timeoutID]
                w == RunTimeout(m, c, f.st, e)
            IN  c # NoConn /\ Store(m, c, f, w.st)
      BY <2>0
  <2> DEFINE c == timeoutFunctions[m][t.timeoutID]
             w == RunTimeout(m, c, f.st, e)
  <2>2. c \in Conns
      BY <2>1 DEF Due, Tops, TypeOK, Timeout
  <2>3. Store(m, c, f, w.st)
      BY <2>1
  <2>4. UNCHANGED <<now, pc, opening>>
      BY <1>4 DEF FireTimeout
  <2>5. w.st \in State /\ w.st.data = f.st.data
    <3>1. f.st \in State /\ e \in Effect
        BY <2>2, FindStateType
    <3> HIDE DEF c
    <3>2. IsWork(w) /\ w.st.data = f.st.data
        BY <2>2, <3>1, RunTimeoutType
    <3> QED
        BY <3>2 DEF IsWork, WorkOn
  <2> HIDE DEF c, w
  <2>6. PICK kind \in Kinds :
            OnlyMoves(f.st.data, kind, m, c) /\ Clean(f.st.data, kind)
      BY <2>2, <2>3, <2>4, <2>5, StoreMoves DEF c
  <2>7. f.st.data \in Data
      BY <2>5 DEF State
  <2> QED
      BY <2>2, <2>6, <2>7 DEF Moves
<1>5. ASSUME NEW m \in SMs, RunPkt(m) PROVE Moves
  <2> DEFINE c == CurrentPkt(m)
  <2>1. PICK e1 \in Effects, e2 \in Effects, f \in FindState(m, c) :
            LET w1   == RunFunction(m, c, f.st, e1)
                dead == NoFunction(w1, e1)
                w2   == IF dead THEN w1 ELSE Immediate(w1, c, e1, e2)
            IN  Store(m, c, f, w2.st)
      BY <1>5 DEF RunPkt
  <2> DEFINE w1 == RunFunction(m, c, f.st, e1)
             w2 == IF NoFunction(w1, e1) THEN w1 ELSE Immediate(w1, c, e1, e2)
  <2>2. c \in Conns /\ UNCHANGED <<now, pc, opening>>
      BY <1>5 DEF RunPkt
  <2>3. Store(m, c, f, w2.st)
      BY <2>1
  <2>4. f.st \in State /\ e1 \in Effect /\ e2 \in Effect
      BY <2>2, FindStateType
  <2>5. w2.st \in State /\ w2.st.data = f.st.data
    <3> HIDE DEF c
    <3>1. IsWork(w1) /\ w1.st.data = f.st.data
        BY <2>2, <2>4, RunFunctionType
    <3> HIDE DEF w1
    <3>2. /\ IsWork(Immediate(w1, c, e1, e2))
          /\ Immediate(w1, c, e1, e2).st.data = w1.st.data
        BY <2>2, <2>4, <3>1, ImmediateType DEF TypeOK
    <3>3. IsWork(w2) /\ w2.st.data = f.st.data
        BY <3>1, <3>2
    <3> QED
        BY <3>3 DEF IsWork, WorkOn
  <2> HIDE DEF c, w2
  <2>6. PICK kind \in Kinds :
            OnlyMoves(f.st.data, kind, m, c) /\ Clean(f.st.data, kind)
      BY <2>2, <2>3, <2>5, StoreMoves
  <2>7. f.st.data \in Data
      BY <2>5 DEF State
  <2> QED
      BY <2>2, <2>6, <2>7 DEF Moves
<1>6. ASSUME NEW m \in SMs, NEW c \in Conns, OpenRun(m, c) PROVE Moves
  <2>1. PICK d \in Data \ live, s \in StateIDs \ {End}, e \in OpenEffects :
            LET w == Call([Work(m, NewState(s, d)) EXCEPT !.ba = New(<<c>>, TRUE)], c, e)
            IN  IF w.st.state = End
                THEN UNCHANGED <<live, pc, batch, opening>>
                ELSE /\ opening' = [opening EXCEPT ![m] =
                          [conn |-> c, st |-> w.st, now |-> e.now, free |-> e.free]]
                     /\ live' = live \cup {d}
                     /\ pc' = [pc EXCEPT ![m] = "publish"]
      BY <1>6 DEF OpenRun
  <2> DEFINE v == [Work(m, NewState(s, d)) EXCEPT !.ba = New(<<c>>, TRUE)]
             w == Call(v, c, e)
  <2>2. UNCHANGED <<table, pool>>
      BY <1>6 DEF OpenRun
  <2>3. w.st.data = d
    <3>1. /\ IsWork(Work(m, NewState(s, d)))
          /\ Work(m, NewState(s, d)).st.data = d
        BY NewStateType, WorkType
    <3>2. IsWork(v) /\ v.st.data = d
        BY <3>1 DEF IsWork, WorkOn
    <3>3. e \in Effect /\ now \in Nat
        BY DEF TypeOK
    <3> HIDE DEF v
    <3> QED
        BY <3>2, <3>3, CallType
  <2>4. CASE w.st.state = End
    <3>1. UNCHANGED <<live, pc, opening>>
        BY <2>1, <2>4
    <3> QED
        BY <2>2, <3>1 DEF Moves, Still, InHand, Opens
  <2>5. CASE w.st.state # End
    <3> DEFINE o == [conn |-> c, st |-> w.st, now |-> e.now, free |-> e.free]
    <3>1. /\ opening' = [opening EXCEPT ![m] = o]
          /\ live' = live \cup {d}
          /\ pc' = [pc EXCEPT ![m] = "publish"]
        BY <2>1, <2>5
    <3>2. o.st.data = d /\ ~o.now
        BY <2>3 DEF NoOpenNow
    <3> HIDE DEF o
    <3>3. \A n \in SMs, k \in Conns :
            ~InTable(n, k, d) /\ ~InPool(k, d) /\ ~Opens(n, d)
        BY NewIsUnreached
    <3>4. \A n \in SMs, k \in Conns : \A x :
            /\ InTable(n, k, x)' <=> InTable(n, k, x)
            /\ InPool(k, x)' <=> InPool(k, x)
        BY <2>2 DEF InTable, InPool
    <3>5. \A n \in SMs : \A x : Opens(n, x)' <=> Opens(n, x) \/ (n = m /\ x = d)
      <4>1. pc[m] = "idle"
          BY <1>6 DEF OpenRun, At
      <4> QED
          BY <3>1, <3>2, <4>1 DEF Opens, InHand, TypeOK
    <3>6. live \ {d} = live' \ {d} /\ d \in live'
        BY <3>1
    <3>7. OnlyMoves(d, "open", m, c)
        BY <3>3, <3>4, <3>5, <3>6 DEF OnlyMoves
    <3> QED
        BY <3>7 DEF Moves, Kinds, Clean
  <2> QED
      BY <2>4, <2>5
<1>7. ASSUME NEW m \in SMs, OpenPublish(m) PROVE Moves
  <2> DEFINE c == opening[m].conn
             st == opening[m].st
  <2>1. c \in Conns /\ st \in State
      BY <1>7 DEF OpenPublish, At, TypeOK, Opening
  <2>2. /\ pool' = PoolAdd(c, st)
        /\ pc' = [pc EXCEPT ![m] = "return"]
        /\ UNCHANGED <<table, live, opening>>
      BY <1>7 DEF OpenPublish
  <2>3. Opens(m, st.data) /\ st.data \in Data
      BY <1>7, <2>1 DEF OpenPublish, At, Opens, InHand, State
  <2>4. st.data \in live
      BY <2>3 DEF NoDangling, Holds
  <2>5. \A n \in SMs, k \in Conns : ~InTable(n, k, st.data) /\ ~InPool(k, st.data)
      BY <2>3 DEF SingleOwner
  <2>6. \A n \in SMs : Opens(n, st.data) => n = m
    <3> HIDE DEF st
    <3> QED
        BY <2>1, <2>3 DEF SingleOwner
  <2>7. \A n \in SMs, d \in Data : Opens(n, d)' <=> Opens(n, d) /\ d # st.data
    <3>1. \A n \in SMs, d \in Data : Opens(n, d)' <=> Opens(n, d) /\ n # m
        BY <2>2 DEF Opens, InHand, TypeOK
    <3>2. \A d : Opens(m, d) => d = st.data
        BY DEF Opens
    <3> QED
        BY <2>6, <3>1, <3>2
  <2>8. AddsFresh => pool[c] = NoState
      BY <1>7 DEF AddsFresh, OpenPublish, At
  <2> HIDE DEF c, st
  <2>9. live' = live \cup {st.data}
      BY <2>2, <2>4
  <2>10. PICK kind \in Kinds :
            OnlyMoves(st.data, kind, m, c) /\ (pool[c] = NoState => kind = "pool")
      BY <2>1, <2>2, <2>5, <2>6, <2>7, <2>9, PublishMoves
  <2> QED
      BY <2>1, <2>3, <2>8, <2>10 DEF Moves, Clean
<1>8. ASSUME NEW m \in SMs, OpenReturn(m) PROVE Moves
  <2>1. /\ opening' = [opening EXCEPT ![m] = NoOpening]
        /\ pc' = [pc EXCEPT ![m] = "idle"]
        /\ UNCHANGED pool
      BY <1>8 DEF OpenReturn
  <2>2. UNCHANGED <<table, live>>
    <3>1. ~opening[m].now
        OBVIOUS
    <3> QED
        BY <1>8, <3>1 DEF OpenReturn
  <2>3. \A n \in SMs, d \in Data : Opens(n, d)' <=> Opens(n, d)
    <3>1. pc[m] = "return"
        BY <1>8 DEF OpenReturn, At
    <3> QED
        BY <2>1, <3>1 DEF Opens, InHand, TypeOK
  <2> QED
      BY <2>1, <2>2, <2>3 DEF Moves, Still
<1>9. ASSUME NEW m \in SMs, NEW c \in Conns, OpenNoFun(m, c) PROVE Moves
  <2>1. PICK d \in Data \ live, s \in StateIDs \ {End} :
            pool' = PoolAdd(c, NewState(s, d)) /\ live' = live \cup {d}
      BY <1>9 DEF OpenNoFun
  <2> DEFINE st == NewState(s, d)
  <2>2. st \in State /\ st.data = d
      BY NewStateType
  <2>3. UNCHANGED <<table, pc, opening>>
      BY <1>9 DEF OpenNoFun
  <2>4. \A n \in SMs, k \in Conns :
          ~InTable(n, k, d) /\ ~InPool(k, d) /\ ~Opens(n, d)
      BY NewIsUnreached
  <2>5. \A n \in SMs, x \in Data : Opens(n, x)' <=> Opens(n, x) /\ x # d
      BY <2>3, <2>4 DEF Opens, InHand
  <2>6. FreshIDs => pool[c] = NoState
      BY <1>9 DEF OpenNoFun, Unused
  <2> HIDE DEF st
  <2>7. PICK kind \in Kinds :
            OnlyMoves(st.data, kind, m, c) /\ (pool[c] = NoState => kind = "pool")
      BY <2>1, <2>2, <2>3, <2>4, <2>5, PublishMoves DEF st
  <2> QED
      BY <2>2, <2>6, <2>7 DEF Moves, Clean
<1>10. ASSUME NEW m \in SMs, NEW c \in Removable, RemoveState(m, c) PROVE Moves
  <2> DEFINE d0 == table[m][c].data
  <2>1. c \in Conns
      OBVIOUS
  <2>2. /\ table[m][c] # NoState
        /\ live' = live \ {d0}
        /\ table' = [table EXCEPT ![m][c] = NoState]
        /\ UNCHANGED <<pool, pc, opening>>
      BY <1>10 DEF RemoveState
  <2>3. InTable(m, c, d0) /\ d0 \in Data
      BY <2>1, <2>2 DEF InTable, TypeOK, StateOrNone, State
  <2>4. \A n \in SMs, k \in Conns :
          /\ InTable(n, k, d0) => n = m /\ k = c
          /\ ~InPool(k, d0) /\ ~Opens(n, d0)
    <3> HIDE DEF d0
    <3> QED BY <2>1, <2>3 DEF SingleOwner
  <2>5. \A n \in SMs, k \in Conns : \A d :
          InTable(n, k, d)' <=> InTable(n, k, d) /\ ~(n = m /\ k = c)
      BY <2>1, <2>2 DEF InTable, TypeOK
  <2>9. \A d : InTable(m, c, d) => d = d0
      BY DEF InTable
  <2>6. \A n \in SMs, k \in Conns : \A d :
          /\ InPool(k, d)' <=> InPool(k, d)
          /\ Opens(n, d)' <=> Opens(n, d)
      BY <2>2 DEF InPool, Opens, InHand
  <2>7. live' = live \ {d0}
      BY <2>2
  <2> HIDE DEF d0
  <2>8. OnlyMoves(d0, "none", m, c)
      BY <2>4, <2>5, <2>6, <2>7, <2>9 DEF OnlyMoves
  <2> QED
      BY <2>1, <2>3, <2>7, <2>8 DEF Moves, Clean, Kinds
<1>11. CASE Tick
  <2>1. UNCHANGED <<table, pool, live, opening, pc>>
      BY <1>11 DEF Tick
  <2> QED
      BY <2>1 DEF Moves, Still, InHand, Opens
<1> HIDE DEF IInv
<1> QED
    BY <1>2, <1>3, <1>4, <1>5, <1>6, <1>7, <1>8, <1>9, <1>10, <1>11 DEF Next, Continue

\* No addState that is in progress has a transitionNow to run.
LEMMA QuietStep ==
    ASSUME NoOpenNow, TypeOK, \A m \in SMs : ~opening[m].now, [Next]_vars
    PROVE  \A m \in SMs : ~opening'[m].now
<1>1. ASSUME NEW m \in SMs, NEW c \in Conns, OpenRun(m, c)
      PROVE  \A n \in SMs : ~opening'[n].now
  <2>1. \/ UNCHANGED opening
        \/ \E e \in OpenEffects : \E s :
              opening' = [opening EXCEPT ![m] =
                  [conn |-> c, st |-> s, now |-> e.now, free |-> e.free]]
      BY <1>1 DEF OpenRun
  <2>2. ASSUME NEW e \in OpenEffects, NEW s, NEW o,
               o = [conn |-> c, st |-> s, now |-> e.now, free |-> e.free],
               opening' = [opening EXCEPT ![m] = o]
        PROVE  \A n \in SMs : ~opening'[n].now
    <3>1. ~o.now
        BY <2>2 DEF NoOpenNow
    <3> QED
        BY <2>2, <3>1 DEF TypeOK
  <2> QED
      BY <2>1, <2>2
<1>2. ASSUME NEW m \in SMs, OpenReturn(m) PROVE \A n \in SMs : ~opening'[n].now
    BY <1>2 DEF OpenReturn, TypeOK, NoOpening
<1>3. CASE UNCHANGED opening
    BY <1>3
<1> QED
    BY <1>1, <1>2, <1>3 DEF Next, Continue, vars, SkipTimeout, TimeoutWithoutState,
       FireTimeout, EndTimeouts, DropPkt, RunPkt, EndBatch, OpenPublish, BeginBatch,
       OpenNoFun, RemoveState, Tick

LEMMA OwnerStep ==
    ASSUME NoOpenNow, IInv, [Next]_vars
    PROVE  IInv'
<1>1. TypeOK' /\ \A m \in SMs : ~opening'[m].now
    BY TypeStep, QuietStep DEF IInv
<1>2. SingleOwner' /\ NoDangling'
    BY EveryStep, MoveKeepsOwner, Unmoved DEF IInv, Moves
<1> QED
    BY <1>1, <1>2 DEF IInv

LEMMA IInvCorrect == ASSUME NoOpenNow PROVE Spec => []IInv
<1>1. Init => IInv
    BY DEF Init, IInv, TypeOK, SingleOwner, NoDangling, StateOrNone, Opening,
           InTable, InPool, Opens, InHand, Holds, Shared, NoOpening
<1>2. IInv /\ [Next]_vars => IInv'
    BY OwnerStep
<1> QED
    BY <1>1, <1>2, PTL DEF Spec

\* For any number of threads, connections and packets in any order: no two places
\* reach the same stateData.
THEOREM OwnerCorrect == ASSUME NoOpenNow PROVE Spec => []SingleOwner
<1>1. IInv => SingleOwner
    BY DEF IInv
<1> QED
    BY <1>1, IInvCorrect, PTL

\* ... and nobody reaches a connection object that was disposed of.
THEOREM NoDanglingCorrect == ASSUME NoOpenNow PROVE Spec => []NoDangling
<1>1. IInv => NoDangling
    BY DEF IInv
<1> QED
    BY <1>1, IInvCorrect, PTL

-----------------------------------------------------------------------------
(* The end state                                                           *)

\* What EndStateGone rests on: an addState in progress has left its connection in
\* another state.
EndInv ==
    /\ TypeOK
    /\ EndStateGone
    /\ \A m \in SMs : pc[m] = "publish" => opening[m].st.state # End

\* findState followed by Store: the pool only loses entries, and the entry of the
\* table is not in the end state.
LEMMA StoreEnds ==
    ASSUME TypeOK, EndStateGone, NEW m \in SMs, NEW c \in Conns,
           NEW f \in FindState(m, c), NEW st, Store(m, c, f, st)
    PROVE  EndStateGone'
<1>1. /\ table \in [SMs -> [Conns -> StateOrNone]]
      /\ pool \in [Conns -> StateOrNone]
    BY DEF TypeOK
<1>2. \A k \in Conns : pool'[k] # NoState => pool'[k] = pool[k]
    BY <1>1 DEF Store, FindState, PoolErase
<1>3. \A n \in SMs, k \in Conns :
        table'[n][k] # NoState => table'[n][k] = table[n][k] \/ table'[n][k].state # End
    BY <1>1 DEF Store
<1> QED
    BY <1>2, <1>3 DEF EndStateGone

LEMMA AddEnds ==
    ASSUME TypeOK, EndStateGone, NEW c \in Conns, NEW st, st.state # End,
           pool' = PoolAdd(c, st), UNCHANGED table
    PROVE  EndStateGone'
BY DEF TypeOK, EndStateGone, PoolAdd

LEMMA EndStep == EndInv /\ [Next]_vars => EndInv'
<1> SUFFICES ASSUME EndInv, [Next]_vars PROVE EndInv'
    OBVIOUS
<1> USE ProgramAssumption
<1> DEFINE Opened == \A m \in SMs : pc[m] = "publish" => opening[m].st.state # End
<1>1. TypeOK' /\ TypeOK /\ EndStateGone /\ Opened
    BY TypeStep DEF EndInv
<1>2. CASE UNCHANGED <<table, pool, pc, opening>>
    BY <1>1, <1>2 DEF EndInv, EndStateGone
<1>3. ASSUME NEW m \in SMs,
             \/ SkipTimeout(m) \/ TimeoutWithoutState(m) \/ EndTimeouts(m)
             \/ DropPkt(m) \/ EndBatch(m) \/ \E ps \in Batches : BeginBatch(m, ps)
      PROVE  EndInv'
  <2>1. UNCHANGED <<table, pool, opening>>
      BY <1>3 DEF SkipTimeout, TimeoutWithoutState, EndTimeouts, DropPkt, EndBatch,
                  BeginBatch
  <2>2. UNCHANGED pc \/ \E l : l # "publish" /\ pc' = [pc EXCEPT ![m] = l]
      BY <1>3 DEF SkipTimeout, TimeoutWithoutState, EndTimeouts, DropPkt, EndBatch,
                  BeginBatch
  <2>3. EndStateGone'
      BY <1>1, <2>1 DEF EndStateGone
  <2>4. Opened'
      BY <1>1, <2>1, <2>2 DEF TypeOK
  <2> QED
      BY <1>1, <2>3, <2>4 DEF EndInv
<1>4. ASSUME NEW m \in SMs, FireTimeout(m) PROVE EndInv'
  <2>1. UNCHANGED <<pc, opening>>
      BY <1>4 DEF FireTimeout
  <2>2. PICK t \in Due(m), e \in TimeoutEffects :
            LET c == timeoutFunctions[m][t.timeoutID]
            IN  /\ c # NoConn
                /\ \E f \in FindState(m, c) :
                     Store(m, c, f, RunTimeout(m, c, f.st, e).st)
      BY <1>4 DEF FireTimeout
  <2> DEFINE c == timeoutFunctions[m][t.timeoutID]
  <2>3. c \in Conns
      BY <1>1, <2>2 DEF Due, Tops, TypeOK, Timeout
  <2>4. \E f \in FindState(m, c) : Store(m, c, f, RunTimeout(m, c, f.st, e).st)
      BY <2>2
  <2> HIDE DEF c
  <2>5. EndStateGone'
      BY <1>1, <2>3, <2>4, StoreEnds
  <2> QED
      BY <1>1, <2>1, <2>5 DEF EndInv
<1>5. ASSUME NEW m \in SMs, RunPkt(m) PROVE EndInv'
  <2>1. UNCHANGED <<pc, opening>> /\ CurrentPkt(m) \in Conns
      BY <1>5 DEF RunPkt
  <2>2. \E f \in FindState(m, CurrentPkt(m)) : \E st : Store(m, CurrentPkt(m), f, st)
      BY <1>5 DEF RunPkt
  <2>3. EndStateGone'
      BY <1>1, <2>1, <2>2, StoreEnds
  <2> QED
      BY <1>1, <2>1, <2>3 DEF EndInv
<1>6. ASSUME NEW m \in SMs, NEW c \in Conns, OpenRun(m, c) PROVE EndInv'
  <2>1. \/ UNCHANGED <<pc, opening>>
        \/ \E st, b1, b2 :
              /\ st.state # End
              /\ opening' = [opening EXCEPT ![m] =
                    [conn |-> c, st |-> st, now |-> b1, free |-> b2]]
              /\ pc' = [pc EXCEPT ![m] = "publish"]
      BY <1>6 DEF OpenRun
  <2>2. UNCHANGED <<table, pool>>
      BY <1>6 DEF OpenRun
  <2>3. EndStateGone'
      BY <1>1, <2>2 DEF EndStateGone
  <2>4. Opened'
      BY <1>1, <2>1 DEF TypeOK
  <2> QED
      BY <1>1, <2>3, <2>4 DEF EndInv
<1>7. ASSUME NEW m \in SMs, OpenPublish(m) PROVE EndInv'
  <2>1. /\ opening[m].conn \in Conns /\ opening[m].st.state # End
        /\ pool' = PoolAdd(opening[m].conn, opening[m].st)
        /\ pc' = [pc EXCEPT ![m] = "return"]
        /\ UNCHANGED <<table, opening>>
      BY <1>1, <1>7 DEF OpenPublish, At, TypeOK, Opening
  <2>2. EndStateGone'
      BY <1>1, <2>1, AddEnds
  <2>3. Opened'
      BY <1>1, <2>1 DEF TypeOK
  <2> QED
      BY <1>1, <2>2, <2>3 DEF EndInv
<1>8. ASSUME NEW m \in SMs, OpenReturn(m) PROVE EndInv'
  <2>1. /\ pc' = [pc EXCEPT ![m] = "idle"]
        /\ opening' = [opening EXCEPT ![m] = NoOpening]
        /\ UNCHANGED pool
        /\ UNCHANGED table \/ \E c : table' = [table EXCEPT ![m][c] = NoState]
      BY <1>8 DEF OpenReturn
  <2>2. EndStateGone'
      BY <1>1, <2>1 DEF EndStateGone, TypeOK
  <2>3. Opened'
      BY <1>1, <2>1 DEF TypeOK
  <2> QED
      BY <1>1, <2>2, <2>3 DEF EndInv
<1>9. ASSUME NEW m \in SMs, NEW c \in Conns, OpenNoFun(m, c) PROVE EndInv'
  <2>1. UNCHANGED <<table, pc, opening>>
      BY <1>9 DEF OpenNoFun
  <2>2. PICK d \in Data, s \in StateIDs \ {End} : pool' = PoolAdd(c, NewState(s, d))
      BY <1>9 DEF OpenNoFun
  <2>3. NewState(s, d).state # End
      BY DEF NewState
  <2>4. EndStateGone'
      BY <1>1, <2>1, <2>2, <2>3, AddEnds
  <2> QED
      BY <1>1, <2>1, <2>4 DEF EndInv
<1>10. ASSUME NEW m \in SMs, NEW c \in Removable, RemoveState(m, c) PROVE EndInv'
  <2>1. /\ table' = [table EXCEPT ![m][c] = NoState]
        /\ UNCHANGED <<pool, pc, opening>>
      BY <1>10 DEF RemoveState
  <2>2. EndStateGone'
      BY <1>1, <2>1 DEF EndStateGone, TypeOK
  <2> QED
      BY <1>1, <2>1, <2>2 DEF EndInv
<1> QED
    BY <1>2, <1>3, <1>4, <1>5, <1>6, <1>7, <1>8, <1>9, <1>10
       DEF Next, Continue, vars, Tick

\* Whatever the functions do, and whether a packet, a timeout, a transitionNow or
\* addState brings a connection to the end state: no table and no pool entry keeps
\* it (the four calls of removeState and the return of addState).
THEOREM EndStateGoneCorrect == Spec => []EndStateGone
<1>1. Init => EndInv
  <2> SUFFICES ASSUME Init PROVE EndInv
      OBVIOUS
  <2>1. TypeOK
      BY DEF Init, TypeOK, StateOrNone, Opening
  <2>2. EndStateGone /\ \A m \in SMs : pc[m] # "publish"
      BY DEF Init, EndStateGone
  <2> QED
      BY <2>1, <2>2 DEF EndInv
<1>2. EndInv => EndStateGone
    BY DEF EndInv
<1> QED
    BY <1>1, <1>2, EndStep, PTL DEF Spec

-----------------------------------------------------------------------------
(* IDs that are not reused                                                 *)

\* An ID is added by one addState at a time, and the pool has no State of it yet.
FreshInv ==
    /\ TypeOK
    /\ AddsFresh
    /\ \A m, n \in SMs :
        opening[m].conn = opening[n].conn /\ opening[m].conn # NoConn => m = n

\* A step that gives the pool no State and begins no addState.
LEMMA FreshQuiet ==
    ASSUME FreshInv, TypeOK', NEW m \in SMs,
           \A k \in Conns : pool'[k] # NoState => pool[k] # NoState,
           \/ UNCHANGED opening
           \/ opening' = [opening EXCEPT ![m] = NoOpening],
           \A n \in SMs : pc'[n] = "publish" => pc[n] = "publish" /\ opening'[n] = opening[n]
    PROVE  FreshInv'
<1>1. opening \in [SMs -> Opening] /\ NoOpening.conn = NoConn
    BY DEF FreshInv, TypeOK, NoOpening
<1>2. \A n \in SMs : pc[n] = "publish" => opening[n].conn \in Conns
    BY <1>1 DEF FreshInv, TypeOK, Opening
<1>3. AddsFresh'
    BY <1>2 DEF FreshInv, AddsFresh
<1>4. \A n \in SMs : opening'[n].conn # NoConn => opening'[n].conn = opening[n].conn
    BY <1>1
<1>5. \A a, b \in SMs :
        opening'[a].conn = opening'[b].conn /\ opening'[a].conn # NoConn => a = b
    BY <1>4 DEF FreshInv
<1> QED
    BY <1>3, <1>5 DEF FreshInv

\* Store takes States out of the pool only.
LEMMA StorePool ==
    ASSUME TypeOK, NEW m \in SMs, NEW c \in Conns, NEW f \in FindState(m, c), NEW st,
           Store(m, c, f, st)
    PROVE  \A k \in Conns : pool'[k] # NoState => pool[k] # NoState
BY DEF TypeOK, Store, FindState, PoolErase

LEMMA FreshStep == ASSUME FreshIDs, FreshInv, [Next]_vars PROVE FreshInv'
<1> USE ProgramAssumption
<1>1. TypeOK /\ TypeOK'
    BY TypeStep DEF FreshInv
<1>2. CASE UNCHANGED <<pool, pc, opening>>
    BY <1>1, <1>2 DEF FreshInv, AddsFresh
<1>3. ASSUME NEW m \in SMs,
             \/ SkipTimeout(m) \/ TimeoutWithoutState(m) \/ EndTimeouts(m)
             \/ DropPkt(m) \/ EndBatch(m) \/ \E ps \in Batches : BeginBatch(m, ps)
      PROVE  FreshInv'
  <2>1. UNCHANGED <<pool, opening>>
      BY <1>3 DEF SkipTimeout, TimeoutWithoutState, EndTimeouts, DropPkt, EndBatch,
                  BeginBatch
  <2>2. UNCHANGED pc \/ \E l : l # "publish" /\ pc' = [pc EXCEPT ![m] = l]
      BY <1>3 DEF SkipTimeout, TimeoutWithoutState, EndTimeouts, DropPkt, EndBatch,
                  BeginBatch
  <2>3. \A n \in SMs : pc'[n] = "publish" => pc[n] = "publish"
      BY <1>1, <2>2 DEF TypeOK
  <2> QED
      BY <1>1, <2>1, <2>3, FreshQuiet
<1>4. ASSUME NEW m \in SMs, FireTimeout(m) PROVE FreshInv'
  <2>1. UNCHANGED <<pc, opening>>
      BY <1>4 DEF FireTimeout
  <2>2. PICK t \in Due(m), e \in TimeoutEffects :
            LET c == timeoutFunctions[m][t.timeoutID]
            IN  /\ c # NoConn
                /\ \E f \in FindState(m, c) :
                     Store(m, c, f, RunTimeout(m, c, f.st, e).st)
      BY <1>4 DEF FireTimeout
  <2> DEFINE c == timeoutFunctions[m][t.timeoutID]
  <2>3. c \in Conns
      BY <1>1, <2>2 DEF Due, Tops, TypeOK, Timeout
  <2>4. \E f \in FindState(m, c) : Store(m, c, f, RunTimeout(m, c, f.st, e).st)
      BY <2>2
  <2> HIDE DEF c
  <2>5. \A k \in Conns : pool'[k] # NoState => pool[k] # NoState
      BY <1>1, <2>3, <2>4, StorePool
  <2> QED
      BY <1>1, <2>1, <2>5, FreshQuiet
<1>5. ASSUME NEW m \in SMs, RunPkt(m) PROVE FreshInv'
  <2>1. UNCHANGED <<pc, opening>> /\ CurrentPkt(m) \in Conns
      BY <1>5 DEF RunPkt
  <2>2. \E f \in FindState(m, CurrentPkt(m)) : \E st : Store(m, CurrentPkt(m), f, st)
      BY <1>5 DEF RunPkt
  <2>3. \A k \in Conns : pool'[k] # NoState => pool[k] # NoState
      BY <1>1, <2>1, <2>2, StorePool
  <2> QED
      BY <1>1, <2>1, <2>3, FreshQuiet
<1>6. ASSUME NEW m \in SMs, NEW c \in Conns, OpenRun(m, c) PROVE FreshInv'
  <2>1. Unused(c) /\ UNCHANGED <<table, pool>>
      BY <1>6 DEF OpenRun
  <2>2. CASE UNCHANGED <<pc, opening>>
      BY <1>1, <2>1, <2>2 DEF FreshInv, AddsFresh
  <2>3. CASE \E o : /\ o.conn = c
                    /\ opening' = [opening EXCEPT ![m] = o]
                    /\ pc' = [pc EXCEPT ![m] = "publish"]
    <3>1. PICK o : /\ o.conn = c
                   /\ opening' = [opening EXCEPT ![m] = o]
                   /\ pc' = [pc EXCEPT ![m] = "publish"]
        BY <2>3
    <3>2. \A n \in SMs : opening[n].conn # c /\ pool[c] = NoState
        BY <2>1 DEF Unused
    <3>3. AddsFresh'
        BY <1>1, <2>1, <3>1, <3>2 DEF FreshInv, AddsFresh, TypeOK
    <3>4. \A a, b \in SMs :
            opening'[a].conn = opening'[b].conn /\ opening'[a].conn # NoConn => a = b
        BY <1>1, <3>1, <3>2 DEF FreshInv, TypeOK
    <3> QED
        BY <1>1, <3>3, <3>4 DEF FreshInv
  <2>4. \/ UNCHANGED <<pc, opening>>
        \/ \E st, b1, b2 :
              /\ opening' = [opening EXCEPT ![m] =
                    [conn |-> c, st |-> st, now |-> b1, free |-> b2]]
              /\ pc' = [pc EXCEPT ![m] = "publish"]
      BY <1>6 DEF OpenRun
  <2>5. ASSUME NEW st, NEW b1, NEW b2
        PROVE  [conn |-> c, st |-> st, now |-> b1, free |-> b2].conn = c
      OBVIOUS
  <2> QED
      BY <2>2, <2>3, <2>4, <2>5
<1>7. ASSUME NEW m \in SMs, OpenPublish(m) PROVE FreshInv'
  <2>1. /\ pc[m] = "publish"
        /\ pool' = PoolAdd(opening[m].conn, opening[m].st)
        /\ pc' = [pc EXCEPT ![m] = "return"]
        /\ UNCHANGED <<table, opening>>
      BY <1>7 DEF OpenPublish, At
  <2> DEFINE c == opening[m].conn
  <2>2. c \in Conns /\ c # NoConn
      BY <1>1, <2>1 DEF TypeOK, Opening
  <2>3. \A n \in SMs : pc'[n] = "publish" => pc[n] = "publish" /\ n # m
      BY <1>1, <2>1 DEF TypeOK
  <2>4. \A n \in SMs : n # m => opening[n].conn # c
      BY <2>2 DEF FreshInv
  <2> HIDE DEF c
  <2>5. \A k : k # c => pool'[k] = pool[k]
      BY <1>1, <2>1 DEF PoolAdd, TypeOK, c
  <2>6. AddsFresh'
      BY <2>1, <2>3, <2>4, <2>5 DEF FreshInv, AddsFresh
  <2> QED
      BY <1>1, <2>1, <2>6 DEF FreshInv
<1>8. ASSUME NEW m \in SMs, OpenReturn(m) PROVE FreshInv'
  <2>1. /\ pc' = [pc EXCEPT ![m] = "idle"]
        /\ opening' = [opening EXCEPT ![m] = NoOpening]
        /\ UNCHANGED pool
      BY <1>8 DEF OpenReturn
  <2>2. \A n \in SMs : pc'[n] = "publish" => pc[n] = "publish" /\ opening'[n] = opening[n]
      BY <1>1, <2>1 DEF TypeOK
  <2> QED
      BY <1>1, <2>1, <2>2, FreshQuiet
<1>9. ASSUME NEW m \in SMs, NEW c \in Conns, OpenNoFun(m, c) PROVE FreshInv'
  <2>1. /\ UNCHANGED <<pc, opening>>
        /\ \E st : pool' = PoolAdd(c, st)
        /\ \A n \in SMs : opening[n].conn # c
      BY <1>9 DEF OpenNoFun, Unused
  <2>2. \A k : k # c => pool'[k] = pool[k]
      BY <1>1, <2>1 DEF PoolAdd, TypeOK
  <2>3. AddsFresh'
      BY <2>1, <2>2 DEF FreshInv, AddsFresh
  <2> QED
      BY <1>1, <2>1, <2>3 DEF FreshInv
<1>10. ASSUME NEW m \in SMs, NEW c \in Removable, RemoveState(m, c) PROVE FreshInv'
  <2>1. UNCHANGED <<pool, pc, opening>>
      BY <1>10 DEF RemoveState
  <2> QED
      BY <1>2, <2>1
<1> QED
    BY <1>2, <1>3, <1>4, <1>5, <1>6, <1>7, <1>8, <1>9, <1>10
       DEF Next, Continue, vars, Tick

LEMMA FreshCorrect == ASSUME FreshIDs PROVE Spec => []FreshInv
<1>1. Init => FreshInv
  <2> SUFFICES ASSUME Init PROVE FreshInv
      OBVIOUS
  <2>1. TypeOK
      BY DEF Init, TypeOK, StateOrNone, Opening
  <2>2. \A m \in SMs : pc[m] # "publish" /\ opening[m].conn = NoConn
      BY DEF Init, NoOpening
  <2> QED
      BY <2>1, <2>2 DEF FreshInv, AddsFresh
<1>2. FreshInv /\ [Next]_vars => FreshInv'
    BY FreshStep
<1> QED
    BY <1>1, <1>2, PTL DEF Spec

\* No connection object is lost: one that was not disposed of is in a table, in the
\* pool or in the hands of an addState.  The IDs must be fresh, because
\* ConnectionPool::add keeps the entry it has and nobody looks at its result.
THEOREM NoLeakCorrect == ASSUME NoOpenNow, FreshIDs PROVE Spec => []NoLeak
<1>1. Init => NoLeak
    BY DEF Init, NoLeak
<1>2. ASSUME NoLeak, IInv, FreshInv, Moves PROVE NoLeak'
  <2>1. CASE Still
    <3>1. live \subseteq Data
        BY <1>2 DEF IInv, TypeOK
    <3> QED
        BY <1>2, <2>1, <3>1 DEF Still, NoLeak, Shared, Holds, InTable, InPool
  <2>2. ASSUME NEW d0 \in Data, NEW kind \in Kinds, NEW m \in SMs, NEW c \in Conns,
               OnlyMoves(d0, kind, m, c), Clean(d0, kind)
        PROVE  NoLeak'
    <3> SUFFICES ASSUME NEW d \in live'
                 PROVE  \/ \E k \in Conns : InPool(k, d)'
                        \/ \E n \in SMs, k \in Conns : InTable(n, k, d)'
                        \/ \E n \in SMs : Opens(n, d)'
        BY DEF NoLeak, Shared, Holds
    <3>1. CASE d = d0
        BY <2>2, <3>1 DEF OnlyMoves, Clean, Kinds
    <3>2. CASE d # d0
      <4>1. d \in live /\ d \in Data
          BY <1>2, <2>2, <3>2 DEF OnlyMoves, IInv, TypeOK
      <4>2. \/ \E k \in Conns : InPool(k, d)
            \/ \E n \in SMs, k \in Conns : InTable(n, k, d)
            \/ \E n \in SMs : Opens(n, d)
          BY <1>2, <4>1 DEF NoLeak, Shared, Holds
      <4> QED
          BY <2>2, <3>2, <4>1, <4>2 DEF OnlyMoves
    <3> QED
        BY <3>1, <3>2
  <2> QED
      BY <1>2, <2>1, <2>2 DEF Moves, FreshInv
<1>3. NoLeak /\ IInv /\ FreshInv /\ [Next]_vars => NoLeak'
    BY <1>2, EveryStep
<1> QED
    BY <1>1, <1>3, IInvCorrect, FreshCorrect, PTL DEF Spec

-----------------------------------------------------------------------------
(* One State of a connection in the process                                *)

\* The table of an object whose addState is about to publish has no State of the ID.
Unlisted == \A m \in SMs : pc[m] = "publish" => table[m][opening[m].conn] = NoState

Unique ==
    /\ TypeOK
    /\ \A m \in SMs : ~opening[m].now
    /\ Unlisted
    /\ \A c \in Conns : \A x, y \in Places(c) : x = y

\* A step that finds at most one place for a connection, or no new one.
LEMMA FewPlaces ==
    ASSUME Unique, TypeOK', \A m \in SMs : ~opening'[m].now, Unlisted',
           \A c \in Conns : Places(c)' \subseteq Places(c) \/ \E x : Places(c)' \subseteq {x}
    PROVE  Unique'
BY DEF Unique

LEMMA PlacesOf ==
    ASSUME NEW c \in Conns
    PROVE  /\ \A x : x \in Places(c) <=>
                \/ x \in SMs /\ table[x][c] # NoState
                \/ x \in SMs /\ InHand(x) /\ opening[x].conn = c
                \/ x = Pool /\ pool[c] # NoState
           /\ \A x : x \in Places(c)' <=>
                \/ x \in SMs /\ table'[x][c] # NoState
                \/ x \in SMs /\ InHand(x)' /\ opening'[x].conn = c
                \/ x = Pool /\ pool'[c] # NoState
BY DEF Places

LEMMA StorePlaces ==
    ASSUME Unique, Listening = {}, NEW m \in SMs, NEW c \in Conns,
           NEW f \in FindState(m, c), NEW st, Store(m, c, f, st), UNCHANGED <<pc, opening>>
    PROVE  /\ \A k \in Conns : Places(k)' \subseteq Places(k) \/ \E x : Places(k)' \subseteq {x}
           /\ pc[m] # "publish" => Unlisted'
<1>1. /\ table \in [SMs -> [Conns -> StateOrNone]]
      /\ pool \in [Conns -> StateOrNone]
    BY DEF Unique, TypeOK
<1>2. \A n \in SMs : InHand(n)' <=> InHand(n)
    BY DEF InHand
<1>3. \A n \in SMs, j \in Conns : n # m \/ j # c => table'[n][j] = table[n][j]
    BY <1>1 DEF Store
<1>6. pc[m] # "publish" => Unlisted'
  <2>1. \A n \in SMs : pc[n] = "publish" => opening[n].conn \in Conns
      BY DEF Unique, TypeOK, Opening
  <2> QED
      BY <1>3, <2>1 DEF Unique, Unlisted
<1> SUFFICES ASSUME NEW k \in Conns
             PROVE  Places(k)' \subseteq Places(k) \/ \E x : Places(k)' \subseteq {x}
    BY <1>6
<1>4. CASE table[m][c] # NoState
  <2>1. pool' = pool
      BY <1>4 DEF Store, FindState
  <2>2. Places(k)' \subseteq Places(k)
      BY <1>2, <1>3, <1>4, <2>1, PlacesOf
  <2> QED
      BY <2>2
<1>5. CASE table[m][c] = NoState
  <2>1. pool[c] # NoState /\ pool' = [pool EXCEPT ![c] = NoState]
      BY <1>5 DEF Store, FindState, PoolErase
  <2>2. CASE k = c
    <3>1. \A x \in Places(k) : x = Pool
        BY <2>1, <2>2, PlacesOf DEF Unique
    <3>2. Places(k)' \subseteq {m}
        BY <1>1, <1>2, <1>3, <2>1, <2>2, <3>1, PlacesOf
    <3> QED
        BY <3>2
  <2>3. CASE k # c
    <3>1. Places(k)' \subseteq Places(k)
        BY <1>1, <1>2, <1>3, <2>1, <2>3, PlacesOf
    <3> QED
        BY <3>1
  <2> QED
      BY <2>2, <2>3
<1> QED
    BY <1>4, <1>5

LEMMA UniqueStep ==
    ASSUME NoOpenNow, FreshIDs, Listening = {}, Unique, [Next]_vars
    PROVE  Unique'
<1> USE ProgramAssumption
<1> DEFINE Few == \A c \in Conns : Places(c)' \subseteq Places(c)
                                   \/ \E x : Places(c)' \subseteq {x}
<1>1. TypeOK /\ TypeOK' /\ \A m \in SMs : ~opening[m].now /\ ~opening'[m].now
    BY TypeStep, QuietStep DEF Unique
<1>2. CASE UNCHANGED <<table, pool, opening, pc>>
    BY <1>1, <1>2 DEF Unique, Unlisted, Places, InHand
<1>3. ASSUME NEW m \in SMs,
             \/ SkipTimeout(m) \/ TimeoutWithoutState(m) \/ EndTimeouts(m)
             \/ DropPkt(m) \/ EndBatch(m) \/ \E ps \in Batches : BeginBatch(m, ps)
      PROVE  Unique'
  <2>1. UNCHANGED <<table, pool, opening>>
      BY <1>3 DEF SkipTimeout, TimeoutWithoutState, EndTimeouts, DropPkt, EndBatch,
                  BeginBatch
  <2>2. UNCHANGED pc \/ \E l : l \notin {"publish", "return"} /\ pc' = [pc EXCEPT ![m] = l]
      BY <1>3 DEF SkipTimeout, TimeoutWithoutState, EndTimeouts, DropPkt, EndBatch,
                  BeginBatch
  <2>3. \A n \in SMs : InHand(n)' => InHand(n)
      BY <1>1, <2>1, <2>2 DEF InHand, TypeOK
  <2>4. Few
      BY <2>1, <2>3, PlacesOf
  <2>5. Unlisted'
      BY <1>1, <2>1, <2>2 DEF Unique, Unlisted, TypeOK
  <2> QED
      BY <1>1, <2>4, <2>5, FewPlaces
<1>4. ASSUME NEW m \in SMs, FireTimeout(m) PROVE Unique'
  <2>1. UNCHANGED <<pc, opening>> /\ pc[m] # "publish"
      BY <1>4 DEF FireTimeout, At
  <2>2. PICK t \in Due(m), e \in TimeoutEffects :
            LET c == timeoutFunctions[m][t.timeoutID]
            IN  /\ c # NoConn
                /\ \E f \in FindState(m, c) :
                     Store(m, c, f, RunTimeout(m, c, f.st, e).st)
      BY <1>4 DEF FireTimeout
  <2> DEFINE c == timeoutFunctions[m][t.timeoutID]
  <2>3. c \in Conns
      BY <1>1, <2>2 DEF Due, Tops, TypeOK, Timeout
  <2>4. \E f \in FindState(m, c) : Store(m, c, f, RunTimeout(m, c, f.st, e).st)
      BY <2>2
  <2> HIDE DEF c
  <2>5. Few /\ Unlisted'
      BY <2>1, <2>3, <2>4, StorePlaces
  <2> QED
      BY <1>1, <2>5, FewPlaces
<1>5. ASSUME NEW m \in SMs, RunPkt(m) PROVE Unique'
  <2>1. UNCHANGED <<pc, opening>> /\ CurrentPkt(m) \in Conns /\ pc[m] # "publish"
      BY <1>5 DEF RunPkt, At
  <2>2. \E f \in FindState(m, CurrentPkt(m)) : \E st : Store(m, CurrentPkt(m), f, st)
      BY <1>5 DEF RunPkt
  <2>3. Few /\ Unlisted'
      BY <2>1, <2>2, StorePlaces
  <2> QED
      BY <1>1, <2>3, FewPlaces
<1>6. ASSUME NEW m \in SMs, NEW c \in Conns, OpenRun(m, c) PROVE Unique'
  <2>1. Unused(c) /\ UNCHANGED <<table, pool>> /\ pc[m] = "idle"
      BY <1>6 DEF OpenRun, At
  <2>2. CASE UNCHANGED <<pc, opening>>
      BY <1>2, <2>1, <2>2
  <2>3. CASE \E o : /\ o.conn = c
                    /\ opening' = [opening EXCEPT ![m] = o]
                    /\ pc' = [pc EXCEPT ![m] = "publish"]
    <3>1. PICK o : /\ o.conn = c
                   /\ opening' = [opening EXCEPT ![m] = o]
                   /\ pc' = [pc EXCEPT ![m] = "publish"]
        BY <2>3
    <3>2. \A n \in SMs : InHand(n)' /\ n # m => InHand(n) /\ opening'[n] = opening[n]
        BY <1>1, <3>1 DEF InHand, TypeOK
    <3>3. opening'[m].conn = c
        BY <1>1, <3>1 DEF TypeOK
    <3>4. Places(c)' \subseteq {m}
        BY <2>1, <3>2, PlacesOf DEF Unused
    <3>5. \A k \in Conns : k # c => Places(k)' \subseteq Places(k)
        BY <2>1, <3>2, <3>3, PlacesOf
    <3>6. Few
        BY <3>4, <3>5
    <3>7. Unlisted'
        BY <1>1, <2>1, <3>1 DEF Unique, Unlisted, Unused, TypeOK
    <3> QED
        BY <1>1, <3>6, <3>7, FewPlaces
  <2>4. \/ UNCHANGED <<pc, opening>>
        \/ \E st, b1, b2 :
              /\ opening' = [opening EXCEPT ![m] =
                    [conn |-> c, st |-> st, now |-> b1, free |-> b2]]
              /\ pc' = [pc EXCEPT ![m] = "publish"]
      BY <1>6 DEF OpenRun
  <2>5. ASSUME NEW st, NEW b1, NEW b2
        PROVE  [conn |-> c, st |-> st, now |-> b1, free |-> b2].conn = c
      OBVIOUS
  <2> QED
      BY <2>2, <2>3, <2>4, <2>5
<1>7. ASSUME NEW m \in SMs, OpenPublish(m) PROVE Unique'
  <2>0. PICK c : c = opening[m].conn
      OBVIOUS
  <2>1. /\ pc[m] = "publish"
        /\ pool' = PoolAdd(c, opening[m].st)
        /\ pc' = [pc EXCEPT ![m] = "return"]
        /\ UNCHANGED <<table, opening>>
      BY <1>7, <2>0 DEF OpenPublish, At
  <2>2. c \in Conns /\ InHand(m)
      BY <1>1, <2>0, <2>1 DEF TypeOK, Opening, InHand
  <2>3. \A n \in SMs : InHand(n)' <=> InHand(n) /\ n # m
      BY <1>1, <2>1 DEF InHand, TypeOK
  <2>4. Places(c) = {m}
      BY <2>0, <2>2, PlacesOf DEF Unique
  <2>5. \A k : k # c => pool'[k] = pool[k]
      BY <1>1, <2>1 DEF PoolAdd, TypeOK
  <2>6. table[m][c] = NoState
      BY <2>0, <2>1 DEF Unique, Unlisted
  <2>7. Places(c)' \subseteq {Pool}
    <3>1. \A n \in SMs : table[n][c] # NoState => n = m
        BY <2>2, <2>4, PlacesOf
    <3>2. \A n \in SMs : InHand(n) /\ opening[n].conn = c => n = m
        BY <2>2, <2>4, PlacesOf
    <3>3. \A n \in SMs : table'[n][c] = NoState /\ ~(InHand(n)' /\ opening'[n].conn = c)
        BY <2>1, <2>3, <2>6, <3>1, <3>2
    <3> QED
        BY <2>2, <3>3, PlacesOf
  <2>8. \A k \in Conns : k # c => Places(k)' \subseteq Places(k)
      BY <2>1, <2>3, <2>5, PlacesOf
  <2>9. Few
    <3>1. \E x : Places(c)' \subseteq {x}
        BY <2>7
    <3> QED
        BY <2>8, <3>1
  <2>10. Unlisted'
      BY <1>1, <2>1 DEF Unique, Unlisted, TypeOK
  <2> QED
      BY <1>1, <2>9, <2>10, FewPlaces
<1>8. ASSUME NEW m \in SMs, OpenReturn(m) PROVE Unique'
  <2>1. /\ pc[m] = "return" /\ pc' = [pc EXCEPT ![m] = "idle"]
        /\ opening' = [opening EXCEPT ![m] = NoOpening]
        /\ UNCHANGED pool
      BY <1>8 DEF OpenReturn, At
  <2>2. UNCHANGED table
      BY <1>1, <1>8 DEF OpenReturn
  <2>3. \A n \in SMs : InHand(n)' => InHand(n) /\ opening'[n] = opening[n]
      BY <1>1, <2>1 DEF InHand, TypeOK
  <2>4. Few
      BY <2>1, <2>2, <2>3, PlacesOf
  <2>5. Unlisted'
      BY <1>1, <2>1, <2>2 DEF Unique, Unlisted, TypeOK
  <2> QED
      BY <1>1, <2>4, <2>5, FewPlaces
<1>9. ASSUME NEW m \in SMs, NEW c \in Conns, OpenNoFun(m, c) PROVE Unique'
  <2>1. /\ UNCHANGED <<table, pc, opening>> /\ Unused(c)
        /\ \E st : pool' = PoolAdd(c, st)
      BY <1>9 DEF OpenNoFun
  <2>2. \A k : k # c => pool'[k] = pool[k]
      BY <1>1, <2>1 DEF PoolAdd, TypeOK
  <2>3. \A n \in SMs : InHand(n)' <=> InHand(n)
      BY <2>1 DEF InHand
  <2>4. Places(c)' \subseteq {Pool}
    <3>1. \A n \in SMs : table'[n][c] = NoState /\ opening'[n].conn # c
        BY <2>1 DEF Unused
    <3> QED
        BY <3>1, PlacesOf
  <2>5. \A k \in Conns : k # c => Places(k)' \subseteq Places(k)
      BY <2>1, <2>2, <2>3, PlacesOf
  <2>6. Few
    <3>1. \E x : Places(c)' \subseteq {x}
        BY <2>4
    <3> QED
        BY <2>5, <3>1
  <2>7. Unlisted'
      BY <2>1 DEF Unique, Unlisted
  <2> QED
      BY <1>1, <2>6, <2>7, FewPlaces
<1>10. ASSUME NEW m \in SMs, NEW c \in Removable, RemoveState(m, c) PROVE Unique'
  <2>1. /\ table' = [table EXCEPT ![m][c] = NoState]
        /\ UNCHANGED <<pool, pc, opening>>
      BY <1>10 DEF RemoveState
  <2>2. \A n \in SMs, k \in Conns : table'[n][k] # NoState => table[n][k] # NoState
      BY <1>1, <2>1 DEF TypeOK
  <2>3. \A n \in SMs : InHand(n)' <=> InHand(n)
      BY <2>1 DEF InHand
  <2>4. Few
      BY <2>1, <2>2, <2>3, PlacesOf
  <2>5. \A n \in SMs : pc[n] = "publish" => opening[n].conn \in Conns
      BY <1>1 DEF TypeOK, Opening
  <2>6. Unlisted'
      BY <2>1, <2>2, <2>5 DEF Unique, Unlisted
  <2> QED
      BY <1>1, <2>4, <2>6, FewPlaces
<1> HIDE DEF Few
<1> QED
    BY <1>2, <1>3, <1>4, <1>5, <1>6, <1>7, <1>8, <1>9, <1>10
       DEF Next, Continue, vars, Tick

\* With fresh IDs and objects that do not listen, a connection has at most one State
\* in the whole process, in whatever order packets, addState and timeouts of the
\* threads run (findAndErase of ConnectionPool).
THEOREM OneStateCorrect ==
    ASSUME NoOpenNow, FreshIDs, Listening = {}
    PROVE  Spec => []OneStatePerConnection
<1>1. Init => Unique
  <2> SUFFICES ASSUME Init PROVE Unique
      OBVIOUS
  <2>1. TypeOK
      BY DEF Init, TypeOK, StateOrNone, Opening
  <2>2. Unlisted /\ \A m \in SMs : ~InHand(m) /\ ~opening[m].now
      BY DEF Init, Unlisted, InHand, NoOpening
  <2>3. \A c \in Conns : Places(c) = {}
      BY <2>2 DEF Init, Places
  <2> QED
      BY <2>1, <2>2, <2>3 DEF Unique
<1>2. Unique /\ [Next]_vars => Unique'
    BY UniqueStep
<1>3. ASSUME Unique PROVE OneStatePerConnection
  <2> SUFFICES ASSUME NEW c \in Conns PROVE Cardinality(Places(c)) <= 1
      BY DEF OneStatePerConnection
  <2>1. CASE Places(c) = {}
      BY <2>1, FS_EmptySet
  <2>2. ASSUME NEW x \in Places(c) PROVE Cardinality(Places(c)) <= 1
    <3>1. Places(c) = {x}
        BY <1>3 DEF Unique
    <3>2. Cardinality({x}) = 1
        BY FS_Singleton
    <3> QED
        BY <3>1, <3>2
  <2> QED
      BY <2>1, <2>2
<1> QED
    BY <1>1, <1>2, <1>3, PTL DEF Spec

-----------------------------------------------------------------------------
(* The promise of the pool                                                 *)

\* OwnerOf chooses the one thread that has the object.
OwnersNamed ==
    \A d \in Data :
        /\ \A m \in SMs : Holds(m, d) => OwnerOf(d) = m
        /\ (\A m \in SMs : ~Holds(m, d)) /\ Shared(d) => OwnerOf(d) = Pool
        /\ (\A m \in SMs : ~Holds(m, d)) /\ ~Shared(d) => OwnerOf(d) = Nobody

LEMMA OwnerValue == IInv => OwnersNamed
<1> SUFFICES ASSUME IInv, NEW d \in Data
             PROVE  /\ \A m \in SMs : Holds(m, d) => OwnerOf(d) = m
                    /\ (\A m \in SMs : ~Holds(m, d)) /\ Shared(d) => OwnerOf(d) = Pool
                    /\ (\A m \in SMs : ~Holds(m, d)) /\ ~Shared(d) => OwnerOf(d) = Nobody
    BY DEF OwnersNamed
<1>1. ASSUME NEW m \in SMs, NEW n \in SMs, Holds(m, d), Holds(n, d) PROVE m = n
  <2>1. Conns # {}
    <3>1. InHand(m) => opening[m].conn \in Conns
        BY DEF IInv, TypeOK, InHand, Opening
    <3> QED
        BY <1>1, <3>1 DEF Holds, Opens
  <2> QED
      BY <1>1, <2>1 DEF Holds, IInv, SingleOwner
<1>2. ASSUME NEW m \in SMs, Holds(m, d) PROVE OwnerOf(d) = m
  <2>1. \E n \in SMs : Holds(n, d)
      BY <1>2
  <2>2. OwnerOf(d) = CHOOSE n \in SMs : Holds(n, d)
      BY <2>1 DEF OwnerOf
  <2>3. OwnerOf(d) \in SMs /\ Holds(OwnerOf(d), d)
      BY <2>1, <2>2
  <2> QED
      BY <1>1, <1>2, <2>3
<1> QED
    BY <1>2 DEF OwnerOf

LEMMA OwnerValueNext == IInv' => OwnersNamed'
BY OwnerValue, PTL

\* The owner after a step, from the places after it.
LEMMA OwnerMoves ==
    ASSUME IInv, OwnersNamed, OwnersNamed', Moves
    PROVE  \/ \A d \in Data : OwnerOf(d)' = OwnerOf(d)
           \/ \E d0 \in Data, m \in SMs :
                /\ OwnerOf(d0) \in {m, Pool, Nobody} /\ OwnerOf(d0)' \in {m, Pool, Nobody}
                /\ \A d \in Data \ {d0} : OwnerOf(d)' = OwnerOf(d)
<1>1. ASSUME NEW d \in Data, \A n \in SMs : Holds(n, d)' <=> Holds(n, d),
             Shared(d)' <=> Shared(d)
      PROVE  OwnerOf(d)' = OwnerOf(d)
  <2>1. CASE \E n \in SMs : Holds(n, d)
      BY <1>1, <2>1 DEF OwnersNamed
  <2>2. CASE (\A n \in SMs : ~Holds(n, d)) /\ Shared(d)
      BY <1>1, <2>2 DEF OwnersNamed
  <2>3. CASE (\A n \in SMs : ~Holds(n, d)) /\ ~Shared(d)
      BY <1>1, <2>3 DEF OwnersNamed
  <2> QED
      BY <2>1, <2>2, <2>3
<1>2. CASE Still
  <2>1. ASSUME NEW d \in Data PROVE OwnerOf(d)' = OwnerOf(d)
      BY <1>1, <1>2 DEF Still, Holds, Shared, InTable, InPool
  <2> QED
      BY <2>1
<1>3. ASSUME NEW d0 \in Data, NEW kind \in Kinds, NEW m \in SMs, NEW c \in Conns,
             OnlyMoves(d0, kind, m, c)
      PROVE  /\ OwnerOf(d0) \in {m, Pool, Nobody} /\ OwnerOf(d0)' \in {m, Pool, Nobody}
             /\ \A d \in Data \ {d0} : OwnerOf(d)' = OwnerOf(d)
  <2>1. ASSUME NEW d \in Data \ {d0} PROVE OwnerOf(d)' = OwnerOf(d)
    <3>1. \A n \in SMs : Holds(n, d)' <=> Holds(n, d)
        BY <1>3 DEF OnlyMoves, Holds
    <3>2. Shared(d)' <=> Shared(d)
        BY <1>3 DEF OnlyMoves, Shared
    <3> QED
        BY <1>1, <3>1, <3>2
  <2>2. \A n \in SMs : Holds(n, d0) => n = m
      BY <1>3 DEF OnlyMoves, Holds
  <2>3. OwnerOf(d0) \in {m, Pool, Nobody}
      BY <2>2 DEF OwnersNamed
  <2>4. \A n \in SMs : Holds(n, d0)' => n = m
      BY <1>3 DEF OnlyMoves, Holds
  <2>5. OwnerOf(d0)' \in {m, Pool, Nobody}
      BY <2>4 DEF OwnersNamed
  <2> QED
      BY <2>1, <2>3, <2>5
<1> QED
    BY <1>2, <1>3 DEF Moves

\* The steps of the framework are those of the pool protocol: whatever the order of
\* packets, timeouts and addState, a connection object goes from one thread to
\* another through the pool only (add and findAndErase of ConnectionPool).
THEOREM OwnershipCorrect == ASSUME NoOpenNow PROVE Spec => OwnershipRefined
<1> DEFINE owner == [d \in Data |-> OwnerOf(d)]
<1>1. Init => Ownership!Init
  <2> SUFFICES ASSUME Init PROVE Ownership!Init
      OBVIOUS
  <2>1. \A d \in Data : ~Shared(d) /\ \A m \in SMs : ~Holds(m, d)
      BY DEF Init, Shared, Holds, InTable, InPool, Opens, InHand
  <2>2. \A d \in Data : OwnerOf(d) = Nobody
      BY <2>1 DEF OwnerOf
  <2> QED
      BY <2>2 DEF Ownership!Init
<1>2. ASSUME IInv, IInv', OwnersNamed, OwnersNamed', [Next]_vars
      PROVE  Ownership!Next \/ UNCHANGED owner
  <2>1. CASE \A d \in Data : OwnerOf(d)' = OwnerOf(d)
      BY <2>1
  <2>2. ASSUME NEW d0 \in Data, NEW m \in SMs,
               OwnerOf(d0) \in {m, Pool, Nobody}, OwnerOf(d0)' \in {m, Pool, Nobody},
               \A d \in Data \ {d0} : OwnerOf(d)' = OwnerOf(d)
        PROVE  Ownership!Next \/ UNCHANGED owner
    <3>1. CASE OwnerOf(d0)' = OwnerOf(d0)
        BY <2>2, <3>1
    <3>2. CASE OwnerOf(d0)' # OwnerOf(d0)
      <4>1. ASSUME NEW from, NEW to, from = OwnerOf(d0), to = OwnerOf(d0)'
            PROVE  Ownership!Pass(d0, from, to)
          BY <2>2, <4>1 DEF Ownership!Pass
      <4>2. \/ Ownership!Create(d0, m) \/ Ownership!Publish(d0, m)
            \/ Ownership!Claim(d0, m) \/ Ownership!Close(d0, m)
            \/ Ownership!CreateShared(d0) \/ Ownership!ClaimAndClose(d0)
          BY <2>2, <3>2, <4>1 DEF Ownership!Create, Ownership!Publish, Ownership!Claim,
             Ownership!Close, Ownership!CreateShared, Ownership!ClaimAndClose
      <4> QED
          BY <4>2 DEF Ownership!Next
    <3> QED
        BY <3>1, <3>2
  <2>3. Moves
      BY <1>2, EveryStep
  <2> QED
      BY <1>2, <2>1, <2>2, <2>3, OwnerMoves
<1>3. IInv /\ IInv' /\ [Next]_vars => [Ownership!Next]_owner
    BY <1>2, OwnerValue, OwnerValueNext
<1> QED
    BY <1>1, <1>3, IInvCorrect, PTL DEF Spec, OwnershipRefined, Ownership!Spec

=============================================================================
