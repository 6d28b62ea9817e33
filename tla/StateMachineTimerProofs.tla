----------------------- MODULE StateMachineTimerProofs ------------------------
(***************************************************************************)
(* Theorems about what a FunIface leaves behind: the timeouts of its       *)
(* StateMachine and the marks of its BufArray, for every number of         *)
(* objects, connections and timeouts.                                      *)
(***************************************************************************)
EXTENDS StateMachineProofs

USE ConstantsAssumption

(* Timeouts.  A program of the kind the timers are made for: only functions *)
(* that packets run set a timeout, one for each packet and not on the way   *)
(* to the end state, and the program leaves removing to the framework.      *)

OneTimeout ==
    /\ ~IDsWrap /\ Removable = {} /\ NoOpenNow
    /\ \A e \in OpenEffects \cup TimeoutEffects : e.delay = NoTimeout
    /\ \A e \in Effects : e.delay # NoTimeout => ~e.now /\ e.next # End

Unarmed(st) == st.timeoutID = InvalidID

\* The timers and the State after a function that set no timeout.
LEMMA CallPlain ==
    ASSUME NEW w, IsWork(w), NEW c \in Conns, NEW e \in Effect, e.delay = NoTimeout
    PROVE  LET v == Call(w, c, e)
           IN  /\ v.q = w.q /\ v.funs = w.funs /\ v.cur = w.cur
               /\ v.st.timeoutID = w.st.timeoutID
               /\ v.st.state = IF e.next = Stay THEN w.st.state ELSE e.next
<1> DEFINE moved == [w EXCEPT !.st.state = IF e.next = Stay THEN @ ELSE e.next,
                              !.ba = IF e.get THEN AddPkt(@, Unidentified) ELSE @]
<1>1. Call(w, c, e) = moved
    BY DEF Call
<1>2. /\ moved.q = w.q /\ moved.funs = w.funs /\ moved.cur = w.cur
      /\ moved.st.timeoutID = w.st.timeoutID
      /\ moved.st.state = IF e.next = Stay THEN w.st.state ELSE e.next
    BY DEF IsWork, WorkOn, State
<1> HIDE DEF moved
<1> QED
    BY <1>1, <1>2

\* ... and of one that set a timeout, when its ID has no function yet.
LEMMA CallTimed ==
    ASSUME now \in Nat, NEW w, IsWork(w), NEW c \in Conns, NEW e \in Effect,
           e.delay # NoTimeout, w.cur # InvalidID, w.funs[w.cur] = NoConn
    PROVE  LET v == Call(w, c, e)
           IN  /\ \E t \in Timeout : t.timeoutID = w.cur /\ v.q = w.q \cup {t}
               /\ v.funs = [w.funs EXCEPT ![w.cur] = c]
               /\ v.cur = w.cur + 1
               /\ v.st.timeoutID = w.cur
               /\ v.st.state = IF e.next = Stay THEN w.st.state ELSE e.next
<1> DEFINE moved == [w EXCEPT !.st.state = IF e.next = Stay THEN @ ELSE e.next,
                              !.ba = IF e.get THEN AddPkt(@, Unidentified) ELSE @]
           t == [time |-> now + e.delay, timeoutID |-> w.cur]
<1>1. Call(w, c, e) = SetTimeout(moved, c, e.delay)
    BY DEF Call
<1>2. /\ moved.q = w.q /\ moved.funs = w.funs /\ moved.cur = w.cur /\ IsWork(moved)
      /\ moved.st.state = IF e.next = Stay THEN w.st.state ELSE e.next
    BY DEF IsWork, WorkOn, State, Effect
<1>3. t \in Timeout /\ t.timeoutID = w.cur /\ w.cur \in 0..InvalidID
  <2>1. w.cur \in 0..InvalidID
      BY DEF IsWork, WorkOn
  <2>2. e.delay \in Nat
      BY DEF Effect
  <2> QED
      BY <2>1, <2>2 DEF Timeout
<1>4. Emplace(moved.funs, moved.cur, c) = [w.funs EXCEPT ![w.cur] = c]
    BY <1>2 DEF Emplace
<1>5. NextTimeoutID(moved.cur) = w.cur + 1
    BY <1>2 DEF NextTimeoutID
<1> HIDE DEF moved
<1>6. LET v == SetTimeout(moved, c, e.delay)
      IN  /\ v.q = w.q \cup {t} /\ v.funs = [w.funs EXCEPT ![w.cur] = c]
          /\ v.cur = w.cur + 1 /\ v.st.timeoutID = w.cur
          /\ v.st.state = moved.st.state
  <2> DEFINE funs == Emplace(moved.funs, moved.cur, c)
             cur  == NextTimeoutID(moved.cur)
             tt   == [time |-> now + e.delay, timeoutID |-> moved.cur]
             x    == [moved EXCEPT !.st.timeoutID = moved.cur, !.q = @ \cup {tt},
                                   !.funs = funs, !.cur = cur]
  <2>1. SetTimeout(moved, c, e.delay) = x
      BY <1>2 DEF SetTimeout, IsWork, WorkOn
  <2>2. tt = t /\ funs = [w.funs EXCEPT ![w.cur] = c] /\ cur = w.cur + 1
      BY <1>2, <1>4, <1>5
  <2> HIDE DEF funs, cur, tt, t
  <2>3. /\ x.q = moved.q \cup {tt} /\ x.funs = funs /\ x.cur = cur
        /\ x.st.timeoutID = moved.cur /\ x.st.state = moved.st.state
      BY <1>2 DEF IsWork, WorkOn, State
  <2> HIDE DEF x
  <2> QED
      BY <1>2, <2>1, <2>2, <2>3
<1> QED
    BY <1>1, <1>2, <1>3, <1>6

\* IDs at and above curTimeoutID are unused.
IDsFresh ==
    \A m \in SMs :
        /\ curTimeoutID[m] < InvalidID
        /\ \A id \in 0..InvalidID : id >= curTimeoutID[m] => timeoutFunctions[m][id] = NoConn

\* No State that is on its way to a table names a timeout.
NewUnarmed ==
    /\ \A c \in Conns : pool[c] # NoState => Unarmed(pool[c])
    /\ \A m \in SMs : pc[m] = "publish" => Unarmed(opening[m].st)

TimerInv ==
    EndInv /\ IDsFresh /\ NewUnarmed /\ OnlyArmedTimeouts /\ ArmedTimeoutPending

\* What runPkt leaves of the timers: the timeout of st has lost its function, and
\* the connection may have set one.
PktWork(m, c, st, w) ==
    LET funs == Disarm(timeoutFunctions[m], st)
    IN  \/ /\ w.q = timeoutsQ[m] /\ w.funs = funs /\ w.cur = curTimeoutID[m]
           /\ Unarmed(w.st)
        \/ /\ \E t \in Timeout : t.timeoutID = curTimeoutID[m] /\ w.q = timeoutsQ[m] \cup {t}
           /\ w.funs = [funs EXCEPT ![curTimeoutID[m]] = c]
           /\ w.cur = curTimeoutID[m] + 1 /\ w.cur < InvalidID
           /\ w.st.timeoutID = curTimeoutID[m]
           /\ w.st.state # End

\* The work a call of runPkt starts with.
FirstWork(m, st) == [Work(m, ClearTimeout(st)) EXCEPT !.funs = Disarm(@, st)]

LEMMA Disarmed ==
    ASSUME TimerInv, NEW m \in SMs, NEW st \in State, NEW w, w = FirstWork(m, st)
    PROVE  /\ IsWork(w)
           /\ w.q = timeoutsQ[m] /\ w.funs = Disarm(timeoutFunctions[m], st)
           /\ w.cur = curTimeoutID[m] /\ Unarmed(w.st) /\ w.st.state = st.state
           /\ w.cur # InvalidID /\ w.cur \in 0..InvalidID /\ w.funs[w.cur] = NoConn
<1>1. ClearTimeout(st) \in State /\ Unarmed(ClearTimeout(st))
      /\ ClearTimeout(st).state = st.state
    BY DEF ClearTimeout, State, Unarmed
<1> DEFINE v == Work(m, ClearTimeout(st))
<1>2. /\ IsWork(v) /\ v.st = ClearTimeout(st)
      /\ v.q = timeoutsQ[m] /\ v.funs = timeoutFunctions[m] /\ v.cur = curTimeoutID[m]
    BY <1>1, WorkType DEF TimerInv, EndInv, Work
<1>6. w = [v EXCEPT !.funs = Disarm(@, st)]
    BY DEF FirstWork
<1> HIDE DEF v
<1>3. /\ IsWork(w) /\ w.st = v.st /\ w.q = v.q /\ w.cur = v.cur
      /\ w.funs = Disarm(v.funs, st)
  <2>1. PICK g : g = Disarm(v.funs, st)
      OBVIOUS
  <2>2. v \in WorkOn(v.ba) /\ v.funs \in [0..InvalidID -> Conns \cup {NoConn}]
      BY <1>2 DEF IsWork, WorkOn
  <2>3. g \in [0..InvalidID -> Conns \cup {NoConn}]
      BY <2>1, <2>2 DEF Disarm
  <2>4. w = [v EXCEPT !.funs = g]
      BY <1>6, <2>1
  <2> QED
      BY <2>1, <2>2, <2>3, <2>4 DEF IsWork, WorkOn
<1>4. /\ timeoutFunctions[m] \in [0..InvalidID -> Conns \cup {NoConn}]
      /\ curTimeoutID[m] \in 0..InvalidID /\ curTimeoutID[m] # InvalidID
      /\ timeoutFunctions[m][curTimeoutID[m]] = NoConn
    BY DEF TimerInv, EndInv, TypeOK, IDsFresh
<1>5. Disarm(timeoutFunctions[m], st)[curTimeoutID[m]] = NoConn
    BY <1>4 DEF Disarm
<1> QED
    BY <1>1, <1>2, <1>3, <1>4, <1>5

\* One function, or a transitionNow from one that set no timeout.
LEMMA PktWorks ==
    ASSUME OneTimeout, TimerInv, NEW m \in SMs, NEW c \in Conns,
           NEW st \in State, st.state # End, NEW e1 \in Effects, NEW e2 \in Effects,
           Allowed(m, e1, 1), Allowed(m, e2, 2),
           NEW w1, w1 = RunFunction(m, c, st, e1),
           NEW w2, w2 = IF NoFunction(w1, e1) THEN w1 ELSE Immediate(w1, c, e1, e2)
    PROVE  PktWork(m, c, st, w2)
<1> USE ProgramAssumption
<1>1. PICK v : v = FirstWork(m, st)
    OBVIOUS
<1>2. /\ IsWork(v)
      /\ v.q = timeoutsQ[m] /\ v.funs = Disarm(timeoutFunctions[m], st)
      /\ v.cur = curTimeoutID[m] /\ Unarmed(v.st) /\ v.st.state = st.state
      /\ v.cur # InvalidID /\ v.cur \in 0..InvalidID /\ v.funs[v.cur] = NoConn
    BY <1>1, Disarmed
<1>0. PICK u : u = Call(v, c, e1)
    OBVIOUS
<1>3. now \in Nat /\ IsWork(u)
    BY <1>0, <1>2, CallType DEF TimerInv, EndInv, TypeOK
<1>4. /\ IsWork(w1)
      /\ w1.st = u.st /\ w1.q = u.q /\ w1.funs = u.funs /\ w1.cur = u.cur
  <2>1. PICK a : a = Mark(u.ba, batch[m].cur, e1.free)
      OBVIOUS
  <2>2. w1 = [u EXCEPT !.ba = a]
      BY <1>0, <1>1, <2>1 DEF RunFunction, FirstWork
  <2> QED
      BY <1>3, <2>2 DEF IsWork, WorkOn
<1>5. CASE e1.delay # NoTimeout
  <2>1. ~e1.now /\ e1.next # End
      BY <1>5 DEF OneTimeout
  <2>2. w2 = w1
      BY <2>1 DEF Immediate
  <2>3. v.cur + 1 < InvalidID
      BY <1>2, <1>5 DEF Allowed, OneTimeout
  <2>4. /\ \E t \in Timeout : t.timeoutID = v.cur /\ u.q = v.q \cup {t}
        /\ u.funs = [v.funs EXCEPT ![v.cur] = c] /\ u.cur = v.cur + 1
        /\ u.st.timeoutID = v.cur
        /\ u.st.state = IF e1.next = Stay THEN v.st.state ELSE e1.next
      BY <1>0, <1>2, <1>3, <1>5, CallTimed
  <2> QED
      BY <1>2, <1>4, <2>1, <2>2, <2>3, <2>4 DEF PktWork
<1>6. CASE e1.delay = NoTimeout
  <2>1. /\ w1.q = v.q /\ w1.funs = v.funs /\ w1.cur = v.cur
        /\ w1.st.timeoutID = v.st.timeoutID
      BY <1>0, <1>2, <1>3, <1>4, <1>6, CallPlain
  <2>2. CASE w2 = w1
      BY <1>2, <2>1, <2>2 DEF PktWork, Unarmed
  <2>3. CASE w2 # w1
    <3>1. w2 = Call(w1, c, e2) /\ e1.now /\ w1.st.state # End
        BY <2>3 DEF Immediate, NoFunction
    <3>2. CASE e2.delay = NoTimeout
      <4>1. /\ w2.q = w1.q /\ w2.funs = w1.funs /\ w2.cur = w1.cur
            /\ w2.st.timeoutID = w1.st.timeoutID
          BY <1>4, <3>1, <3>2, CallPlain
      <4> QED
          BY <1>2, <2>1, <4>1 DEF PktWork, Unarmed
    <3>3. CASE e2.delay # NoTimeout
      <4>1. e2.next # End
          BY <3>3 DEF OneTimeout
      <4>2. v.cur + 1 < InvalidID
          BY <1>2, <3>3 DEF Allowed, OneTimeout
      <4>3. /\ \E t \in Timeout : t.timeoutID = w1.cur /\ w2.q = w1.q \cup {t}
            /\ w2.funs = [w1.funs EXCEPT ![w1.cur] = c]
            /\ w2.cur = w1.cur + 1
            /\ w2.st.timeoutID = w1.cur
            /\ w2.st.state = IF e2.next = Stay THEN w1.st.state ELSE e2.next
          BY <1>2, <1>3, <1>4, <2>1, <3>1, <3>3, CallTimed
      <4> QED
          BY <1>2, <2>1, <3>1, <4>1, <4>2, <4>3 DEF PktWork
    <3> QED
        BY <3>2, <3>3
  <2> QED
      BY <2>2, <2>3
<1> QED
    BY <1>5, <1>6

\* Steps that leave the timers and the tables alone.
LEMMA TimersAlone ==
    ASSUME TimerInv, EndInv', UNCHANGED <<table, timers>>, NewUnarmed'
    PROVE  TimerInv'
BY DEF TimerInv, timers, IDsFresh, OnlyArmedTimeouts, ArmedTimeoutPending

\* A State taken by findState names a timeout only when it is in the table.
LEMMA FoundUnarmed ==
    ASSUME TimerInv, NEW m \in SMs, NEW c \in Conns, NEW f \in FindState(m, c)
    PROVE  /\ f.st \in State /\ f.st.state # End
           /\ f.st = table[m][c] \/ (table[m][c] = NoState /\ Unarmed(f.st))
           /\ \A k \in Conns : f.pool[k] # NoState => f.pool[k] = pool[k]
<1>1. f.st \in State
    BY FindStateType DEF TimerInv, EndInv
<1>2. CASE table[m][c] # NoState
  <2>1. f = [st |-> table[m][c], pool |-> pool, live |-> live]
      BY <1>2 DEF FindState
  <2> QED
      BY <1>1, <1>2, <2>1 DEF TimerInv, EndInv, EndStateGone
<1>3. CASE table[m][c] = NoState /\ pool[c] # NoState
  <2>1. f = [st |-> pool[c], pool |-> PoolErase(c), live |-> live]
      BY <1>3 DEF FindState
  <2>2. f.pool = [pool EXCEPT ![c] = NoState] /\ f.st = pool[c]
      BY <2>1 DEF PoolErase
  <2>3. pool \in [Conns -> StateOrNone]
      BY DEF TimerInv, EndInv, TypeOK
  <2>4. f.st.state # End /\ Unarmed(f.st)
      BY <1>3, <2>2 DEF TimerInv, EndInv, EndStateGone, NewUnarmed
  <2> QED
      BY <1>1, <1>3, <2>2, <2>3, <2>4
<1>4. CASE table[m][c] = NoState /\ pool[c] = NoState
  <2>1. PICK d \in Data :
            f = [st |-> NewState(Start, d), pool |-> pool, live |-> live \cup {d}]
      BY <1>4 DEF FindState
  <2>2. f.st = NewState(Start, d) /\ f.pool = pool
      BY <2>1
  <2>3. f.st.state # End /\ Unarmed(f.st)
      BY <2>2 DEF NewState, Unarmed
  <2> QED
      BY <1>1, <1>4, <2>2, <2>3
<1> QED
    BY <1>2, <1>3, <1>4

\* The pool after findState keeps what NewUnarmed says of it.
LEMMA StoreUnarmed ==
    ASSUME TimerInv, NEW m \in SMs, NEW c \in Conns, NEW f \in FindState(m, c),
           NEW st, Store(m, c, f, st), UNCHANGED <<pc, opening>>
    PROVE  NewUnarmed'
<1>1. \A k \in Conns : pool'[k] # NoState => pool'[k] = pool[k]
    BY FoundUnarmed DEF Store
<1> QED
    BY <1>1 DEF TimerInv, NewUnarmed

LEMMA RunPktTimers ==
    ASSUME OneTimeout, TimerInv, EndInv', NEW m \in SMs, RunPkt(m)
    PROVE  TimerInv'
<1> USE ProgramAssumption
<1>1. PICK c : c = CurrentPkt(m)
    OBVIOUS
<1>2. PICK e1 \in Effects, e2 \in Effects, f \in FindState(m, c) :
            LET w1   == RunFunction(m, c, f.st, e1)
                dead == NoFunction(w1, e1)
                w2   == IF dead THEN w1 ELSE Immediate(w1, c, e1, e2)
            IN  /\ Allowed(m, e1, 1) /\ Allowed(m, e2, 2)
                /\ Store(m, c, f, w2.st)
                /\ SaveTimers(m, w2)
    BY <1>1 DEF RunPkt
<1>3. c \in Conns /\ UNCHANGED <<pc, opening>>
    BY <1>1 DEF RunPkt
<1>4. PICK st : st = f.st
    OBVIOUS
<1>5. PICK w1 : w1 = RunFunction(m, c, st, e1)
    OBVIOUS
<1>6. PICK w : w = IF NoFunction(w1, e1) THEN w1 ELSE Immediate(w1, c, e1, e2)
    OBVIOUS
<1>7. Allowed(m, e1, 1) /\ Allowed(m, e2, 2) /\ Store(m, c, f, w.st) /\ SaveTimers(m, w)
    BY <1>2, <1>4, <1>5, <1>6
<1>8. /\ st \in State /\ st.state # End
      /\ st = table[m][c] \/ (table[m][c] = NoState /\ Unarmed(st))
    BY <1>3, <1>4, FoundUnarmed
<1>9. PktWork(m, c, st, w)
    BY <1>3, <1>5, <1>6, <1>7, <1>8, PktWorks
<1>10. NewUnarmed'
    BY <1>3, <1>7, StoreUnarmed
<1> DEFINE Q == timeoutsQ[m]
           F == timeoutFunctions[m]
           cur == curTimeoutID[m]
           G == Disarm(F, st)
<1>11. /\ table \in [SMs -> [Conns -> StateOrNone]]
       /\ F \in [0..InvalidID -> Conns \cup {NoConn}] /\ cur \in Nat /\ cur < InvalidID
       /\ \A id \in 0..InvalidID : id >= cur => F[id] = NoConn
    BY DEF TimerInv, EndInv, TypeOK, IDsFresh
<1>12. /\ \A id \in 0..InvalidID : G[id] # NoConn => G[id] = F[id] /\ id # st.timeoutID
       /\ \A id \in 0..InvalidID : id # st.timeoutID => G[id] = F[id]
       /\ G \in [0..InvalidID -> Conns \cup {NoConn}]
  <2>1. F[InvalidID] = NoConn
      BY <1>11
  <2> QED
      BY <1>11, <2>1 DEF Disarm
<1>13. /\ table' = [table EXCEPT ![m][c] = IF w.st.state = End THEN NoState ELSE w.st]
       /\ timeoutsQ' = [timeoutsQ EXCEPT ![m] = w.q]
       /\ timeoutFunctions' = [timeoutFunctions EXCEPT ![m] = w.funs]
       /\ curTimeoutID' = [curTimeoutID EXCEPT ![m] = w.cur]
    BY <1>7 DEF Store, SaveTimers
<1>14. /\ timeoutsQ'[m] = w.q /\ timeoutFunctions'[m] = w.funs /\ curTimeoutID'[m] = w.cur
       /\ table'[m][c] = IF w.st.state = End THEN NoState ELSE w.st
       /\ \A k \in Conns : k # c => table'[m][k] = table[m][k]
    BY <1>3, <1>13 DEF TimerInv, EndInv, TypeOK
<1>15. \A n \in SMs : n # m => /\ table'[n] = table[n] /\ timeoutsQ'[n] = timeoutsQ[n]
                               /\ timeoutFunctions'[n] = timeoutFunctions[n]
                               /\ curTimeoutID'[n] = curTimeoutID[n]
    BY <1>13 DEF TimerInv, EndInv, TypeOK
<1>16. w.st # NoState /\ c # NoConn
  <2>1. TypeOK /\ now \in Nat /\ e1 \in Effect /\ e2 \in Effect
      BY DEF TimerInv, EndInv, TypeOK
  <2>2. IsWork(w1)
      BY <1>3, <1>5, <1>8, <2>1, RunFunctionType
  <2>3. IsWork(w)
      BY <1>3, <1>6, <2>1, <2>2, ImmediateType
  <2> QED
      BY <1>3, <2>3 DEF IsWork, WorkOn
<1>17. \A k \in Conns : table[m][k] # NoState /\ table[m][k].timeoutID # InvalidID =>
          LET id == table[m][k].timeoutID
          IN  /\ id \in 0..InvalidID /\ F[id] = k /\ id # cur
              /\ k # c => id # st.timeoutID
              /\ \E t \in Q : t.timeoutID = id
  <2>1. TAKE k \in Conns
  <2>2. HAVE table[m][k] # NoState /\ table[m][k].timeoutID # InvalidID
  <2>3. PICK id : id = table[m][k].timeoutID
      OBVIOUS
  <2>4. id \in 0..InvalidID
      BY <1>11, <2>2, <2>3 DEF StateOrNone, State
  <2>5. F[id] = k /\ \E t \in Q : t.timeoutID = id
      BY <2>2, <2>3 DEF TimerInv, ArmedTimeoutPending
  <2>6. id # cur
      BY <1>11, <2>4, <2>5
  <2>7. k # c => id # st.timeoutID
      BY <1>3, <1>8, <2>2, <2>3, <2>5 DEF TimerInv, ArmedTimeoutPending, Unarmed
  <2> QED
      BY <2>3, <2>4, <2>5, <2>6, <2>7
<1>18. \A id \in 0..InvalidID : G[id] # NoConn =>
          /\ G[id] # c /\ id # cur
          /\ table[m][G[id]] # NoState /\ table[m][G[id]].timeoutID = id
  <2>1. TAKE id \in 0..InvalidID
  <2>2. HAVE G[id] # NoConn
  <2>3. PICK k : k = F[id]
      OBVIOUS
  <2>4. k \in Conns /\ G[id] = k /\ id # st.timeoutID /\ id # cur
      BY <1>11, <1>12, <2>2, <2>3
  <2>5. table[m][k] # NoState /\ table[m][k].timeoutID = id
      BY <1>12, <2>2, <2>3, <2>4 DEF TimerInv, OnlyArmedTimeouts
  <2>6. k # c
      BY <1>8, <2>4, <2>5
  <2> QED
      BY <2>4, <2>5, <2>6
<1> HIDE DEF Q, F, cur, G
<1>19. CASE w.q = Q /\ w.funs = G /\ w.cur = cur /\ Unarmed(w.st)
  <2>1. w.cur < InvalidID /\ \A id \in 0..InvalidID : id >= w.cur => w.funs[id] = NoConn
      BY <1>11, <1>12, <1>19
  <2>2. \A id \in 0..InvalidID : w.funs[id] # NoConn =>
            table'[m][w.funs[id]] # NoState /\ table'[m][w.funs[id]].timeoutID = id
      BY <1>12, <1>14, <1>18, <1>19
  <2>3. \A k \in Conns : table'[m][k] # NoState /\ table'[m][k].timeoutID # InvalidID =>
            /\ w.funs[table'[m][k].timeoutID] = k
            /\ \E t \in w.q : t.timeoutID = table'[m][k].timeoutID
      BY <1>12, <1>14, <1>17, <1>19 DEF Unarmed
  <2> QED
      BY <1>10, <1>14, <1>15, <2>1, <2>2, <2>3
         DEF TimerInv, IDsFresh, OnlyArmedTimeouts, ArmedTimeoutPending
<1>20. CASE /\ \E t \in Timeout : t.timeoutID = cur /\ w.q = Q \cup {t}
            /\ w.funs = [G EXCEPT ![cur] = c]
            /\ w.cur = cur + 1 /\ w.cur < InvalidID
            /\ w.st.timeoutID = cur /\ w.st.state # End
  <2>1. w.cur < InvalidID /\ \A id \in 0..InvalidID : id >= w.cur => w.funs[id] = NoConn
      BY <1>11, <1>12, <1>20
  <2>2. table'[m][c] = w.st /\ w.funs[cur] = c
        /\ \A id \in 0..InvalidID : id # cur => w.funs[id] = G[id]
      BY <1>11, <1>12, <1>14, <1>20
  <2>3. \A id \in 0..InvalidID : w.funs[id] # NoConn =>
            table'[m][w.funs[id]] # NoState /\ table'[m][w.funs[id]].timeoutID = id
      BY <1>12, <1>14, <1>16, <1>18, <1>20, <2>2
  <2>4. \A t \in Q : t \in w.q
      BY <1>20
  <2>5. \A k \in Conns : table'[m][k] # NoState /\ table'[m][k].timeoutID # InvalidID =>
            /\ w.funs[table'[m][k].timeoutID] = k
            /\ \E t \in w.q : t.timeoutID = table'[m][k].timeoutID
    <3>1. TAKE k \in Conns
    <3>2. HAVE table'[m][k] # NoState /\ table'[m][k].timeoutID # InvalidID
    <3>3. CASE k = c
        BY <1>20, <2>2, <3>3
    <3>4. CASE k # c
        BY <1>12, <1>14, <1>17, <2>2, <2>4, <3>2, <3>4
    <3> QED
        BY <3>3, <3>4
  <2> QED
      BY <1>10, <1>14, <1>15, <2>1, <2>3, <2>5
         DEF TimerInv, IDsFresh, OnlyArmedTimeouts, ArmedTimeoutPending
<1> QED
    BY <1>9, <1>19, <1>20 DEF PktWork, Q, F, cur, G

\* SkipTimeout only loses an entry whose timeout no connection waits for.
LEMMA SkipTimers ==
    ASSUME TimerInv, EndInv', NEW m \in SMs, SkipTimeout(m)
    PROVE  TimerInv'
<1>1. PICK t \in Due(m) :
          /\ timeoutFunctions[m][t.timeoutID] = NoConn
          /\ timeoutsQ' = [timeoutsQ EXCEPT ![m] = @ \ {t}]
    BY DEF SkipTimeout
<1>2. UNCHANGED <<table, pool, timeoutFunctions, curTimeoutID, pc, opening>>
    BY DEF SkipTimeout
<1>3. \A n \in SMs : \A u \in timeoutsQ[n] :
        timeoutFunctions[n][u.timeoutID] # NoConn => u \in timeoutsQ'[n]
    BY <1>1 DEF TimerInv, EndInv, TypeOK
<1>4. ArmedTimeoutPending'
  <2> SUFFICES ASSUME NEW n \in SMs, NEW c \in Conns,
                      table[n][c] # NoState, table[n][c].timeoutID # InvalidID
               PROVE  /\ timeoutFunctions[n][table[n][c].timeoutID] = c
                      /\ \E u \in timeoutsQ'[n] : u.timeoutID = table[n][c].timeoutID
      BY <1>2 DEF ArmedTimeoutPending
  <2>1. timeoutFunctions[n][table[n][c].timeoutID] = c /\ c # NoConn
      BY DEF TimerInv, ArmedTimeoutPending
  <2>2. PICK u \in timeoutsQ[n] : u.timeoutID = table[n][c].timeoutID
      BY DEF TimerInv, ArmedTimeoutPending
  <2> QED
      BY <1>3, <2>1, <2>2
<1> QED
    BY <1>2, <1>4 DEF TimerInv, IDsFresh, NewUnarmed, OnlyArmedTimeouts

\* The state of a valid timeout is in the table of its object, and names it.
LEMMA DueState ==
    ASSUME TimerInv, NEW m \in SMs, NEW t \in Due(m),
           timeoutFunctions[m][t.timeoutID] # NoConn
    PROVE  /\ timeoutFunctions[m][t.timeoutID] \in Conns
           /\ table[m][timeoutFunctions[m][t.timeoutID]] # NoState
           /\ table[m][timeoutFunctions[m][t.timeoutID]].timeoutID = t.timeoutID
           /\ t \in timeoutsQ[m] /\ t.timeoutID \in 0..InvalidID
<1>1. t \in timeoutsQ[m] /\ t.timeoutID \in 0..InvalidID
    BY DEF Due, Tops, TimerInv, EndInv, TypeOK, Timeout
<1> QED
    BY <1>1 DEF TimerInv, EndInv, TypeOK, OnlyArmedTimeouts

LEMMA FireTimers ==
    ASSUME OneTimeout, TimerInv, EndInv', NEW m \in SMs, FireTimeout(m)
    PROVE  TimerInv'
<1> USE ProgramAssumption
<1> DEFINE Q == timeoutsQ[m]
           F == timeoutFunctions[m]
           cur == curTimeoutID[m]
<1>1. PICK t \in Due(m), e \in TimeoutEffects :
        /\ F[t.timeoutID] # NoConn
        /\ \E f \in FindState(m, F[t.timeoutID]) :
            LET c == F[t.timeoutID]
                w == RunTimeout(m, c, f.st, e)
            IN  /\ Store(m, c, f, w.st)
                /\ \E q \in PopAfterCall(w.q, t) :
                     SaveTimers(m, [w EXCEPT !.q = q, !.funs[t.timeoutID] = NoConn])
    BY DEF FireTimeout
<1>2. PICK id, c : id = t.timeoutID /\ c = F[id]
    OBVIOUS
<1>3. /\ id \in 0..InvalidID /\ c \in Conns /\ t \in Q /\ F[id] = c
      /\ table[m][c] # NoState /\ table[m][c].timeoutID = id
    BY <1>1, <1>2, DueState
<1>4a. PICK f \in FindState(m, c) :
        \E w :
            /\ w = RunTimeout(m, c, f.st, e)
            /\ Store(m, c, f, w.st)
            /\ \E q \in PopAfterCall(w.q, t) :
                 SaveTimers(m, [w EXCEPT !.q = q, !.funs[id] = NoConn])
    BY <1>1, <1>2
<1>4. PICK w :
        /\ w = RunTimeout(m, c, f.st, e)
        /\ Store(m, c, f, w.st)
        /\ \E q \in PopAfterCall(w.q, t) :
             SaveTimers(m, [w EXCEPT !.q = q, !.funs[id] = NoConn])
    BY <1>4a
<1>5. f.st \in State /\ TypeOK /\ e \in Effect /\ e.delay = NoTimeout
    BY <1>3, FoundUnarmed DEF TimerInv, EndInv, OneTimeout
<1>6. IsWork(w) /\ w.q = Q /\ w.funs = F /\ w.cur = cur /\ Unarmed(w.st)
  <2>1. PICK v : v = Work(m, ClearTimeout(f.st))
      OBVIOUS
  <2>2. ClearTimeout(f.st) \in State /\ Unarmed(ClearTimeout(f.st))
      BY <1>5 DEF ClearTimeout, State, Unarmed
  <2>3. IsWork(v) /\ v.st = ClearTimeout(f.st) /\ v.q = Q /\ v.funs = F /\ v.cur = cur
      BY <1>5, <2>1, <2>2, WorkType DEF Work
  <2>4. w = Call(v, c, e)
      BY <1>4, <2>1 DEF RunTimeout
  <2>5. IsWork(w)
      BY <1>3, <1>5, <2>3, <2>4, CallType DEF TypeOK
  <2> QED
      BY <1>3, <1>5, <2>2, <2>3, <2>4, <2>5, CallPlain DEF Unarmed
<1>7. PopAfterCall(w.q, t) = {Q \ {t}}
    BY <1>6 DEF PopAfterCall, Due
<1>8. SaveTimers(m, [w EXCEPT !.q = Q \ {t}, !.funs[id] = NoConn])
    BY <1>4, <1>7
<1>9. LET x == [w EXCEPT !.q = Q \ {t}, !.funs[id] = NoConn]
      IN  x.q = Q \ {t} /\ x.funs = [F EXCEPT ![id] = NoConn] /\ x.cur = cur
    BY <1>6 DEF IsWork, WorkOn
<1>10. /\ timeoutsQ' = [timeoutsQ EXCEPT ![m] = Q \ {t}]
       /\ timeoutFunctions' = [timeoutFunctions EXCEPT ![m] = [F EXCEPT ![id] = NoConn]]
       /\ curTimeoutID' = [curTimeoutID EXCEPT ![m] = cur]
       /\ table' = [table EXCEPT ![m][c] = IF w.st.state = End THEN NoState ELSE w.st]
    BY <1>4, <1>8, <1>9 DEF SaveTimers, Store
<1>11. NewUnarmed'
  <2>1. UNCHANGED <<pc, opening>>
      BY DEF FireTimeout
  <2> QED
      BY <1>3, <1>4, <2>1, StoreUnarmed
<1>12. /\ F \in [0..InvalidID -> Conns \cup {NoConn}]
       /\ timeoutsQ'[m] = Q \ {t} /\ curTimeoutID'[m] = cur
       /\ timeoutFunctions'[m] = [F EXCEPT ![id] = NoConn]
       /\ table'[m][c] = IF w.st.state = End THEN NoState ELSE w.st
       /\ \A k \in Conns : k # c => table'[m][k] = table[m][k]
       /\ \A n \in SMs : n # m => /\ table'[n] = table[n] /\ timeoutsQ'[n] = timeoutsQ[n]
                                  /\ timeoutFunctions'[n] = timeoutFunctions[n]
                                  /\ curTimeoutID'[n] = curTimeoutID[n]
    BY <1>3, <1>5, <1>10 DEF TypeOK
<1>13. \A k \in 0..InvalidID : F[k] # NoConn =>
          /\ table[m][F[k]] # NoState /\ table[m][F[k]].timeoutID = k
          /\ k # id => F[k] # c
    BY <1>3 DEF TimerInv, OnlyArmedTimeouts
<1>14. \A k \in Conns : k # c /\ table[m][k] # NoState /\ table[m][k].timeoutID # InvalidID =>
          /\ F[table[m][k].timeoutID] = k /\ table[m][k].timeoutID # id
          /\ \E u \in Q : u.timeoutID = table[m][k].timeoutID /\ u # t
    BY <1>2, <1>3 DEF TimerInv, ArmedTimeoutPending
<1>15. \A k \in Conns : k # c /\ table[m][k] # NoState => table[m][k].timeoutID \in 0..InvalidID
    BY <1>5 DEF TypeOK, StateOrNone, State
<1> HIDE DEF Q, F, cur
<1>16. IDsFresh'
    BY <1>12 DEF TimerInv, IDsFresh, F, cur
<1>17. OnlyArmedTimeouts'
  <2>1. \A k \in 0..InvalidID : timeoutFunctions'[m][k] # NoConn =>
            /\ table'[m][timeoutFunctions'[m][k]] # NoState
            /\ table'[m][timeoutFunctions'[m][k]].timeoutID = k
      BY <1>3, <1>12, <1>13
  <2>2. \A n \in SMs : n # m => \A k \in 0..InvalidID : timeoutFunctions'[n][k] # NoConn =>
            /\ table'[n][timeoutFunctions'[n][k]] # NoState
            /\ table'[n][timeoutFunctions'[n][k]].timeoutID = k
      BY <1>12 DEF TimerInv, OnlyArmedTimeouts
  <2> QED
      BY <2>1, <2>2 DEF OnlyArmedTimeouts
<1>18. ArmedTimeoutPending'
  <2>1. \A k \in Conns : table'[m][k] # NoState /\ table'[m][k].timeoutID # InvalidID =>
            /\ timeoutFunctions'[m][table'[m][k].timeoutID] = k
            /\ \E u \in timeoutsQ'[m] : u.timeoutID = table'[m][k].timeoutID
      BY <1>3, <1>6, <1>12, <1>14, <1>15 DEF Unarmed
  <2>2. \A n \in SMs, k \in Conns : n # m =>
            (table'[n][k] # NoState /\ table'[n][k].timeoutID # InvalidID =>
                /\ timeoutFunctions'[n][table'[n][k].timeoutID] = k
                /\ \E u \in timeoutsQ'[n] : u.timeoutID = table'[n][k].timeoutID)
      BY <1>12 DEF TimerInv, ArmedTimeoutPending
  <2> QED
      BY <2>1, <2>2 DEF ArmedTimeoutPending
<1> QED
    BY <1>11, <1>16, <1>17, <1>18 DEF TimerInv

\* addState sets no timeout, so what it publishes names none.
LEMMA OpenTimers ==
    ASSUME OneTimeout, TimerInv, EndInv', NEW m \in SMs, NEW c \in Conns, OpenRun(m, c)
    PROVE  TimerInv'
<1> USE ProgramAssumption
<1>1a. PICK d \in Data \ live, s \in StateIDs \ {End}, e \in OpenEffects :
        \E w :
            /\ w = Call([Work(m, NewState(s, d)) EXCEPT !.ba = New(<<c>>, TRUE)], c, e)
            /\ SaveTimers(m, w)
            /\ \/ UNCHANGED <<pc, opening>>
               \/ /\ opening' = [opening EXCEPT ![m] =
                        [conn |-> c, st |-> w.st, now |-> e.now, free |-> e.free]]
                  /\ pc' = [pc EXCEPT ![m] = "publish"]
    BY DEF OpenRun
<1>1. PICK w :
        /\ w = Call([Work(m, NewState(s, d)) EXCEPT !.ba = New(<<c>>, TRUE)], c, e)
        /\ SaveTimers(m, w)
        /\ \/ UNCHANGED <<pc, opening>>
           \/ /\ opening' = [opening EXCEPT ![m] =
                    [conn |-> c, st |-> w.st, now |-> e.now, free |-> e.free]]
              /\ pc' = [pc EXCEPT ![m] = "publish"]
    BY <1>1a
<1>2. PICK v : v = [Work(m, NewState(s, d)) EXCEPT !.ba = New(<<c>>, TRUE)]
    OBVIOUS
<1>3. TypeOK /\ e \in Effect /\ e.delay = NoTimeout
    BY DEF TimerInv, EndInv, OneTimeout
<1>4. /\ IsWork(v) /\ Unarmed(v.st)
      /\ v.q = timeoutsQ[m] /\ v.funs = timeoutFunctions[m] /\ v.cur = curTimeoutID[m]
  <2>1. PICK x : x = Work(m, NewState(s, d))
      OBVIOUS
  <2>2. /\ IsWork(x) /\ Unarmed(x.st)
        /\ x.q = timeoutsQ[m] /\ x.funs = timeoutFunctions[m] /\ x.cur = curTimeoutID[m]
      BY <1>3, <2>1, NewStateType, WorkType DEF Work, NewState, Unarmed
  <2> QED
      BY <1>2, <2>1, <2>2 DEF IsWork, WorkOn
<1>5. /\ Unarmed(w.st)
      /\ w.q = timeoutsQ[m] /\ w.funs = timeoutFunctions[m] /\ w.cur = curTimeoutID[m]
  <2>1. w = Call(v, c, e)
      BY <1>1, <1>2
  <2>2. /\ w.q = v.q /\ w.funs = v.funs /\ w.cur = v.cur
        /\ w.st.timeoutID = v.st.timeoutID
      BY <1>3, <1>4, <2>1, CallPlain
  <2> QED
      BY <1>4, <2>2 DEF Unarmed
<1>6. UNCHANGED timers
    BY <1>1, <1>3, <1>5 DEF SaveTimers, timers, TypeOK
<1>7. UNCHANGED <<table, pool>>
    BY DEF OpenRun
<1>8. NewUnarmed'
  <2>1. \A n \in SMs : pc'[n] = "publish" =>
            \/ opening'[n].st = w.st
            \/ pc[n] = "publish" /\ opening'[n].st = opening[n].st
      BY <1>1, <1>3 DEF TypeOK
  <2> QED
      BY <1>5, <1>7, <2>1 DEF TimerInv, NewUnarmed, Unarmed
<1> QED
    BY <1>6, <1>7, <1>8, TimersAlone

LEMMA ReturnTimers ==
    ASSUME TimerInv, EndInv', NEW m \in SMs, ~opening[m].now, OpenReturn(m)
    PROVE  TimerInv'
<1>1a. PICK e \in OpenEffects :
        \E w :
            /\ w = Immediate([Work(m, opening[m].st) EXCEPT
                                !.ba = Mark(@, 1, opening[m].free)],
                             opening[m].conn, opening[m], e)
            /\ SaveTimers(m, w)
    BY DEF OpenReturn
<1>1. PICK w :
        /\ w = Immediate([Work(m, opening[m].st) EXCEPT
                            !.ba = Mark(@, 1, opening[m].free)],
                         opening[m].conn, opening[m], e)
        /\ SaveTimers(m, w)
    BY <1>1a
<1>2. w = [Work(m, opening[m].st) EXCEPT !.ba = Mark(@, 1, opening[m].free)]
    BY <1>1 DEF Immediate
<1>3. w.q = timeoutsQ[m] /\ w.funs = timeoutFunctions[m] /\ w.cur = curTimeoutID[m]
    BY <1>2 DEF Work
<1>4. UNCHANGED timers
    BY <1>1, <1>3 DEF SaveTimers, timers, TimerInv, EndInv, TypeOK
<1>5. UNCHANGED <<table, pool>>
    BY DEF OpenReturn
<1>6. /\ opening' = [opening EXCEPT ![m] = NoOpening]
      /\ pc' = [pc EXCEPT ![m] = "idle"]
    BY DEF OpenReturn
<1>7. NewUnarmed'
    BY <1>5, <1>6 DEF TimerInv, EndInv, TypeOK, NewUnarmed
<1> QED
    BY <1>4, <1>5, <1>7, TimersAlone

\* What enters the pool names no timeout.
LEMMA AddTimers ==
    ASSUME TimerInv, EndInv', NEW c \in Conns, NEW st, Unarmed(st),
           pool' = PoolAdd(c, st), UNCHANGED <<table, timers>>,
           \A n \in SMs : pc'[n] = "publish" => pc[n] = "publish" /\ opening'[n] = opening[n]
    PROVE  TimerInv'
<1>1. NewUnarmed'
    BY DEF TimerInv, EndInv, TypeOK, NewUnarmed, PoolAdd
<1> QED
    BY <1>1, TimersAlone

LEMMA TimerStep ==
    ASSUME OneTimeout, TimerInv, EndInv', \A m \in SMs : ~opening[m].now, [Next]_vars
    PROVE  TimerInv'
<1> USE ProgramAssumption
<1>1. CASE UNCHANGED vars
    BY <1>1, TimersAlone DEF vars, timers, NewUnarmed, TimerInv
<1>2. ASSUME NEW m \in SMs,
             \/ TimeoutWithoutState(m) \/ EndTimeouts(m)
             \/ DropPkt(m) \/ EndBatch(m) \/ \E ps \in Batches : BeginBatch(m, ps)
      PROVE  TimerInv'
  <2>1. UNCHANGED <<table, pool, timers, opening>>
      BY <1>2 DEF TimeoutWithoutState, EndTimeouts, DropPkt, EndBatch, BeginBatch
  <2>2. UNCHANGED pc \/ \E l : l # "publish" /\ pc' = [pc EXCEPT ![m] = l]
      BY <1>2 DEF TimeoutWithoutState, EndTimeouts, DropPkt, EndBatch, BeginBatch
  <2>3. NewUnarmed'
      BY <2>1, <2>2 DEF TimerInv, EndInv, TypeOK, NewUnarmed
  <2> QED
      BY <2>1, <2>3, TimersAlone
<1>3. ASSUME NEW m \in SMs, OpenPublish(m) PROVE TimerInv'
  <2>1. /\ opening[m].conn \in Conns /\ Unarmed(opening[m].st)
        /\ pool' = PoolAdd(opening[m].conn, opening[m].st)
        /\ pc' = [pc EXCEPT ![m] = "return"]
        /\ UNCHANGED <<table, timers, opening>>
      BY <1>3 DEF OpenPublish, At, TypeOK, Opening, TimerInv, EndInv, NewUnarmed
  <2>2. \A n \in SMs : pc'[n] = "publish" => pc[n] = "publish" /\ opening'[n] = opening[n]
      BY <2>1 DEF TimerInv, EndInv, TypeOK
  <2> QED
      BY <2>1, <2>2, AddTimers
<1>4. ASSUME NEW m \in SMs, NEW c \in Conns, OpenNoFun(m, c) PROVE TimerInv'
  <2>1. PICK d \in Data, s \in StateIDs \ {End} : pool' = PoolAdd(c, NewState(s, d))
      BY <1>4 DEF OpenNoFun
  <2>2. Unarmed(NewState(s, d))
      BY DEF NewState, Unarmed
  <2>3. UNCHANGED <<table, timers, pc, opening>>
      BY <1>4 DEF OpenNoFun
  <2> QED
      BY <2>1, <2>2, <2>3, AddTimers
<1>5. CASE Tick
    BY <1>5, TimersAlone DEF Tick, NewUnarmed, TimerInv
<1>6. Removable = {}
    BY DEF OneTimeout
<1> QED
    BY <1>1, <1>2, <1>3, <1>4, <1>5, <1>6,
       SkipTimers, FireTimers, RunPktTimers, OpenTimers, ReturnTimers
       DEF Next, Continue

LEMMA TimerCorrect == ASSUME OneTimeout PROVE Spec => []TimerInv
<1>1. Init => EndInv /\ TimerInv
  <2> SUFFICES ASSUME Init PROVE EndInv /\ TimerInv
      OBVIOUS
  <2>1. TypeOK
      BY DEF Init, TypeOK, StateOrNone, Opening
  <2>2. EndInv
      BY <2>1 DEF Init, EndInv, EndStateGone
  <2> QED
      BY <2>2 DEF Init, TimerInv, IDsFresh, NewUnarmed, OnlyArmedTimeouts,
                  ArmedTimeoutPending
<1>2. EndInv /\ [Next]_vars => EndInv'
    BY EndStep
<1>3. IInv /\ EndInv' /\ TimerInv /\ [Next]_vars => TimerInv'
    BY TimerStep DEF IInv
<1>4. NoOpenNow
    BY DEF OneTimeout
<1> QED
    BY <1>1, <1>2, <1>3, <1>4, IInvCorrect, PTL DEF Spec

\* A connection whose State names a timeout has its function in timeoutFunctions and
\* its entry in timeoutsQ: neither a packet of another connection nor another
\* timeout that fires takes either away.
THEOREM ArmedCorrect == ASSUME OneTimeout PROVE Spec => []ArmedTimeoutPending
<1>1. TimerInv => ArmedTimeoutPending
    BY DEF TimerInv
<1> QED
    BY <1>1, TimerCorrect, PTL

\* Every function in timeoutFunctions is that of the timeout its connection waits
\* for: runPkt, the timeout loop and removeState leave no function behind.
THEOREM OnlyArmedCorrect == ASSUME OneTimeout PROVE Spec => []OnlyArmedTimeouts
<1>1. TimerInv => OnlyArmedTimeouts
    BY DEF TimerInv
<1> QED
    BY <1>1, TimerCorrect, PTL

\* assert(stateIt != stateTable.end()) holds: when a timeout fires, the state of its
\* connection is in the table of the object that set it.
THEOREM TimeoutFindsStateCorrect == ASSUME OneTimeout PROVE Spec => []TimeoutFindsState
<1>1. Init => TimeoutFindsState
    BY DEF Init, TimeoutFindsState
<1>2. TimerInv /\ TimeoutFindsState /\ [Next]_vars => TimeoutFindsState'
  <2> SUFFICES ASSUME TimerInv, TimeoutFindsState, [Next]_vars PROVE TimeoutFindsState'
      OBVIOUS
  <2>1. ASSUME NEW m \in SMs PROVE ~TimeoutWithoutState(m)
      BY DueState DEF TimeoutWithoutState, Unknown
  <2>2. ASSUME NEW m \in SMs, FireTimeout(m) PROVE TimeoutFindsState'
      BY <2>2 DEF FireTimeout, MarkOutOfRange, TimeoutFindsState
  <2>3. ASSUME NEW m \in SMs, RunPkt(m) PROVE TimeoutFindsState'
      BY <2>3 DEF RunPkt, TimeoutFindsState
  <2>4. ASSUME NEW m \in SMs, NEW c \in Conns, OpenRun(m, c) PROVE TimeoutFindsState'
      BY <2>4 DEF OpenRun, TimeoutFindsState
  <2>5. ASSUME UNCHANGED crash PROVE TimeoutFindsState'
      BY <2>5 DEF TimeoutFindsState
  <2> QED
      BY <2>1, <2>2, <2>3, <2>4, <2>5
         DEF Next, Continue, vars, SkipTimeout, EndTimeouts, DropPkt, EndBatch, BeginBatch,
             OpenPublish, OpenReturn, OpenNoFun, RemoveState, Tick
<1> QED
    BY <1>1, <1>2, TimerCorrect, PTL DEF Spec

\* "Invalidate any previous timeouts": no function that was there before the packet
\* is left for the connection of the packet, unless the packet set it.
THEOREM PacketInvalidatesCorrect ==
    ASSUME OneTimeout PROVE Spec => PacketInvalidatesTimeouts
<1>1. ASSUME TimerInv, NEW m \in SMs, RunPkt(m),
             NEW id \in 0..InvalidID,
             timeoutFunctions[m][id] = CurrentPkt(m), timeoutFunctions'[m][id] = CurrentPkt(m)
      PROVE  FALSE
  <2>1. PICK c : c = CurrentPkt(m)
      OBVIOUS
  <2>2. PICK e1 \in Effects, e2 \in Effects, f \in FindState(m, c) :
            LET w1   == RunFunction(m, c, f.st, e1)
                dead == NoFunction(w1, e1)
                w2   == IF dead THEN w1 ELSE Immediate(w1, c, e1, e2)
            IN  /\ Allowed(m, e1, 1) /\ Allowed(m, e2, 2)
                /\ SaveTimers(m, w2)
      BY <1>1, <2>1 DEF RunPkt
  <2>3. c \in Conns /\ c # NoConn
      BY <1>1, <2>1 DEF RunPkt
  <2>4. PICK w1, w : /\ w1 = RunFunction(m, c, f.st, e1)
                     /\ w = IF NoFunction(w1, e1) THEN w1 ELSE Immediate(w1, c, e1, e2)
      OBVIOUS
  <2>5. Allowed(m, e1, 1) /\ Allowed(m, e2, 2) /\ SaveTimers(m, w)
      BY <2>2, <2>4
  <2>6. f.st \in State /\ f.st.state # End /\ PktWork(m, c, f.st, w)
      BY <1>1, <2>3, <2>4, <2>5, FoundUnarmed, PktWorks
  <2>7. timeoutFunctions'[m] = w.funs /\ timeoutFunctions[m] \in [0..InvalidID -> Conns \cup {NoConn}]
      BY <1>1, <2>5 DEF SaveTimers, TimerInv, EndInv, TypeOK
  <2>8. /\ table[m][c] # NoState /\ table[m][c].timeoutID = id
        /\ id # InvalidID /\ id # curTimeoutID[m]
        /\ curTimeoutID[m] \in 0..InvalidID
      BY <1>1, <2>1, <2>3 DEF TimerInv, EndInv, TypeOK, OnlyArmedTimeouts, IDsFresh
  <2>9. f.st = table[m][c]
      BY <2>8 DEF FindState
  <2>10. Disarm(timeoutFunctions[m], f.st)[id] = NoConn
      BY <2>7, <2>8, <2>9 DEF Disarm
  <2>11. w.funs[id] = NoConn
    <3>1. PICK g : g = Disarm(timeoutFunctions[m], f.st)
        OBVIOUS
    <3>2. DOMAIN g = 0..InvalidID /\ g[id] = NoConn
        BY <2>7, <2>10, <3>1 DEF Disarm
    <3>3. w.funs = g \/ w.funs = [g EXCEPT ![curTimeoutID[m]] = c]
        BY <2>6, <3>1 DEF PktWork
    <3> QED
        BY <2>8, <3>2, <3>3
  <2> QED
      BY <1>1, <2>1, <2>3, <2>7, <2>11
<1>2. TimerInv /\ [Next]_vars =>
        [\A m \in SMs :
           (RunPkt(m) /\ crash' = "none") =>
              \A id \in 0..InvalidID :
                  /\ timeoutFunctions[m][id] = CurrentPkt(m)
                  /\ timeoutFunctions'[m][id] = CurrentPkt(m)
                  => \E t \in timeoutsQ'[m] \ timeoutsQ[m] : t.timeoutID = id]_vars
    BY <1>1
<1> QED
    BY <1>2, TimerCorrect, PTL DEF Spec, PacketInvalidatesTimeouts

-----------------------------------------------------------------------------
(* The marks of a batch                                                    *)

\* No thread is handed an empty batch: addPkt cannot grow an array without slots.
FullBatches == \A ps \in Batches : ps # <<>>

\* A function that a transitionNow runs frees the packet only when the one before
\* it did.  Its FunIface has made its mark by then.
NoLateFree == \A e1, e2 \in Effects : e1.now /\ e2.free => e1.free

IsArray(ba) ==
    /\ ba \in [pkts : {ba.pkts}, sendMask : {ba.sendMask}, numBufs : Nat, numSlots : Nat,
               fromLua : BOOLEAN]
    /\ ba.sendMask \in [1..ba.numSlots -> BOOLEAN]
    /\ ba.numBufs <= ba.numSlots

IsBatch(b) ==
    /\ b \in [ba : {b.ba}, inCount : Nat, cur : Nat, freed : {b.freed}]
    /\ IsArray(b.ba)

\* The marks of an array: those of the first n packets that are freed, and those
\* of the packets that functions added behind the first n.
Marked(ba, n, freed) ==
    /\ n <= ba.numBufs
    /\ \A i \in freed : i \in 1..n /\ ~ba.sendMask[i]
    /\ \A i \in (n + 1)..ba.numBufs : ba.sendMask[i]

GoodBatch(b) ==
    /\ IsBatch(b)
    /\ Marked(b.ba, b.inCount, b.freed)
    /\ b.cur >= 1 /\ \A i \in b.freed : i < b.cur

\* What FreePktHonoured and ExtraPktsSent rest on: a thread inside of a call has an
\* array with a slot, and no packet that the loop has not reached yet was freed.
BatchInv ==
    /\ batch = [m \in SMs |-> batch[m]]
    /\ \A m \in SMs : GoodBatch(batch[m]) /\ (pc[m] # "idle" => batch[m].inCount >= 1)

\* The assignment of one bit.
LEMMA MaskSet ==
    ASSUME NEW j \in Nat, NEW f \in [1..j -> BOOLEAN], NEW i \in 1..j, NEW b \in BOOLEAN
    PROVE  LET g == [f EXCEPT ![i] = b]
           IN  /\ g \in [1..j -> BOOLEAN] /\ g[i] = b
               /\ \A x \in 1..j : x # i => g[x] = f[x]
<1>1. [f EXCEPT ![i] = b] \in [1..j -> BOOLEAN]
    BY Zenon
<1>2. [f EXCEPT ![i] = b][i] = b
    BY Zenon
<1>3. \A x \in 1..j : x # i => [f EXCEPT ![i] = b][x] = f[x]
    BY Zenon
<1> QED
    BY <1>1, <1>2, <1>3, Zenon

\* addPkt on an array with a slot: the new packet is marked for sending and no
\* mark changes, whether the array had to grow or not.
LEMMA AddKeepsMarks ==
    ASSUME NEW ba, IsArray(ba), ba.numSlots >= 1, NEW pkt,
           NEW n \in Nat, NEW freed, Marked(ba, n, freed)
    PROVE  LET a == AddPkt(ba, pkt)
           IN  IsArray(a) /\ a.numSlots >= 1 /\ Marked(a, n, freed)
<1> DEFINE grown == [i \in 1..GrownSlots(ba) |->
                        IF i <= ba.numSlots THEN ba.sendMask[i] ELSE FALSE]
           room == IF NeedsGrowth(ba) THEN Grow(ba) ELSE ba
           next == ba.numBufs + 1
           a == AddPkt(ba, pkt)
<1>1. /\ ba.numSlots \in Nat /\ ba.numBufs \in Nat /\ ba.numBufs <= ba.numSlots
      /\ ba.sendMask \in [1..ba.numSlots -> BOOLEAN]
    BY DEF IsArray
<1>2. PICK pkts, mask, slots, lua :
        /\ room = [pkts |-> pkts, sendMask |-> mask, numBufs |-> ba.numBufs,
                   numSlots |-> slots, fromLua |-> lua]
        /\ slots \in Nat /\ next <= slots /\ lua \in BOOLEAN
        /\ mask \in [1..slots -> BOOLEAN]
        /\ \A i \in 1..ba.numSlots : mask[i] = ba.sendMask[i]
  <2>1. CASE NeedsGrowth(ba)
    <3>1. /\ GrownSlots(ba) \in Nat /\ next <= GrownSlots(ba)
          /\ ba.numSlots <= GrownSlots(ba)
        BY <1>1, <2>1 DEF GrownSlots, NeedsGrowth
    <3>2. /\ grown \in [1..GrownSlots(ba) -> BOOLEAN]
          /\ \A i \in 1..ba.numSlots : grown[i] = ba.sendMask[i]
      <4>1. PICK j, k, f : j = GrownSlots(ba) /\ k = ba.numSlots /\ f = ba.sendMask
          OBVIOUS
      <4>2. j \in Nat /\ k \in Nat /\ k <= j /\ f \in [1..k -> BOOLEAN]
          BY <1>1, <3>1, <4>1
      <4>3. PICK g : g = [i \in 1..j |-> IF i <= k THEN f[i] ELSE FALSE]
          OBVIOUS
      <4> DEFINE V(i) == IF i <= k THEN f[i] ELSE FALSE
      <4>6. g = [i \in 1..j |-> V(i)]
          BY <4>3
      <4>7. /\ \A i \in 1..j : i <= k => i \in 1..k
            /\ \A i \in 1..k : i <= k /\ i \in 1..j
          BY <4>2
      <4>8. \A i \in 1..j : V(i) \in BOOLEAN
          BY <4>2, <4>7, Zenon
      <4>9. \A i \in 1..k : V(i) = f[i]
          BY <4>7, Zenon
      <4> HIDE DEF V
      <4>4. g \in [1..j -> BOOLEAN]
          BY <4>6, <4>8, Zenon
      <4>10. \A i \in 1..k : g[i] = f[i]
          BY <4>6, <4>7, <4>9, Zenon
      <4>5. grown = g
          BY <4>1, <4>3
      <4> HIDE DEF grown
      <4> QED
          BY <4>1, <4>4, <4>5, <4>10
    <3>3. room = [pkts |-> [i \in 1..GrownSlots(ba) |->
                              IF i <= ba.numSlots THEN ba.pkts[i] ELSE Garbage],
                  sendMask |-> grown, numBufs |-> ba.numBufs,
                  numSlots |-> GrownSlots(ba), fromLua |-> FALSE]
        BY <2>1 DEF Grow
    <3> HIDE DEF grown, room
    <3> QED
        BY <3>1, <3>2, <3>3
  <2>2. CASE ~NeedsGrowth(ba)
    <3>1. next <= ba.numSlots
        BY <1>1, <2>2 DEF NeedsGrowth
    <3>2. ba = [pkts |-> ba.pkts, sendMask |-> ba.sendMask, numBufs |-> ba.numBufs,
                numSlots |-> ba.numSlots, fromLua |-> ba.fromLua] /\ ba.fromLua \in BOOLEAN
        BY DEF IsArray
    <3>3. room = ba
        BY <2>2
    <3> HIDE DEF room
    <3> QED
        BY <1>1, <3>1, <3>2, <3>3
  <2> QED
      BY <2>1, <2>2
<1>3. a = [room EXCEPT !.sendMask[next] = TRUE, !.pkts[next] = pkt, !.numBufs = next]
    BY DEF AddPkt
<1> HIDE DEF grown, room, a
<1>4. PICK ps : a = [pkts |-> ps, sendMask |-> [mask EXCEPT ![next] = TRUE],
                     numBufs |-> next, numSlots |-> slots, fromLua |-> lua]
    BY <1>2, <1>3
<1>5. /\ IsArray(a) /\ a.numSlots >= 1
      /\ a.numBufs = next /\ a.sendMask[next]
      /\ \A i \in 1..ba.numBufs : a.sendMask[i] = ba.sendMask[i]
  <2>1. PICK new : new = [mask EXCEPT ![next] = TRUE]
      OBVIOUS
  <2>2. next \in 1..slots /\ \A i \in 1..ba.numBufs : i \in 1..ba.numSlots /\ i # next
      BY <1>1, <1>2
  <2>3. /\ new \in [1..slots -> BOOLEAN] /\ new[next]
        /\ \A i \in 1..ba.numBufs : new[i] = ba.sendMask[i]
    <3>1. /\ new \in [1..slots -> BOOLEAN] /\ new[next]
          /\ \A i \in 1..slots : i # next => new[i] = mask[i]
        BY <1>2, <2>1, <2>2, MaskSet
    <3>2. \A i \in 1..ba.numBufs : i \in 1..slots
        BY <1>1, <1>2
    <3> QED
        BY <1>2, <2>2, <3>1, <3>2, Zenon
  <2>4. /\ a.sendMask = new /\ a.numBufs = next /\ a.numSlots = slots /\ a.fromLua = lua
        /\ a.pkts = ps
      BY <1>4, <2>1
  <2>5. a \in [pkts : {a.pkts}, sendMask : {a.sendMask}, numBufs : Nat, numSlots : Nat,
               fromLua : BOOLEAN]
      BY <1>1, <1>2, <1>4, <2>4
  <2>6. slots >= 1 /\ next <= slots
      BY <1>1, <1>2
  <2>7. a.sendMask \in [1..a.numSlots -> BOOLEAN] /\ a.numBufs <= a.numSlots
      BY <2>3, <2>4, <2>6
  <2>8. IsArray(a)
      BY <2>5, <2>7 DEF IsArray
  <2> QED
      BY <2>3, <2>4, <2>6, <2>8
<1>6. Marked(a, n, freed)
  <2>1. n <= ba.numBufs /\ n <= next
      BY <1>1 DEF Marked
  <2>2. \A i \in 1..n : i \in 1..ba.numBufs
      BY <1>1, <2>1
  <2>3. \A i \in (n + 1)..next : i = next \/ (i \in 1..ba.numBufs /\ i \in (n + 1)..ba.numBufs)
      BY <1>1
  <2>4. \A i \in freed : i \in 1..n /\ ~a.sendMask[i]
      BY <1>5, <2>2 DEF Marked
  <2>5. \A i \in (n + 1)..next : a.sendMask[i]
      BY <1>5, <2>3 DEF Marked
  <2> QED
      BY <1>5, <2>1, <2>4, <2>5 DEF Marked
<1> QED
    BY <1>5, <1>6 DEF a

\* The array after one function.
LEMMA CallArray ==
    ASSUME NEW w, IsWork(w), NEW c, NEW e
    PROVE  Call(w, c, e).ba = IF e.get THEN AddPkt(w.ba, Unidentified) ELSE w.ba
<1> DEFINE moved == [w EXCEPT !.st.state = IF e.next = Stay THEN @ ELSE e.next,
                              !.ba = IF e.get THEN AddPkt(@, Unidentified) ELSE @]
<1>1. Call(w, c, e) = IF e.delay = NoTimeout THEN moved ELSE SetTimeout(moved, c, e.delay)
    BY DEF Call
<1>2. moved.ba = (IF e.get THEN AddPkt(w.ba, Unidentified) ELSE w.ba)
      /\ "ba" \in DOMAIN moved
    BY DEF IsWork, WorkOn
<1> HIDE DEF moved
<1>3. SetTimeout(moved, c, e.delay).ba = moved.ba
    BY <1>2 DEF SetTimeout
<1> QED
    BY <1>1, <1>2, <1>3

LEMMA CallMarks ==
    ASSUME NEW w, IsWork(w), NEW c, NEW e, NEW n \in Nat, NEW freed,
           IsArray(w.ba), w.ba.numSlots >= 1, Marked(w.ba, n, freed)
    PROVE  LET a == Call(w, c, e).ba
           IN  IsArray(a) /\ a.numSlots >= 1 /\ Marked(a, n, freed)
BY CallArray, AddKeepsMarks

\* The mark a FunIface makes when it is destroyed.
LEMMA MarkKeeps ==
    ASSUME NEW ba, IsArray(ba), NEW n \in Nat, NEW freed, Marked(ba, n, freed),
           NEW cur \in 1..n, cur \notin freed, NEW free \in BOOLEAN
    PROVE  LET a == Mark(ba, cur, free)
           IN  /\ IsArray(a)
               /\ Marked(a, n, IF free THEN freed \cup {cur} ELSE freed)
<1> DEFINE a == Mark(ba, cur, free)
<1>1. a = [ba EXCEPT !.sendMask = [@ EXCEPT ![cur] = ~free]]
    BY DEF Mark, MarkDropPkt, MarkSendPkt
<1>2. cur \in 1..ba.numSlots
    BY DEF IsArray, Marked
<1>3. a = [pkts |-> ba.pkts, sendMask |-> [ba.sendMask EXCEPT ![cur] = ~free],
           numBufs |-> ba.numBufs, numSlots |-> ba.numSlots, fromLua |-> ba.fromLua]
    BY <1>1 DEF IsArray
<1> HIDE DEF a
<1>4. IsArray(a)
    BY <1>2, <1>3 DEF IsArray
<1>5. Marked(a, n, IF free THEN freed \cup {cur} ELSE freed)
  <2>1. PICK new : new = [ba.sendMask EXCEPT ![cur] = ~free]
      OBVIOUS
  <2>2. /\ new[cur] = ~free
        /\ \A i \in 1..ba.numSlots : i # cur => new[i] = ba.sendMask[i]
      BY <1>2, <2>1 DEF IsArray
  <2>3. a.sendMask = new /\ a.numBufs = ba.numBufs
      BY <1>3, <2>1
  <2>4. \A i \in freed : i \in 1..ba.numSlots /\ i # cur /\ ~ba.sendMask[i] /\ i \in 1..n
      BY DEF IsArray, Marked
  <2>5. \A i \in (n + 1)..ba.numBufs : i \in 1..ba.numSlots /\ i # cur /\ ba.sendMask[i]
      BY DEF IsArray, Marked
  <2> QED
      BY <2>2, <2>3, <2>4, <2>5 DEF Marked
<1> QED
    BY <1>4, <1>5 DEF a

LEMMA BatchFields ==
    ASSUME NEW b, IsBatch(b), NEW a, NEW k, NEW fr
    PROVE  /\ [b EXCEPT !.ba = a] =
                [ba |-> a, inCount |-> b.inCount, cur |-> b.cur, freed |-> b.freed]
           /\ [b EXCEPT !.ba = a, !.cur = k, !.freed = fr] =
                [ba |-> a, inCount |-> b.inCount, cur |-> k, freed |-> fr]
           /\ [b EXCEPT !.ba = a, !.cur = k] =
                [ba |-> a, inCount |-> b.inCount, cur |-> k, freed |-> b.freed]
<1>1. b = [ba |-> b.ba, inCount |-> b.inCount, cur |-> b.cur, freed |-> b.freed]
    BY DEF IsBatch
<1>2. PICK i, g : i = b.inCount /\ g = b.freed
    OBVIOUS
<1>3. PICK x : x = [ba |-> a, inCount |-> i, cur |-> k, freed |-> g]
    OBVIOUS
<1>4. PICK y : y = [b EXCEPT !.ba = a]
    OBVIOUS
<1>5. y = [ba |-> a, inCount |-> i, cur |-> b.cur, freed |-> g]
    BY <1>1, <1>2, <1>4
<1>6. [y EXCEPT !.cur = k] = x
    BY <1>3, <1>5
<1>7. [b EXCEPT !.ba = a, !.cur = k] = x
    BY <1>4, <1>6
<1>8. [b EXCEPT !.ba = a, !.cur = k, !.freed = fr] = [x EXCEPT !.freed = fr]
    BY <1>7
<1>9. [x EXCEPT !.freed = fr] = [ba |-> a, inCount |-> i, cur |-> k, freed |-> fr]
    BY <1>3
<1>10. /\ [b EXCEPT !.ba = a] = y
       /\ y = [ba |-> a, inCount |-> b.inCount, cur |-> b.cur, freed |-> b.freed]
    BY <1>2, <1>4, <1>5
<1>11. [b EXCEPT !.ba = a, !.cur = k, !.freed = fr] =
            [ba |-> a, inCount |-> b.inCount, cur |-> k, freed |-> fr]
    BY <1>2, <1>8, <1>9
<1>12. [b EXCEPT !.ba = a, !.cur = k] =
            [ba |-> a, inCount |-> b.inCount, cur |-> k, freed |-> b.freed]
    BY <1>2, <1>3, <1>7
<1> QED
    BY <1>10, <1>11, <1>12

\* The batch a call begins with.
LEMMA NewBatch ==
    ASSUME NEW S, NEW ps \in Seq(S)
    PROVE  /\ GoodBatch(BatchOf(ps)) /\ BatchOf(ps).inCount = Len(ps)
           /\ IsArray(New(ps, TRUE)) /\ New(ps, TRUE).numSlots = Len(ps)
           /\ Marked(New(ps, TRUE), Len(ps), {})
<1>1. PICK n : n = Len(ps)
    OBVIOUS
<1>2. PICK mask : mask = [i \in 1..n |-> TRUE]
    OBVIOUS
<1>3. n \in Nat
    BY <1>1
<1>4. mask \in [1..n -> BOOLEAN] /\ \A i \in 1..n : mask[i]
    BY <1>2, Zenon
<1>5. PICK a : a = New(ps, TRUE)
    OBVIOUS
<1>6. a = [pkts |-> ps, sendMask |-> mask, numBufs |-> n, numSlots |-> n, fromLua |-> TRUE]
    BY <1>1, <1>2, <1>5 DEF New
<1>7. IsArray(a) /\ a.numSlots = n /\ Marked(a, n, {})
    BY <1>3, <1>4, <1>6 DEF IsArray, Marked
<1>8. BatchOf(ps) = [ba |-> a, inCount |-> n, cur |-> 1, freed |-> {}]
    BY <1>1, <1>5 DEF BatchOf
<1>9. GoodBatch(BatchOf(ps)) /\ BatchOf(ps).inCount = n
    BY <1>3, <1>7, <1>8 DEF GoodBatch, IsBatch
<1> QED
    BY <1>1, <1>5, <1>7, <1>9

\* A step of one thread that leaves it a good batch.
LEMMA SetBatch ==
    ASSUME TypeOK, BatchInv, NEW m \in SMs, NEW b, batch' = [batch EXCEPT ![m] = b],
           GoodBatch(b), pc'[m] # "idle" => b.inCount >= 1,
           \A n \in SMs : n # m => pc'[n] = pc[n]
    PROVE  BatchInv'
<1>1. batch'[m] = b /\ \A n \in SMs : n # m => batch'[n] = batch[n]
    BY DEF BatchInv
<1>2. batch' = [n \in SMs |-> batch'[n]]
    BY DEF BatchInv
<1>3. \A n \in SMs : GoodBatch(batch'[n]) /\ (pc'[n] # "idle" => batch'[n].inCount >= 1)
    BY <1>1 DEF BatchInv
<1> QED
    BY <1>2, <1>3 DEF BatchInv, GoodBatch, IsBatch, IsArray, Marked

LEMMA DropBatch ==
    ASSUME TypeOK, BatchInv, NEW m \in SMs, DropPkt(m)
    PROVE  BatchInv'
<1>1. PICK b : b = batch[m]
    OBVIOUS
<1>2. /\ GoodBatch(b) /\ b.inCount >= 1 /\ b.cur <= b.inCount
      /\ batch' = [batch EXCEPT ![m] = [b EXCEPT !.ba = MarkDropPkt(@, b.cur), !.cur = @ + 1]]
      /\ UNCHANGED pc
    BY <1>1 DEF DropPkt, At, MorePkts, BatchInv
<1>3. b.cur \in 1..b.inCount /\ b.cur \notin b.freed /\ b.inCount \in Nat /\ b.cur \in Nat
    BY <1>2 DEF GoodBatch, IsBatch
<1>4. PICK a : a = Mark(b.ba, b.cur, TRUE)
    OBVIOUS
<1>5. IsArray(a) /\ Marked(a, b.inCount, b.freed \cup {b.cur})
    BY <1>2, <1>3, <1>4, MarkKeeps DEF GoodBatch, IsBatch
<1>6. PICK nb : nb = [ba |-> a, inCount |-> b.inCount, cur |-> b.cur + 1, freed |-> b.freed]
    OBVIOUS
<1>7. batch' = [batch EXCEPT ![m] = nb]
  <2>1. [b EXCEPT !.ba = MarkDropPkt(@, b.cur), !.cur = @ + 1] = nb
    <3>1. IsBatch(b) /\ a = MarkDropPkt(b.ba, b.cur)
        BY <1>2, <1>4 DEF Mark, GoodBatch
    <3>2. [b EXCEPT !.ba = a, !.cur = b.cur + 1] = nb
        BY <1>6, <3>1, BatchFields
    <3> QED
        BY <3>1, <3>2
  <2> QED
      BY <1>2, <2>1
<1>8. GoodBatch(nb) /\ nb.inCount >= 1
    BY <1>2, <1>3, <1>5, <1>6 DEF GoodBatch, IsBatch, Marked
<1> QED
    BY <1>2, <1>7, <1>8, SetBatch

LEMMA FireBatch ==
    ASSUME TypeOK, BatchInv, NEW m \in SMs, FireTimeout(m)
    PROVE  BatchInv'
<1> USE ProgramAssumption
<1>1. PICK t \in Due(m), e \in TimeoutEffects :
        /\ timeoutFunctions[m][t.timeoutID] # NoConn
        /\ \E f \in FindState(m, timeoutFunctions[m][t.timeoutID]) :
             batch' = [batch EXCEPT ![m].ba =
                        RunTimeout(m, timeoutFunctions[m][t.timeoutID], f.st, e).ba]
    BY DEF FireTimeout
<1>2. PICK c : c = timeoutFunctions[m][t.timeoutID]
    OBVIOUS
<1>3. c \in Conns
    BY <1>1, <1>2 DEF Due, Tops, TypeOK, Timeout
<1>4a. PICK f \in FindState(m, c) :
        \E w :
            w = RunTimeout(m, c, f.st, e) /\ batch' = [batch EXCEPT ![m].ba = w.ba]
    BY <1>1, <1>2
<1>4. PICK w :
        w = RunTimeout(m, c, f.st, e) /\ batch' = [batch EXCEPT ![m].ba = w.ba]
    BY <1>4a
<1>5. PICK b, v : b = batch[m] /\ v = Work(m, ClearTimeout(f.st))
    OBVIOUS
<1>6. GoodBatch(b) /\ b.inCount >= 1 /\ b.inCount \in Nat /\ b.ba.numSlots >= 1
  <2>1. GoodBatch(b) /\ b.inCount >= 1
      BY <1>5 DEF FireTimeout, At, BatchInv
  <2> QED
      BY <2>1 DEF GoodBatch, IsBatch, IsArray, Marked
<1>7. IsWork(v) /\ v.ba = b.ba
    BY <1>3, <1>5, FindStateType, ClearTimeoutType, WorkType DEF Work
<1>8. IsArray(w.ba) /\ Marked(w.ba, b.inCount, b.freed)
    BY <1>4, <1>5, <1>6, <1>7, CallMarks DEF RunTimeout, GoodBatch, IsBatch
<1>9. PICK nb : nb = [ba |-> w.ba, inCount |-> b.inCount, cur |-> b.cur, freed |-> b.freed]
    OBVIOUS
<1>10. batch' = [batch EXCEPT ![m] = nb]
  <2>1. [b EXCEPT !.ba = w.ba] = nb
      BY <1>6, <1>9 DEF GoodBatch, IsBatch
  <2>2. batch' = [batch EXCEPT ![m] = [b EXCEPT !.ba = w.ba]]
      BY <1>4, <1>5
  <2> QED
      BY <2>1, <2>2
<1>11. GoodBatch(nb) /\ nb.inCount >= 1
    BY <1>6, <1>8, <1>9 DEF GoodBatch, IsBatch
<1>12. UNCHANGED pc
    BY DEF FireTimeout
<1> QED
    BY <1>10, <1>11, <1>12, SetBatch

LEMMA RunBatch ==
    ASSUME TypeOK, BatchInv, NoLateFree, NEW m \in SMs, RunPkt(m)
    PROVE  BatchInv'
<1> USE ProgramAssumption
<1>1. PICK c, b : c = CurrentPkt(m) /\ b = batch[m]
    OBVIOUS
<1>2. /\ GoodBatch(b) /\ b.inCount >= 1 /\ b.cur <= b.inCount /\ c \in Conns
      /\ UNCHANGED pc
    BY <1>1 DEF RunPkt, At, MorePkts, BatchInv
<1>3. /\ b.cur \in 1..b.inCount /\ b.cur \notin b.freed /\ b.inCount \in Nat /\ b.cur \in Nat
      /\ b.ba.numSlots >= 1 /\ IsArray(b.ba) /\ Marked(b.ba, b.inCount, b.freed)
    BY <1>2 DEF GoodBatch, IsBatch, IsArray, Marked
<1>4. PICK e1 \in Effects, e2 \in Effects, f \in FindState(m, CurrentPkt(m)) :
            LET cc   == CurrentPkt(m)
                cur  == batch[m].cur
                x1   == RunFunction(m, cc, f.st, e1)
                dead == NoFunction(x1, e1)
                x2   == IF dead THEN x1 ELSE Immediate(x1, cc, e1, e2)
            IN  /\ ~e1.now => e2 = e1
                /\ Allowed(m, e1, 1) /\ Allowed(m, e2, 2)
                /\ Store(m, cc, f, x2.st)
                /\ SaveTimers(m, x2)
                /\ crash' = IF dead THEN "nofun" ELSE "none"
                /\ batch' = [batch EXCEPT
                     ![m].ba    = x2.ba,
                     ![m].cur   = @ + 1,
                     ![m].freed = IF e1.free \/ (e1.now /\ ~dead /\ e2.free)
                                  THEN @ \cup {cur} ELSE @]
    BY Zenon DEF RunPkt
<1>5. PICK v, w1, w2 :
        /\ v = [Work(m, ClearTimeout(f.st)) EXCEPT !.funs = Disarm(@, f.st)]
        /\ w1 = RunFunction(m, c, f.st, e1)
        /\ w2 = IF NoFunction(w1, e1) THEN w1 ELSE Immediate(w1, c, e1, e2)
    OBVIOUS
<1>6. PICK late : late = (e1.free \/ (e1.now /\ ~NoFunction(w1, e1) /\ e2.free))
    OBVIOUS
<1>7. late <=> e1.free
    BY <1>6 DEF NoLateFree
<1>8. f.st \in State /\ e1 \in Effect /\ e2 \in Effect /\ now \in Nat
    BY <1>1, <1>2, FindStateType DEF TypeOK
<1>9. IsWork(v) /\ v.ba = b.ba
  <2>1. PICK u : u = Work(m, ClearTimeout(f.st))
      OBVIOUS
  <2>2. IsWork(u) /\ u.ba = b.ba
      BY <1>1, <1>8, <2>1, ClearTimeoutType, WorkType DEF Work
  <2>3. PICK g : g = Disarm(u.funs, f.st)
      OBVIOUS
  <2>4. g \in [0..InvalidID -> Conns \cup {NoConn}]
      BY <2>2, <2>3 DEF Disarm, IsWork, WorkOn
  <2>5. v = [u EXCEPT !.funs = g]
      BY <1>5, <2>1, <2>3
  <2> QED
      BY <2>2, <2>4, <2>5 DEF IsWork, WorkOn
<1>10. PICK u, g, freed :
        /\ u = Call(v, c, e1) /\ g = Mark(u.ba, b.cur, e1.free)
        /\ freed = IF e1.free THEN b.freed \cup {b.cur} ELSE b.freed
    OBVIOUS
<1>11. IsWork(w1) /\ IsArray(w1.ba) /\ w1.ba.numSlots >= 1 /\ Marked(w1.ba, b.inCount, freed)
  <2>1. IsWork(u) /\ IsArray(u.ba) /\ u.ba.numSlots >= 1 /\ Marked(u.ba, b.inCount, b.freed)
      BY <1>2, <1>3, <1>8, <1>9, <1>10, CallMarks, CallType
  <2>2. IsArray(g) /\ g.numSlots >= 1 /\ Marked(g, b.inCount, freed)
    <3>1. IsArray(g) /\ Marked(g, b.inCount, freed)
        BY <1>3, <1>8, <1>10, <2>1, MarkKeeps DEF Effect
    <3> QED
        BY <1>2, <1>3, <3>1 DEF IsArray, Marked
  <2>3. w1 = [u EXCEPT !.ba = g]
      BY <1>1, <1>5, <1>10 DEF RunFunction
  <2> QED
      BY <2>1, <2>2, <2>3 DEF IsWork, WorkOn
<1>12. PICK a : a = w2.ba
    OBVIOUS
<1>13. IsArray(a) /\ Marked(a, b.inCount, freed)
    BY <1>3, <1>5, <1>11, <1>12, CallMarks DEF Immediate
<1>14. PICK nb : nb = [ba |-> a, inCount |-> b.inCount, cur |-> b.cur + 1, freed |-> freed]
    OBVIOUS
<1>15. batch' = [batch EXCEPT ![m] = nb]
  <2>1. batch' = [batch EXCEPT ![m].ba = a, ![m].cur = @ + 1,
                               ![m].freed = IF late THEN @ \cup {b.cur} ELSE @]
      BY <1>1, <1>4, <1>5, <1>6, <1>12
  <2>2. batch' = [batch EXCEPT ![m].ba = a, ![m].cur = b.cur + 1, ![m].freed = freed]
    <3>1. (IF late THEN b.freed \cup {b.cur} ELSE b.freed) = freed
        BY <1>7, <1>10
    <3> QED
        BY <1>1, <2>1, <3>1
  <2>3. batch' = [batch EXCEPT ![m] = [b EXCEPT !.ba = a, !.cur = b.cur + 1, !.freed = freed]]
      BY <1>1, <2>2
  <2>4. [b EXCEPT !.ba = a, !.cur = b.cur + 1, !.freed = freed] = nb
      BY <1>2, <1>14, BatchFields DEF GoodBatch
  <2> QED
      BY <2>3, <2>4
<1>16. GoodBatch(nb) /\ nb.inCount >= 1
  <2>1. \A i \in freed : i < b.cur + 1
      BY <1>2, <1>3, <1>10 DEF GoodBatch, Marked
  <2>2. nb.cur >= 1 /\ nb.cur \in Nat
      BY <1>3, <1>14
  <2> QED
      BY <1>2, <1>3, <1>13, <1>14, <2>1, <2>2 DEF GoodBatch, IsBatch
<1> QED
    BY <1>2, <1>15, <1>16, SetBatch

LEMMA OpenBatch ==
    ASSUME TypeOK, BatchInv, NEW m \in SMs, NEW c \in Conns, OpenRun(m, c)
    PROVE  BatchInv'
<1> USE ProgramAssumption
<1>1a. PICK d \in Data \ live, s \in StateIDs \ {End}, e \in OpenEffects :
        \E w :
            /\ w = Call([Work(m, NewState(s, d)) EXCEPT !.ba = New(<<c>>, TRUE)], c, e)
            /\ \/ UNCHANGED <<pc, batch>>
               \/ /\ batch' = [batch EXCEPT ![m] = [BatchOf(<<c>>) EXCEPT !.ba = w.ba]]
                  /\ pc' = [pc EXCEPT ![m] = "publish"]
    BY DEF OpenRun
<1>1. PICK w :
        /\ w = Call([Work(m, NewState(s, d)) EXCEPT !.ba = New(<<c>>, TRUE)], c, e)
        /\ \/ UNCHANGED <<pc, batch>>
           \/ /\ batch' = [batch EXCEPT ![m] = [BatchOf(<<c>>) EXCEPT !.ba = w.ba]]
              /\ pc' = [pc EXCEPT ![m] = "publish"]
    BY <1>1a
<1>2. CASE UNCHANGED <<pc, batch>>
    BY <1>2 DEF BatchInv, GoodBatch, IsBatch, IsArray, Marked
<1>3. CASE /\ batch' = [batch EXCEPT ![m] = [BatchOf(<<c>>) EXCEPT !.ba = w.ba]]
           /\ pc' = [pc EXCEPT ![m] = "publish"]
  <2>1. PICK ps, ba : ps = <<c>> /\ ba = New(ps, TRUE)
      OBVIOUS
  <2>2. ps \in Seq(Conns) /\ Len(ps) = 1
      BY <2>1
  <2>3. IsArray(ba) /\ ba.numSlots >= 1 /\ Marked(ba, 1, {})
    <3>1. IsArray(ba) /\ ba.numSlots = Len(ps) /\ Marked(ba, Len(ps), {})
        BY <2>1, <2>2, NewBatch
    <3> QED
        BY <2>2, <3>1
  <2>4. PICK v : v = [Work(m, NewState(s, d)) EXCEPT !.ba = ba]
      OBVIOUS
  <2>5. IsWork(v) /\ v.ba = ba
    <3>1. PICK x : x = Work(m, NewState(s, d))
        OBVIOUS
    <3>2. IsWork(x)
        BY <3>1, NewStateType, WorkType
    <3> QED
        BY <2>4, <3>1, <3>2 DEF IsWork, WorkOn
  <2>6. IsArray(w.ba) /\ Marked(w.ba, 1, {})
    <3>1. w = Call(v, c, e)
        BY <1>1, <2>1, <2>4
    <3>2. 1 \in Nat
        OBVIOUS
    <3> QED
        BY <2>3, <2>5, <3>1, <3>2, CallMarks
  <2>7. BatchOf(<<c>>) = [ba |-> ba, inCount |-> 1, cur |-> 1, freed |-> {}]
      BY <2>1, <2>2 DEF BatchOf
  <2>8. PICK nb : nb = [ba |-> w.ba, inCount |-> 1, cur |-> 1, freed |-> {}]
      OBVIOUS
  <2>9. batch' = [batch EXCEPT ![m] = nb]
    <3>1. PICK b : b = BatchOf(<<c>>)
        OBVIOUS
    <3>2. IsBatch(b)
        BY <2>1, <2>2, <3>1, NewBatch DEF GoodBatch
    <3>3. b.inCount = 1 /\ b.cur = 1 /\ b.freed = {}
        BY <2>7, <3>1
    <3>4. [b EXCEPT !.ba = w.ba] = nb
        BY <2>8, <3>2, <3>3, BatchFields
    <3> QED
        BY <1>3, <3>1, <3>4
  <2>10. GoodBatch(nb) /\ nb.inCount >= 1
      BY <2>6, <2>8 DEF GoodBatch, IsBatch
  <2>11. \A n \in SMs : n # m => pc'[n] = pc[n]
      BY <1>3 DEF TypeOK
  <2> QED
      BY <2>9, <2>10, <2>11, SetBatch
<1> QED
    BY <1>1, <1>2, <1>3

LEMMA BatchStep ==
    ASSUME FullBatches, NoLateFree, TypeOK, BatchInv, [Next]_vars
    PROVE  BatchInv'
<1> USE ProgramAssumption
<1>1. ASSUME UNCHANGED batch, \A m \in SMs : pc'[m] # "idle" => pc[m] # "idle"
      PROVE  BatchInv'
    BY <1>1 DEF BatchInv, GoodBatch, IsBatch, IsArray, Marked
<1>2. ASSUME NEW m \in SMs,
             \/ SkipTimeout(m) \/ TimeoutWithoutState(m) \/ EndTimeouts(m) \/ OpenPublish(m)
      PROVE  BatchInv'
  <2>1. UNCHANGED batch
      BY <1>2 DEF SkipTimeout, TimeoutWithoutState, EndTimeouts, OpenPublish
  <2>2. /\ pc[m] # "idle"
        /\ \A n \in SMs : n # m => pc'[n] = pc[n]
      BY <1>2 DEF SkipTimeout, TimeoutWithoutState, EndTimeouts, OpenPublish, At, TypeOK
  <2> QED
      BY <1>1, <2>1, <2>2
<1>3. ASSUME NEW m \in SMs, NEW ps \in Batches, BeginBatch(m, ps) PROVE BatchInv'
  <2>1. PICK b : b = BatchOf(ps)
      OBVIOUS
  <2>2. GoodBatch(b) /\ b.inCount = Len(ps)
      BY <2>1, NewBatch
  <2>3. ps \in Seq(Conns \cup {Unidentified}) /\ ps # <<>>
      BY DEF FullBatches
  <2>4. Len(ps) >= 1
      BY <2>3
  <2>5. batch' = [batch EXCEPT ![m] = b] /\ \A n \in SMs : n # m => pc'[n] = pc[n]
      BY <1>3, <2>1 DEF BeginBatch, TypeOK
  <2> QED
      BY <2>2, <2>4, <2>5, SetBatch
<1>4. ASSUME NEW m \in SMs, EndBatch(m) \/ OpenReturn(m) PROVE BatchInv'
  <2>1. /\ batch' = [batch EXCEPT ![m] = NoBatch]
        /\ pc' = [pc EXCEPT ![m] = "idle"]
      BY <1>4 DEF EndBatch, OpenReturn
  <2>2. <<>> \in Seq(Conns)
      OBVIOUS
  <2>3. GoodBatch(NoBatch)
      BY <2>2, NewBatch DEF NoBatch
  <2>4. pc'[m] = "idle" /\ \A n \in SMs : n # m => pc'[n] = pc[n]
      BY <2>1 DEF TypeOK
  <2> QED
      BY <2>1, <2>3, <2>4, SetBatch
<1>5. ASSUME NEW m \in SMs, NEW c \in Conns, OpenNoFun(m, c) PROVE BatchInv'
    BY <1>1, <1>5 DEF OpenNoFun
<1>6. ASSUME NEW m \in SMs, NEW c \in Removable, RemoveState(m, c) PROVE BatchInv'
    BY <1>1, <1>6 DEF RemoveState
<1>7. CASE Tick
    BY <1>1, <1>7 DEF Tick
<1>8. CASE UNCHANGED vars
    BY <1>1, <1>8 DEF vars
<1> QED
    BY <1>2, <1>3, <1>4, <1>5, <1>6, <1>7, <1>8, DropBatch, FireBatch, RunBatch, OpenBatch
       DEF Next, Continue

LEMMA BatchCorrect == ASSUME FullBatches, NoLateFree PROVE Spec => []BatchInv
<1>1. Init => BatchInv
  <2> SUFFICES ASSUME Init PROVE BatchInv
      OBVIOUS
  <2>1. <<>> \in Seq(Conns)
      OBVIOUS
  <2>2. GoodBatch(NoBatch)
      BY <2>1, NewBatch DEF NoBatch
  <2>3. /\ batch = [m \in SMs |-> NoBatch]
        /\ \A m \in SMs : pc[m] = "idle"
      BY DEF Init
  <2> QED
      BY <2>2, <2>3 DEF BatchInv
<1>2. TypeOK /\ BatchInv /\ [Next]_vars => BatchInv'
    BY BatchStep
<1> QED
    BY <1>1, <1>2, TypeCorrect, PTL DEF Spec

\* "Free the packet after the batch is processed, do not send it": the mark of a
\* packet whose function called freePkt stays whatever the packets behind it, the
\* timeouts and the packets getPkt adds (which may move the mask) do to the array.
THEOREM FreePktCorrect ==
    ASSUME FullBatches, NoLateFree PROVE Spec => []FreePktHonoured
<1>1. BatchInv => FreePktHonoured
    BY DEF BatchInv, GoodBatch, Marked, FreePktHonoured
<1> QED
    BY <1>1, BatchCorrect, PTL

\* "this buffer will be sent": no packet that getPkt added is marked by the loop,
\* which ends at the size of the batch at its entry.
THEOREM ExtraPktsCorrect ==
    ASSUME FullBatches, NoLateFree PROVE Spec => []ExtraPktsSent
<1>1. BatchInv => ExtraPktsSent
    BY DEF BatchInv, GoodBatch, Marked, ExtraPktsSent
<1> QED
    BY <1>1, BatchCorrect, PTL

=============================================================================
