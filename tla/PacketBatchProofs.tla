-------------------------- MODULE PacketBatchProofs ---------------------------
(***************************************************************************)
(* Every packet leaves a BufArray once and in the right list, and no       *)
(* pointer array is leaked or freed twice: for any number of packets, any  *)
(* size of a batch and any number of times the array grows.                *)
(***************************************************************************)
EXTENDS PacketBatch, FiniteSetTheorems, SequenceTheorems, TLAPS

USE BatchAssumption

-----------------------------------------------------------------------------
(* The scan over the mask                                                  *)

\* The slots with bit b, and how many of them there are.
LEMMA RankType ==
    ASSUME NEW mask, NEW b, NEW n \in Nat
    PROVE  IsFiniteSet({i \in 1..n : mask[i] = b}) /\ Rank(mask, b, n) \in Nat
<1>1. IsFiniteSet(1..n)
    BY FS_Interval
<1>2. {i \in 1..n : mask[i] = b} \in SUBSET (1..n)
    OBVIOUS
<1> QED
    BY <1>1, <1>2, FS_Subset, FS_CardinalityType DEF Rank

LEMMA RankGrows ==
    ASSUME NEW mask, NEW b, NEW m \in Nat, NEW n \in Nat, m <= n
    PROVE  /\ Rank(mask, b, m) <= Rank(mask, b, n)
           /\ m < n /\ mask[n] = b => Rank(mask, b, m) < Rank(mask, b, n)
<1> DEFINE S == {i \in 1..m : mask[i] = b}
           T == {i \in 1..n : mask[i] = b}
<1>1. IsFiniteSet(S) /\ IsFiniteSet(T) /\ Cardinality(S) \in Nat /\ Cardinality(T) \in Nat
    BY RankType DEF Rank
<1>2. S \in SUBSET T
    OBVIOUS
<1>3. m < n /\ mask[n] = b => n \in T /\ n \notin S
    OBVIOUS
<1> HIDE DEF S, T
<1>4. Cardinality(S) <= Cardinality(T) /\ (Cardinality(S) = Cardinality(T) => S = T)
    BY <1>1, <1>2, FS_Subset
<1>5. m < n /\ mask[n] = b => Cardinality(S) < Cardinality(T)
    BY <1>1, <1>3, <1>4
<1> QED
    BY <1>4, <1>5 DEF Rank, S, T

\* A slot with bit b is where the scan copies the packet its rank says.
LEMMA ScanFinds ==
    ASSUME NEW mask, NEW b, NEW n \in Nat, DOMAIN mask = 1..n,
           NEW i \in 1..n, mask[i] = b
    PROVE  SlotMarked(mask, b, Rank(mask, b, i)) = i
<1>1. PICK k : k = Rank(mask, b, i)
    OBVIOUS
<1>2. PICK j : j = SlotMarked(mask, b, k)
    OBVIOUS
<1>3. \E x \in DOMAIN mask : mask[x] = b /\ Rank(mask, b, x) = k
    BY <1>1
<1>4. j \in DOMAIN mask /\ mask[j] = b /\ Rank(mask, b, j) = k
    BY <1>2, <1>3 DEF SlotMarked
<1>5. i \in Nat /\ j \in Nat
    BY <1>4
<1>6. Rank(mask, b, i) \in Nat /\ Rank(mask, b, j) \in Nat
    BY <1>5, RankType
<1>7. ~(i < j) /\ ~(j < i)
    BY <1>1, <1>4, <1>5, <1>6, RankGrows
<1> QED
    BY <1>1, <1>2, <1>5, <1>7

\* Two masks that agree on the first n bits.
LEMMA RankAgrees ==
    ASSUME NEW f, NEW g, NEW b, NEW n \in Nat, \A i \in 1..n : f[i] = g[i]
    PROVE  Rank(f, b, n) = Rank(g, b, n)
<1>1. {i \in 1..n : f[i] = b} = {i \in 1..n : g[i] = b}
    OBVIOUS
<1> QED
    BY <1>1 DEF Rank

\* The packets that are not sent are those that are freed.
LEMMA RankRest ==
    ASSUME NEW n \in Nat, NEW f, \A i \in 1..n : f[i] \in BOOLEAN
    PROVE  n - Rank(f, TRUE, n) = Rank(f, FALSE, n)
<1> DEFINE T == {i \in 1..n : f[i] = TRUE}
           F == {i \in 1..n : f[i] = FALSE}
<1>1. (1..n) \ T = F
    BY Zenon
<1>2. (1..n) \cap T = T
    BY Zenon
<1>3. IsFiniteSet(1..n) /\ Cardinality(1..n) = n
    BY FS_Interval
<1> HIDE DEF T, F
<1>4. Cardinality(F) = n - Cardinality(T)
  <2>1. Cardinality((1..n) \ T) = Cardinality(1..n) - Cardinality((1..n) \cap T)
      BY <1>3, FS_Difference, Zenon
  <2> QED
      BY <1>1, <1>2, <1>3, <2>1
<1> QED
    BY <1>4 DEF Rank, T, F

-----------------------------------------------------------------------------
(* The batch                                                               *)

IsArray ==
    /\ ba \in [pkts : {ba.pkts}, sendMask : {ba.sendMask}, numBufs : Nat, numSlots : Nat,
               fromLua : BOOLEAN]
    /\ ba.sendMask \in [1..ba.numSlots -> BOOLEAN]
    /\ DOMAIN ba.pkts = 1..ba.numSlots
    /\ ba.pkts = [i \in DOMAIN ba.pkts |-> ba.pkts[i]]
    /\ ba.numBufs <= ba.numSlots

\* The array holds the packets that entered with their fates, and the unused
\* slots, which the counts run over, are not marked.
Agrees ==
    /\ ba.numSlots >= 1
    /\ Len(entered) = ba.numBufs
    /\ \A i \in 1..ba.numBufs : ba.pkts[i] = entered[i] /\ ba.sendMask[i] = fate[i]
    /\ \A i \in (ba.numBufs + 1)..ba.numSlots : ~ba.sendMask[i]

BatchInv ==
    /\ TypeOK /\ ArrayMemory /\ CollectedExactly /\ IsArray
    /\ entered \in Seq(Packets)
    /\ fate \in [1..Len(entered) -> BOOLEAN]
    /\ phase = "open" => Agrees
    /\ phase = "idle" => entered = <<>>

\* The mask of an array whose slots a step left alone but for one bit or all those
\* of one packet.
LEMMA MarkStep ==
    ASSUME BatchInv, phase = "open",
           NEW mask, ba' = [ba EXCEPT !.sendMask = mask],
           mask \in [1..ba.numSlots -> BOOLEAN], fate' \in [1..Len(entered) -> BOOLEAN],
           \A i \in 1..ba.numBufs : mask[i] = fate'[i],
           \A i \in (ba.numBufs + 1)..ba.numSlots : mask[i] = ba.sendMask[i],
           UNCHANGED <<phase, array, mallocd, entered>>
    PROVE  BatchInv'
<1>1. ba' = [pkts |-> ba.pkts, sendMask |-> mask, numBufs |-> ba.numBufs,
             numSlots |-> ba.numSlots, fromLua |-> ba.fromLua]
    BY DEF BatchInv, IsArray
<1>2. /\ ba'.pkts = ba.pkts /\ ba'.sendMask = mask /\ ba'.numBufs = ba.numBufs
      /\ ba'.numSlots = ba.numSlots /\ ba'.fromLua = ba.fromLua
    BY <1>1
<1>3. IsArray'
    BY <1>1, <1>2 DEF BatchInv, IsArray
<1>4. Agrees'
    BY <1>2 DEF BatchInv, Agrees
<1>5. TypeOK'
    BY <1>2 DEF BatchInv, TypeOK
<1>6. ArrayMemory'
    BY <1>2 DEF BatchInv, ArrayMemory
<1> QED
    BY <1>3, <1>4, <1>5, <1>6 DEF BatchInv, CollectedExactly

\* One bit: markDropPkt and markSendPkt with an index.
LEMMA BitSet ==
    ASSUME NEW n \in Nat, NEW f \in [1..n -> BOOLEAN], NEW i \in 1..n, NEW b \in BOOLEAN
    PROVE  /\ [f EXCEPT ![i] = b] \in [1..n -> BOOLEAN]
           /\ [f EXCEPT ![i] = b][i] = b
           /\ \A x \in 1..n : x # i => [f EXCEPT ![i] = b][x] = f[x]
<1>1. [f EXCEPT ![i] = b] \in [1..n -> BOOLEAN]
    BY Zenon
<1>2. [f EXCEPT ![i] = b][i] = b
    BY Zenon
<1>3. \A x \in 1..n : x # i => [f EXCEPT ![i] = b][x] = f[x]
    BY Zenon
<1> QED
    BY <1>1, <1>2, <1>3

LEMMA BitStep ==
    ASSUME BatchInv, NEW i, NEW b \in BOOLEAN, phase = "open", InRange(ba, i),
           ba' = [ba EXCEPT !.sendMask[i] = b], fate' = [fate EXCEPT ![i] = b],
           UNCHANGED <<phase, array, mallocd, entered>>
    PROVE  BatchInv'
<1>1. PICK slots, n, mask : slots = ba.numSlots /\ n = ba.numBufs /\ mask = ba.sendMask
    OBVIOUS
<1>2. /\ slots \in Nat /\ n \in Nat /\ n <= slots /\ i \in 1..n /\ i \in 1..slots
      /\ mask \in [1..slots -> BOOLEAN] /\ fate \in [1..n -> BOOLEAN] /\ Len(entered) = n
      /\ \A x \in 1..n : mask[x] = fate[x]
    BY <1>1 DEF BatchInv, IsArray, Agrees, InRange
<1>3. PICK new : new = [mask EXCEPT ![i] = b]
    OBVIOUS
<1>4. /\ new \in [1..slots -> BOOLEAN] /\ new[i] = b
      /\ \A x \in 1..slots : x # i => new[x] = mask[x]
    BY <1>2, <1>3, BitSet
<1>5. /\ fate' \in [1..n -> BOOLEAN] /\ fate'[i] = b
      /\ \A x \in 1..n : x # i => fate'[x] = fate[x]
    BY <1>2, BitSet
<1>6. ba' = [ba EXCEPT !.sendMask = new]
    BY <1>1, <1>3
<1>7. \A x \in 1..n : x \in 1..slots
    BY <1>2
<1>8. \A x \in 1..n : new[x] = fate'[x]
    BY <1>2, <1>4, <1>5, <1>7
<1>9. \A x \in (n + 1)..slots : new[x] = mask[x]
    BY <1>2, <1>4
<1> QED
    BY <1>1, <1>2, <1>4, <1>5, <1>6, <1>8, <1>9, MarkStep

\* The overload that takes the packet.
LEMMA PtrStep ==
    ASSUME BatchInv, NEW p \in Packets, DropPtr(p)
    PROVE  BatchInv'
<1>1. PICK slots, n, mask : slots = ba.numSlots /\ n = ba.numBufs /\ mask = ba.sendMask
    OBVIOUS
<1>2. phase = "open" /\ UNCHANGED <<phase, array, mallocd, entered>>
    BY DEF DropPtr
<1>3. /\ slots \in Nat /\ n \in Nat /\ n <= slots
      /\ mask \in [1..slots -> BOOLEAN] /\ fate \in [1..n -> BOOLEAN] /\ Len(entered) = n
      /\ \A x \in 1..n : mask[x] = fate[x] /\ ba.pkts[x] = entered[x]
    BY <1>1, <1>2 DEF BatchInv, IsArray, Agrees
<1> DEFINE Bit(x) == mask[x] /\ ~(x <= n /\ ba.pkts[x] = p)
           Fate(x) == fate[x] /\ entered[x] # p
<1>4. PICK new : new = [x \in 1..slots |-> Bit(x)]
    OBVIOUS
<1>5. /\ ba' = [ba EXCEPT !.sendMask = new]
      /\ fate' = [x \in 1..n |-> Fate(x)]
    BY <1>1, <1>3, <1>4 DEF DropPtr, MarkDropPktPtr
<1>6. \A x \in 1..n : x \in 1..slots /\ (Bit(x) <=> Fate(x))
    BY <1>3
<1>7. \A x \in (n + 1)..slots : x \in 1..slots /\ (Bit(x) <=> mask[x])
    BY <1>3
<1>8. \A x : Bit(x) \in BOOLEAN /\ Fate(x) \in BOOLEAN
    BY Zenon
<1> HIDE DEF Bit, Fate
<1>9. new \in [1..slots -> BOOLEAN]
    BY <1>4, <1>8, Zenon
<1>10. fate' \in [1..n -> BOOLEAN]
    BY <1>5, <1>8, Zenon
<1>11. \A x \in 1..n : new[x] = fate'[x]
    BY <1>4, <1>5, <1>6, <1>8, Zenon
<1>12. \A x \in (n + 1)..slots : new[x] = mask[x]
  <2>1. \A x \in 1..slots : mask[x] \in BOOLEAN
      BY <1>3, Zenon
  <2> QED
      BY <1>4, <1>7, <1>8, <2>1, Zenon
<1> QED
    BY <1>1, <1>2, <1>3, <1>5, <1>9, <1>10, <1>11, <1>12, MarkStep

\* What addPkt writes to: the array as it is or one of twice the size, with room
\* for one more packet, and the memory it stands in.
Room ==
    IF NeedsGrowth(ba) THEN Grow(ba) ELSE ba

LEMMA RoomFor ==
    ASSUME BatchInv, NEW p \in Packets, Add(p)
    PROVE  /\ Room = [pkts |-> Room.pkts, sendMask |-> Room.sendMask,
                      numBufs |-> ba.numBufs, numSlots |-> Room.numSlots,
                      fromLua |-> Room.fromLua]
           /\ Room.numSlots \in Nat /\ ba.numBufs + 1 <= Room.numSlots
           /\ Room.fromLua \in BOOLEAN
           /\ Room.sendMask \in [1..Room.numSlots -> BOOLEAN]
           /\ DOMAIN Room.pkts = 1..Room.numSlots
           /\ Room.pkts = [i \in 1..Room.numSlots |-> Room.pkts[i]]
           /\ \A i \in 1..ba.numBufs :
                 Room.pkts[i] = entered[i] /\ Room.sendMask[i] = fate[i]
           /\ \A i \in (ba.numBufs + 1)..Room.numSlots : ~Room.sendMask[i]
           /\ array' \in Arrays \cup {LuaArray} /\ mallocd' \subseteq Arrays
           /\ mallocd' = IF Room.fromLua THEN {} ELSE {array'}
<1>1. PICK k, n, f, pk : k = ba.numSlots /\ n = ba.numBufs /\ f = ba.sendMask /\ pk = ba.pkts
    OBVIOUS
<1>2. /\ phase = "open"
      /\ IF NeedsGrowth(ba) THEN Reallocate ELSE UNCHANGED <<array, mallocd>>
    BY DEF Add
<1>3. /\ k \in Nat /\ n \in Nat /\ n <= k /\ k >= 1 /\ ba.fromLua \in BOOLEAN
      /\ f \in [1..k -> BOOLEAN] /\ DOMAIN pk = 1..k
      /\ pk = [i \in 1..k |-> pk[i]]
      /\ \A i \in 1..n : pk[i] = entered[i] /\ f[i] = fate[i]
      /\ \A i \in (n + 1)..k : ~f[i]
    BY <1>1, <1>2 DEF BatchInv, IsArray, Agrees
<1>4. /\ mallocd = IF ~ba.fromLua THEN {array} ELSE {}
      /\ array \in Arrays \cup {LuaArray} /\ mallocd \subseteq Arrays
    BY <1>2 DEF BatchInv, ArrayMemory, TypeOK
<1>5. CASE NeedsGrowth(ba)
  <2>1. PICK j : j = GrownSlots(ba)
      OBVIOUS
  <2>2. j \in Nat /\ n = k /\ n + 1 <= j /\ k <= j
      BY <1>1, <1>3, <1>5, <2>1 DEF GrownSlots, NeedsGrowth
  <2> DEFINE V(i) == IF i <= k THEN f[i] ELSE FALSE
             W(i) == IF i <= k THEN pk[i] ELSE Garbage
  <2>3. PICK g, q : g = [i \in 1..j |-> V(i)] /\ q = [i \in 1..j |-> W(i)]
      OBVIOUS
  <2>4. Room = [pkts |-> q, sendMask |-> g, numBufs |-> n, numSlots |-> j, fromLua |-> FALSE]
      BY <1>1, <1>5, <2>1, <2>3 DEF Room, Grow
  <2>5. /\ \A i \in 1..j : i <= k => i \in 1..k
        /\ \A i \in 1..k : i <= k /\ i \in 1..j
        /\ \A i \in (n + 1)..j : ~(i <= k) /\ i \in 1..j
      BY <1>3, <2>2
  <2>6. \A i \in 1..j : V(i) \in BOOLEAN
      BY <1>3, <2>5, Zenon
  <2>7. \A i \in 1..k : V(i) = f[i] /\ W(i) = pk[i]
      BY <2>5, Zenon
  <2>8. \A i \in (n + 1)..j : ~V(i)
      BY <2>5, Zenon
  <2> HIDE DEF V, W
  <2>9. g \in [1..j -> BOOLEAN]
      BY <2>3, <2>6, Zenon
  <2>10. \A i \in 1..k : g[i] = f[i] /\ q[i] = pk[i]
      BY <2>3, <2>5, <2>7, Zenon
  <2>11. \A i \in (n + 1)..j : ~g[i]
      BY <2>3, <2>5, <2>8, Zenon
  <2>12. DOMAIN q = 1..j /\ q = [i \in 1..j |-> q[i]]
      BY <2>3
  <2>13. PICK a \in Arrays \ mallocd :
            /\ array' = a
            /\ mallocd' = (mallocd \cup {a}) \ (IF ba.fromLua THEN {} ELSE {array})
      BY <1>2, <1>5 DEF Reallocate
  <2>14. mallocd' = {array'} /\ array' \in Arrays
      BY <1>3, <1>4, <2>13
  <2>15. /\ \A i \in 1..n : q[i] = entered[i]
         /\ \A i \in 1..n : g[i] = fate[i]
      BY <1>3, <2>2, <2>10
  <2>16. /\ Room.pkts = q /\ Room.sendMask = g /\ Room.numSlots = j
         /\ Room.fromLua = FALSE /\ ba.numBufs = n
      BY <1>1, <2>4
  <2> QED
      BY <2>2, <2>4, <2>9, <2>11, <2>12, <2>14, <2>15, <2>16
<1>6. CASE ~NeedsGrowth(ba)
  <2>1. n + 1 <= k
      BY <1>1, <1>3, <1>6 DEF NeedsGrowth
  <2>2. Room = [pkts |-> pk, sendMask |-> f, numBufs |-> n, numSlots |-> k, fromLua |-> ba.fromLua]
      BY <1>1, <1>6 DEF Room, BatchInv, IsArray
  <2>3. array' = array /\ mallocd' = mallocd
      BY <1>2, <1>6
  <2>4. PICK lua : lua = ba.fromLua
      OBVIOUS
  <2>5. mallocd' = (IF lua THEN {} ELSE {array'}) /\ lua \in BOOLEAN
      BY <1>3, <1>4, <2>3, <2>4
  <2>6. Room = [pkts |-> pk, sendMask |-> f, numBufs |-> n, numSlots |-> k, fromLua |-> lua]
      BY <2>2, <2>4
  <2>7. array' \in Arrays \cup {LuaArray} /\ mallocd' \subseteq Arrays
      BY <1>4, <2>3
  <2>8. k \in Nat /\ f \in [1..k -> BOOLEAN] /\ DOMAIN pk = 1..k
        /\ pk = [i \in 1..k |-> pk[i]]
      BY <1>3
  <2>9. \A i \in 1..n : pk[i] = entered[i]
      BY <1>3
  <2>10. \A i \in 1..n : f[i] = fate[i]
      BY <1>3, Zenon
  <2>11. \A i \in (n + 1)..k : ~f[i]
      BY <1>3, Zenon
  <2>12. /\ Room.pkts = pk /\ Room.sendMask = f /\ Room.numSlots = k
         /\ Room.fromLua = lua /\ ba.numBufs = n
      BY <1>1, <2>6
  <2> QED
      BY <2>1, <2>5, <2>6, <2>7, <2>8, <2>9, <2>10, <2>11, <2>12
<1> QED
    BY <1>5, <1>6

LEMMA AppendTo ==
    ASSUME NEW S, NEW seq \in Seq(S), NEW n, n = Len(seq), NEW elt \in S,
           NEW new, new = Append(seq, elt)
    PROVE  /\ new \in [1..(n + 1) -> S] /\ new[n + 1] = elt
           /\ \A i \in 1..n : new[i] = seq[i]
<1>1. /\ new \in Seq(S) /\ Len(new) = n + 1 /\ new[n + 1] = elt
      /\ \A i \in 1..n : new[i] = seq[i]
    BY AppendProperties
<1>2. new \in [1..(n + 1) -> S]
    BY <1>1, LenProperties, Zenon
<1> QED
    BY <1>1, <1>2

\* FunIface::getPkt.
LEMMA AddStep ==
    ASSUME BatchInv, NEW p \in Packets, Add(p)
    PROVE  BatchInv'
<1>1. PICK n : n = ba.numBufs
    OBVIOUS
<1>0. PICK pkts, mask, slots, lua :
          /\ pkts = Room.pkts /\ mask = Room.sendMask
          /\ slots = Room.numSlots /\ lua = Room.fromLua
    OBVIOUS
<1>2. /\ Room = [pkts |-> pkts, sendMask |-> mask, numBufs |-> n,
               numSlots |-> slots, fromLua |-> lua]
      /\ slots \in Nat /\ n + 1 <= slots /\ lua \in BOOLEAN
      /\ mask \in [1..slots -> BOOLEAN]
      /\ DOMAIN pkts = 1..slots /\ pkts = [i \in 1..slots |-> pkts[i]]
      /\ \A i \in 1..n : pkts[i] = entered[i] /\ mask[i] = fate[i]
      /\ \A i \in (n + 1)..slots : ~mask[i]
      /\ array' \in Arrays \cup {LuaArray} /\ mallocd' \subseteq Arrays
      /\ mallocd' = IF lua THEN {} ELSE {array'}
    BY <1>0, <1>1, RoomFor
<1>3. /\ phase = "open" /\ phase' = "open"
      /\ entered' = Append(entered, p) /\ fate' = Append(fate, TRUE)
      /\ ba' = [Room EXCEPT !.sendMask[n + 1] = TRUE, !.pkts[n + 1] = p, !.numBufs = n + 1]
    BY <1>1 DEF Add, AddPkt, Room
<1>4. n \in Nat /\ n = Len(entered) /\ entered \in Seq(Packets) /\ fate \in [1..n -> BOOLEAN]
    BY <1>1, <1>3 DEF BatchInv, IsArray, Agrees
<1>5. PICK new, np : new = [mask EXCEPT ![n + 1] = TRUE] /\ np = [pkts EXCEPT ![n + 1] = p]
    OBVIOUS
<1>6. ba' = [pkts |-> np, sendMask |-> new, numBufs |-> n + 1, numSlots |-> slots,
             fromLua |-> lua]
    BY <1>2, <1>3, <1>5
<1>7. n + 1 \in 1..slots /\ \A i \in 1..n : i \in 1..slots /\ i # n + 1
    BY <1>2, <1>4
<1>8. /\ new \in [1..slots -> BOOLEAN] /\ new[n + 1] = TRUE
      /\ \A i \in 1..slots : i # n + 1 => new[i] = mask[i]
    BY <1>2, <1>5, <1>7, BitSet
<1>9. /\ DOMAIN np = 1..slots /\ np = [i \in 1..slots |-> np[i]] /\ np[n + 1] = p
      /\ \A i \in 1..slots : i # n + 1 => np[i] = pkts[i]
    BY <1>2, <1>5, <1>7
<1>10. /\ entered' \in Seq(Packets) /\ Len(entered') = n + 1 /\ entered'[n + 1] = p
       /\ \A i \in 1..n : entered'[i] = entered[i]
    BY <1>3, <1>4
<1>11. /\ fate' \in [1..(n + 1) -> BOOLEAN] /\ fate'[n + 1] = TRUE
       /\ \A i \in 1..n : fate'[i] = fate[i]
  <2>1. fate \in Seq(BOOLEAN) /\ Len(fate) = n
      BY <1>4
  <2>2. PICK B, t : B = BOOLEAN /\ t = TRUE
      OBVIOUS
  <2>3. PICK new2 : new2 = Append(fate, t)
      OBVIOUS
  <2>4. fate \in Seq(B) /\ t \in B
      BY <2>1, <2>2
  <2>5. /\ new2 \in [1..(n + 1) -> B] /\ new2[n + 1] = t
        /\ \A i \in 1..n : new2[i] = fate[i]
    <3>1. PICK f, m : f = fate /\ m = n
        OBVIOUS
    <3>2. f \in Seq(B) /\ m = Len(f) /\ new2 = Append(f, t)
        BY <2>1, <2>3, <2>4, <3>1
    <3>3. new2 \in [1..(m + 1) -> B]
        BY <2>4, <3>2, AppendTo, Zenon
    <3>4. new2[m + 1] = t
        BY <2>4, <3>2, AppendTo
    <3>5. \A i \in 1..m : new2[i] = f[i]
        BY <2>4, <3>2, AppendTo
    <3> QED
        BY <3>1, <3>3, <3>4, <3>5
  <2> QED
      BY <1>3, <2>2, <2>3, <2>5
<1>12. /\ ba'.pkts = np /\ ba'.sendMask = new /\ ba'.numBufs = n + 1
       /\ ba'.numSlots = slots /\ ba'.fromLua = lua
    BY <1>6
<1>13. IsArray'
    BY <1>2, <1>4, <1>6, <1>8, <1>9, <1>12 DEF IsArray
<1>14. Agrees'
  <2>5. \A i \in 1..(n + 1) : i \in 1..n \/ i = n + 1
      BY <1>4
  <2>1. \A i \in 1..(n + 1) : np[i] = entered'[i]
      BY <1>2, <1>7, <1>9, <1>10, <2>5, Zenon
  <2>2. \A i \in 1..(n + 1) : new[i] = fate'[i]
      BY <1>2, <1>7, <1>8, <1>11, <2>5, Zenon
  <2>3. \A i \in (n + 1 + 1)..slots : i \in 1..slots /\ i # n + 1 /\ i \in (n + 1)..slots
      BY <1>4
  <2>4. \A i \in (n + 1 + 1)..slots : ~new[i]
      BY <1>2, <1>8, <2>3
  <2> QED
      BY <1>2, <1>4, <1>10, <1>12, <2>1, <2>2, <2>4 DEF Agrees
<1>15. TypeOK'
    BY <1>2, <1>3, <1>4, <1>8, <1>9, <1>10, <1>11, <1>12 DEF TypeOK
<1>16. ArrayMemory'
    BY <1>2, <1>3, <1>12 DEF ArrayMemory
<1> QED
    BY <1>3, <1>10, <1>11, <1>13, <1>14, <1>15, <1>16 DEF BatchInv, CollectedExactly

\* The array X_process builds around the packets it was called with.
LEMMA OpenStep ==
    ASSUME BatchInv, NEW ps \in Inputs, NEW lua \in BOOLEAN, Open(ps, lua)
    PROVE  BatchInv'
<1>1. PICK n \in 1..MaxInput : ps \in [1..n -> Packets]
    BY DEF Inputs
<1>2. n \in Nat /\ n >= 1 /\ ps \in Seq(Packets) /\ Len(ps) = n
    BY <1>1
<1> DEFINE V(i) == TRUE
<1>3. PICK mask : mask = [i \in 1..n |-> V(i)]
    OBVIOUS
<1>4. /\ mask \in [1..n -> BOOLEAN]
      /\ \A i \in 1..n : mask[i] = TRUE
    BY <1>3, Zenon
<1>5. /\ phase = "idle" /\ phase' = "open" /\ entered' = ps
      /\ ba' = [pkts |-> ps, sendMask |-> mask, numBufs |-> n, numSlots |-> n, fromLua |-> lua]
      /\ fate' = mask
    BY <1>2, <1>3 DEF Open, New
<1> HIDE DEF V
<1>6. /\ ba'.pkts = ps /\ ba'.sendMask = mask /\ ba'.numBufs = n /\ ba'.numSlots = n
      /\ ba'.fromLua = lua
    BY <1>5
<1>7. DOMAIN ps = 1..n /\ ps = [i \in 1..n |-> ps[i]]
    BY <1>1
<1>8. IsArray'
    BY <1>2, <1>4, <1>5, <1>6, <1>7 DEF IsArray
<1>9. Agrees'
    BY <1>2, <1>4, <1>5, <1>6 DEF Agrees
<1>10. /\ array' \in Arrays \cup {LuaArray} /\ mallocd' \subseteq Arrays
       /\ mallocd' = IF lua THEN {} ELSE {array'}
  <2>1. mallocd = {}
      BY <1>5 DEF BatchInv, ArrayMemory
  <2> QED
      BY <2>1 DEF Open
<1>11. TypeOK'
    BY <1>2, <1>4, <1>5, <1>6, <1>7, <1>10 DEF TypeOK
<1>12. ArrayMemory'
    BY <1>5, <1>6, <1>10 DEF ArrayMemory
<1> QED
    BY <1>2, <1>4, <1>5, <1>8, <1>9, <1>11, <1>12 DEF BatchInv, CollectedExactly

\* The counts, over the whole mask, are those of the packets: the bits of the
\* unused slots are FALSE.
LEMMA Counts ==
    ASSUME BatchInv, phase = "open"
    PROVE  GetSendCount(ba) = Count(TRUE) /\ GetFreeCount(ba) = Count(FALSE)
<1>1. PICK k, n, f : k = ba.numSlots /\ n = ba.numBufs /\ f = ba.sendMask
    OBVIOUS
<1>2. /\ k \in Nat /\ n \in Nat /\ n <= k /\ f \in [1..k -> BOOLEAN]
      /\ fate \in [1..n -> BOOLEAN] /\ n = Len(entered)
      /\ \A i \in 1..n : f[i] = fate[i]
      /\ \A i \in (n + 1)..k : ~f[i]
    BY <1>1 DEF BatchInv, IsArray, Agrees
<1>3. {i \in DOMAIN f : f[i]} = {i \in 1..n : f[i] = TRUE}
  <2>1. /\ \A i \in 1..k : i \in 1..n \/ i \in (n + 1)..k
        /\ \A i \in 1..n : i \in 1..k
      BY <1>2
  <2>2. DOMAIN f = 1..k
      BY <1>2
  <2>3. \A i \in 1..n : f[i] \in BOOLEAN
      BY <1>2, <2>1, Zenon
  <2> QED
      BY <1>2, <2>1, <2>2, <2>3, Zenon
<1>4. GetSendCount(ba) = Rank(f, TRUE, n)
    BY <1>1, <1>3 DEF GetSendCount, Rank
<1>5. Rank(f, TRUE, n) = Rank(fate, TRUE, n)
  <2>1. \A i \in 1..n : f[i] = fate[i]
      BY <1>2, Zenon
  <2>2. PICK b : b = TRUE
      OBVIOUS
  <2>3. Rank(f, b, n) = Rank(fate, b, n)
      BY <1>2, <2>1, RankAgrees
  <2> QED
      BY <2>2, <2>3
<1>6. n - Rank(fate, TRUE, n) = Rank(fate, FALSE, n)
  <2>1. \A i \in 1..n : fate[i] \in BOOLEAN
      BY <1>2, Zenon
  <2> QED
      BY <1>2, <2>1, RankRest
<1> QED
    BY <1>1, <1>2, <1>4, <1>5, <1>6 DEF GetFreeCount, Count

\* The scan hands out every packet of the batch that has the bit, at its rank.
LEMMA Listed ==
    ASSUME BatchInv, phase = "open", NEW b \in BOOLEAN, NEW bufs,
           bufs = [k \in 1..Count(b) |-> ba.pkts[SlotMarked(ba.sendMask, b, k)]]
    PROVE  Lists(bufs, b)
<1>1. PICK slots, n, f, pk : slots = ba.numSlots /\ n = ba.numBufs /\ f = ba.sendMask
                             /\ pk = ba.pkts
    OBVIOUS
<1>2. /\ slots \in Nat /\ n \in Nat /\ n <= slots /\ f \in [1..slots -> BOOLEAN]
      /\ n = Len(entered) /\ DOMAIN entered = 1..n
      /\ \A i \in 1..n : pk[i] = entered[i]
    BY <1>1 DEF BatchInv, IsArray, Agrees
<1>3. \A i \in 1..n : f[i] = fate[i]
    BY <1>1 DEF BatchInv, Agrees
<1>4. DOMAIN f = 1..slots
    BY <1>2
<1>5. PICK c : c = Count(b)
    OBVIOUS
<1>6. c = Rank(fate, b, n) /\ c \in Nat
    BY <1>2, <1>5, RankType DEF Count
<1>7. Len(bufs) = c
    BY <1>5, <1>6
<1>8. ASSUME NEW i \in 1..n, fate[i] = b
      PROVE  bufs[Rank(fate, b, i)] = entered[i]
  <2>1. PICK r : r = Rank(fate, b, i)
      OBVIOUS
  <2>2. i \in Nat /\ i <= n /\ 0 < i /\ i \in 1..slots
      BY <1>2
  <2>3. \A x \in 1..i : x \in 1..n
      BY <1>2
  <2>4. \A x \in 1..i : f[x] = fate[x]
      BY <1>3, <2>3, Zenon
  <2>5. Rank(f, b, i) = r
      BY <2>1, <2>2, <2>4, RankAgrees
  <2>6. f[i] = b
      BY <1>3, <1>8, Zenon
  <2>7. SlotMarked(f, b, r) = i
      BY <1>2, <1>4, <2>2, <2>5, <2>6, ScanFinds
  <2>8. r \in Nat /\ Rank(fate, b, 0) \in Nat
      BY <2>1, <2>2, RankType
  <2>9. r <= c
      BY <1>2, <1>6, <2>1, <2>2, RankGrows
  <2>10. Rank(fate, b, 0) < r
      BY <1>8, <2>1, <2>2, RankGrows
  <2>11. r \in 1..c
      BY <1>6, <2>8, <2>9, <2>10
  <2>12. bufs[r] = pk[SlotMarked(f, b, r)]
      BY <1>1, <1>5, <2>11
  <2> QED
      BY <1>2, <2>1, <2>7, <2>12
<1> QED
    BY <1>2, <1>5, <1>7, <1>8 DEF Lists

\* X_getPkts.
LEMMA CollectStep ==
    ASSUME BatchInv, Collect
    PROVE  BatchInv'
<1>1. /\ phase = "open" /\ phase' = "collected" /\ ba' = NoBatch
      /\ UNCHANGED <<array, entered, fate>>
      /\ sendBufs' = GetSendBufs(ba) /\ freeBufs' = GetFreeBufs(ba)
      /\ mallocd' = IF ba.fromLua THEN mallocd ELSE mallocd \ {array}
    BY DEF Collect
<1>2. mallocd' = {}
    BY <1>1 DEF BatchInv, ArrayMemory
<1>3. Lists(GetSendBufs(ba), TRUE)
    BY <1>1, Counts, Listed DEF GetSendBufs
<1>4. Lists(GetFreeBufs(ba), FALSE)
    BY <1>1, Counts, Listed DEF GetFreeBufs
<1>5. CollectedExactly'
    BY <1>1, <1>3, <1>4 DEF CollectedExactly, Lists, Count
<1>6. /\ ba'.pkts = <<>> /\ ba'.sendMask = <<>> /\ ba'.numBufs = 0 /\ ba'.numSlots = 0
      /\ ba'.fromLua = FALSE
    BY <1>1 DEF NoBatch
<1>7. IsArray'
    BY <1>1, <1>6 DEF IsArray, NoBatch
<1>8. TypeOK'
    BY <1>1, <1>2, <1>7 DEF TypeOK, BatchInv, IsArray
<1>9. ArrayMemory'
    BY <1>1, <1>2 DEF ArrayMemory
<1> QED
    BY <1>1, <1>5, <1>7, <1>8, <1>9 DEF BatchInv

LEMMA ReleaseStep ==
    ASSUME BatchInv, Release
    PROVE  BatchInv'
<1>1. /\ phase = "collected" /\ phase' = "idle" /\ array' = LuaArray
      /\ entered' = <<>> /\ fate' = <<>> /\ UNCHANGED <<ba, mallocd>>
    BY DEF Release
<1>2. mallocd = {}
    BY <1>1 DEF BatchInv, ArrayMemory
<1>3. IsArray'
    BY <1>1 DEF BatchInv, IsArray
<1>4. TypeOK'
    BY <1>1 DEF BatchInv, TypeOK
<1>5. ArrayMemory'
    BY <1>1, <1>2 DEF ArrayMemory
<1>6. fate' \in [1..Len(entered') -> BOOLEAN]
    BY <1>1
<1> QED
    BY <1>1, <1>3, <1>4, <1>5, <1>6 DEF BatchInv, CollectedExactly

LEMMA InitBatch ==
    Init => BatchInv
<1> SUFFICES ASSUME Init
             PROVE  BatchInv
    OBVIOUS
<1>1. /\ ba.pkts = <<>> /\ ba.sendMask = <<>> /\ ba.numBufs = 0 /\ ba.numSlots = 0
      /\ ba.fromLua = FALSE
    BY DEF Init, NoBatch
<1>2. IsArray
    BY <1>1 DEF Init, IsArray, NoBatch
<1>3. TypeOK
    BY <1>2 DEF Init, TypeOK, IsArray
<1>4. ArrayMemory
    BY DEF Init, ArrayMemory
<1>5. fate \in [1..Len(entered) -> BOOLEAN]
    BY DEF Init
<1> QED
    BY <1>2, <1>3, <1>4, <1>5 DEF Init, BatchInv, CollectedExactly

LEMMA NextBatch ==
    BatchInv /\ [Next]_vars => BatchInv'
<1> SUFFICES ASSUME BatchInv, [Next]_vars
             PROVE  BatchInv'
    OBVIOUS
<1>1. ASSUME NEW ps \in Inputs, NEW lua \in BOOLEAN, Open(ps, lua)
      PROVE  BatchInv'
    BY <1>1, OpenStep
<1>2. ASSUME NEW i \in DOMAIN entered, Drop(i)
      PROVE  BatchInv'
  <2>1. /\ ba' = [ba EXCEPT !.sendMask[i] = FALSE] /\ fate' = [fate EXCEPT ![i] = FALSE]
        /\ phase = "open" /\ InRange(ba, i) /\ UNCHANGED <<phase, array, mallocd, entered>>
      BY <1>2 DEF Drop, MarkDropPkt
  <2> QED
      BY <2>1, BitStep
<1>3. ASSUME NEW i \in DOMAIN entered, Send(i)
      PROVE  BatchInv'
  <2>1. /\ ba' = [ba EXCEPT !.sendMask[i] = TRUE] /\ fate' = [fate EXCEPT ![i] = TRUE]
        /\ phase = "open" /\ InRange(ba, i) /\ UNCHANGED <<phase, array, mallocd, entered>>
      BY <1>3 DEF Send, MarkSendPkt
  <2> QED
      BY <2>1, BitStep
<1>4. ASSUME NEW p \in Packets, DropPtr(p)
      PROVE  BatchInv'
    BY <1>4, PtrStep
<1>5. ASSUME NEW p \in Packets, Add(p)
      PROVE  BatchInv'
    BY <1>5, AddStep
<1>6. CASE UNCHANGED vars
    BY <1>6 DEF vars, BatchInv, TypeOK, ArrayMemory, CollectedExactly, IsArray, Agrees,
                Lists, Count
<1> QED
    BY <1>1, <1>2, <1>3, <1>4, <1>5, <1>6, CollectStep, ReleaseStep DEF Next

LEMMA BatchInvariant ==
    Spec => []BatchInv
BY InitBatch, NextBatch, PTL DEF Spec

-----------------------------------------------------------------------------

\* The members of BufArray agree with each other: there are never more packets
\* than slots and the mask has one bit per slot, whatever addPkt did.
THEOREM PacketTypeCorrect ==
    Spec => []TypeOK
<1>1. BatchInv => TypeOK
    BY DEF BatchInv
<1> QED
    BY <1>1, BatchInvariant, PTL

\* The pointer arrays addPkt mallocs are neither leaked nor freed twice, and Lua's
\* own array is never freed.
THEOREM ArrayMemoryCorrect ==
    Spec => []ArrayMemory
<1>1. BatchInv => ArrayMemory
    BY DEF BatchInv
<1> QED
    BY <1>1, BatchInvariant, PTL

\* getSendCount and getFreeCount are the numbers of packets last marked send and
\* free: every packet is counted once, and no unused slot is.
THEOREM CountsCorrect ==
    Spec => []CountsMatchMarks
<1>1. BatchInv => CountsMatchMarks
    BY Counts DEF CountsMatchMarks
<1> QED
    BY <1>1, BatchInvariant, PTL

\* getSendBufs and getFreeBufs hand out every packet of the batch once, in the list
\* of its last mark and in order of entry.
THEOREM CollectedCorrect ==
    Spec => []CollectedExactly
<1>1. BatchInv => CollectedExactly
    BY DEF BatchInv
<1> QED
    BY <1>1, BatchInvariant, PTL

=============================================================================
