------------------------------ MODULE BufArray ------------------------------
(***************************************************************************)
(* The packet array of include/bufArray.hpp as a value and the operations  *)
(* on it.  A BufArray is a record                                          *)
(*                                                                         *)
(*   pkts      the pointer array, numSlots entries long; entries above     *)
(*             numBufs hold whatever malloc left there (Garbage)           *)
(*   sendMask  one bit per slot: TRUE = transmit, FALSE = free             *)
(*   numBufs   packets stored                                              *)
(*   numSlots  capacity                                                    *)
(*   fromLua   TRUE while the pointer array belongs to the Lua side        *)
(*                                                                         *)
(* Indices start at 1 here and at 0 in the code.                           *)
(***************************************************************************)
EXTENDS Naturals, Sequences, FiniteSets

CONSTANT Garbage    \* content of a slot nothing was stored into yet

\* BufArray(pkts, numPkts, fromLua): the array fits exactly, all marked send.
New(ps, lua) ==
    [ pkts     |-> ps,
      sendMask |-> [i \in 1..Len(ps) |-> TRUE],
      numBufs  |-> Len(ps),
      numSlots |-> Len(ps),
      fromLua  |-> lua ]

\* assert(pktIdx < numBufs) of both mark functions.
InRange(ba, idx) == idx \in 1..ba.numBufs

MarkDropPkt(ba, idx) == [ba EXCEPT !.sendMask[idx] = FALSE]

\* The overload that takes the packet and marks every slot that holds it.
MarkDropPktPtr(ba, pkt) ==
    [ba EXCEPT !.sendMask =
        [i \in DOMAIN @ |-> @[i] /\ ~(i <= ba.numBufs /\ ba.pkts[i] = pkt)]]

MarkSendPkt(ba, idx) == [ba EXCEPT !.sendMask[idx] = TRUE]

-----------------------------------------------------------------------------

\* The capacity a full array grows to.
GrownSlots(ba) == ba.numSlots * 2

\* Faulty variant for the checks: the new mask bits are born TRUE.
Grow_MarkSlack(ba) ==
    [ pkts     |-> [i \in 1..GrownSlots(ba) |->
                        IF i <= ba.numSlots THEN ba.pkts[i] ELSE Garbage],
      sendMask |-> [i \in 1..GrownSlots(ba) |->
                        IF i <= ba.numSlots THEN ba.sendMask[i] ELSE TRUE],
      numBufs  |-> ba.numBufs,
      numSlots |-> GrownSlots(ba),
      fromLua  |-> FALSE ]

\* Faulty variant for the checks: the mask of the new array is filled anew.
Grow_MaskFresh(ba) ==
    [ pkts     |-> [i \in 1..GrownSlots(ba) |->
                        IF i <= ba.numSlots THEN ba.pkts[i] ELSE Garbage],
      sendMask |-> [i \in 1..GrownSlots(ba) |-> i <= ba.numBufs],
      numBufs  |-> ba.numBufs,
      numSlots |-> GrownSlots(ba),
      fromLua  |-> FALSE ]

\* The growing branch of addPkt: a new malloc'ed array takes over the
\* pointers, and vector<bool>::resize fills the new mask bits with false.
Grow(ba) ==
    [ pkts     |-> [i \in 1..GrownSlots(ba) |->
                        IF i <= ba.numSlots THEN ba.pkts[i] ELSE Garbage],
      sendMask |-> [i \in 1..GrownSlots(ba) |->
                        IF i <= ba.numSlots THEN ba.sendMask[i] ELSE FALSE],
      numBufs  |-> ba.numBufs,
      numSlots |-> GrownSlots(ba),
      fromLua  |-> FALSE ]

\* Faulty variant for the checks: the comparison is off by one.
NeedsGrowth_Late(ba) == ba.numBufs > ba.numSlots

NeedsGrowth(ba) == ba.numBufs = ba.numSlots

AddPkt(ba, pkt) ==
    LET room == IF NeedsGrowth(ba) THEN Grow(ba) ELSE ba
        next == ba.numBufs + 1
    IN  [room EXCEPT !.sendMask[next] = TRUE,
                     !.pkts[next]     = pkt,
                     !.numBufs        = next]

-----------------------------------------------------------------------------

\* How many of the first n bits are b.
Rank(mask, b, n) == Cardinality({i \in 1..n : mask[i] = b})

\* Where the scan of getSendBufs or getFreeBufs copies its k-th packet: at a slot
\* whose bit is b, the k-th of them.
SlotMarked(mask, b, k) ==
    CHOOSE i \in DOMAIN mask : mask[i] = b /\ Rank(mask, b, i) = k

\* Counts over the whole mask, slots above numBufs included.
GetSendCount(ba) == Cardinality({i \in DOMAIN ba.sendMask : ba.sendMask[i]})

GetFreeCount(ba) == ba.numBufs - GetSendCount(ba)

GetTotalCount(ba) == ba.numBufs

\* Faulty variant for the checks: the free list is scanned from the last slot.
GetFreeBufs_FromEnd(ba) ==
    LET unmarked == Cardinality({i \in DOMAIN ba.sendMask : ~ba.sendMask[i]})
    IN  [k \in 1..GetFreeCount(ba) |->
            ba.pkts[SlotMarked(ba.sendMask, FALSE, unmarked + 1 - k)]]

\* Both loops stop once they copied the number of packets the counter said.
GetSendBufs(ba) ==
    [k \in 1..GetSendCount(ba) |-> ba.pkts[SlotMarked(ba.sendMask, TRUE, k)]]

GetFreeBufs(ba) ==
    [k \in 1..GetFreeCount(ba) |-> ba.pkts[SlotMarked(ba.sendMask, FALSE, k)]]

=============================================================================
