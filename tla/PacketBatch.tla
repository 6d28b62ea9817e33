---------------------------- MODULE PacketBatch -----------------------------
(***************************************************************************)
(* The life of one BufArray as the C interface uses it: X_process builds   *)
(* it around the packets Lua received, the state machine marks packets and *)
(* adds packets, X_process reports the counts, X_getPkts hands out the     *)
(* packets to transmit and the packets to free, and deletes the array.     *)
(*                                                                         *)
(* Every packet must leave the batch exactly once: a packet in neither     *)
(* list is an mbuf lost to its pool, one in both is freed while the NIC    *)
(* still reads it.                                                         *)
(***************************************************************************)
EXTENDS BufArray

CONSTANTS
    Packets,      \* the mbufs of the pool
    Arrays,       \* addresses the pointer array can have
    LuaArray,     \* the address of the array Lua owns
    MaxInput      \* bound: packets received in one batch

ASSUME BatchAssumption ==
    /\ Garbage \notin Packets
    /\ LuaArray \notin Arrays
    /\ MaxInput \in Nat \ {0}

VARIABLES
    ba,           \* the BufArray, NoBatch outside of a batch
    phase,        \* "idle", "open" or "collected"
    array,        \* address of ba.pkts
    mallocd,      \* addresses malloc returned and nobody freed
    entered,      \* history: the packets of the batch in order of entry
    fate,         \* history: for each of them, TRUE iff last marked send
    sendBufs,     \* what X_getPkts wrote for transmission
    freeBufs      \* what X_getPkts wrote to be freed

vars == <<ba, phase, array, mallocd, entered, fate, sendBufs, freeBufs>>

NoBatch == [pkts |-> <<>>, sendMask |-> <<>>, numBufs |-> 0, numSlots |-> 0,
            fromLua |-> FALSE]

Init ==
    /\ ba = NoBatch
    /\ phase = "idle"
    /\ array = LuaArray
    /\ mallocd = {}
    /\ entered = <<>>
    /\ fate = <<>>
    /\ sendBufs = <<>>
    /\ freeBufs = <<>>

Inputs == {s \in UNION {[1..n -> Packets] : n \in 1..MaxInput} :
               \A i, j \in DOMAIN s : i # j => s[i] # s[j]}

\* new BufArray<mbuf>(inPkts, inCount, true), or over a malloc'ed array as
\* the pcap backend and the tests do.
Open(ps, lua) ==
    /\ phase = "idle"
    /\ ba' = New(ps, lua)
    /\ phase' = "open"
    /\ IF lua
       THEN array' = LuaArray /\ UNCHANGED mallocd
       ELSE \E a \in Arrays \ mallocd :
                array' = a /\ mallocd' = mallocd \cup {a}
    /\ entered' = ps
    /\ fate' = [i \in 1..Len(ps) |-> TRUE]
    /\ UNCHANGED <<sendBufs, freeBufs>>

Drop(i) ==
    /\ phase = "open" /\ InRange(ba, i)
    /\ ba' = MarkDropPkt(ba, i)
    /\ fate' = [fate EXCEPT ![i] = FALSE]
    /\ UNCHANGED <<phase, array, mallocd, entered, sendBufs, freeBufs>>

DropPtr(p) ==
    /\ phase = "open"
    /\ ba' = MarkDropPktPtr(ba, p)
    /\ fate' = [i \in DOMAIN fate |-> fate[i] /\ entered[i] # p]
    /\ UNCHANGED <<phase, array, mallocd, entered, sendBufs, freeBufs>>

Send(i) ==
    /\ phase = "open" /\ InRange(ba, i)
    /\ ba' = MarkSendPkt(ba, i)
    /\ fate' = [fate EXCEPT ![i] = TRUE]
    /\ UNCHANGED <<phase, array, mallocd, entered, sendBufs, freeBufs>>

\* Faulty variant for the checks: growing forgets to free the old array.
Reallocate_Leak ==
    \E a \in Arrays \ mallocd :
        /\ array' = a
        /\ mallocd' = mallocd \cup {a}

\* The old array is freed when it was malloc'ed, left to Lua otherwise.
Reallocate ==
    \E a \in Arrays \ mallocd :
        /\ array' = a
        /\ mallocd' = (mallocd \cup {a}) \ (IF ba.fromLua THEN {} ELSE {array})

\* FunIface::getPkt(): a packet from the pool joins the batch.
Add(p) ==
    /\ phase = "open"
    /\ \A i \in DOMAIN entered : entered[i] # p
    /\ ba' = AddPkt(ba, p)
    /\ IF NeedsGrowth(ba) THEN Reallocate ELSE UNCHANGED <<array, mallocd>>
    /\ entered' = Append(entered, p)
    /\ fate' = Append(fate, TRUE)
    /\ UNCHANGED <<phase, sendBufs, freeBufs>>

\* X_getPkts: copy both lists out, then delete the BufArray.
Collect ==
    /\ phase = "open"
    /\ sendBufs' = GetSendBufs(ba)
    /\ freeBufs' = GetFreeBufs(ba)
    /\ mallocd' = IF ba.fromLua THEN mallocd ELSE mallocd \ {array}
    /\ ba' = NoBatch
    /\ phase' = "collected"
    /\ UNCHANGED <<array, entered, fate>>

\* The caller transmits sendBufs, frees freeBufs and takes the next batch.
Release ==
    /\ phase = "collected"
    /\ phase' = "idle"
    /\ sendBufs' = <<>> /\ freeBufs' = <<>>
    /\ entered' = <<>> /\ fate' = <<>>
    /\ array' = LuaArray
    /\ UNCHANGED <<ba, mallocd>>

Next ==
    \/ \E ps \in Inputs, lua \in BOOLEAN : Open(ps, lua)
    \/ \E i \in DOMAIN entered : Drop(i) \/ Send(i)
    \/ \E p \in Packets : DropPtr(p) \/ Add(p)
    \/ Collect
    \/ Release

Spec == Init /\ [][Next]_vars

-----------------------------------------------------------------------------

\* The types of the members of BufArray: there are never more packets than slots,
\* the mask has one bit per slot, and the array is one the program has.
TypeOK ==
    /\ phase \in {"idle", "open", "collected"}
    /\ ba.numBufs \in Nat /\ ba.numSlots \in Nat /\ ba.fromLua \in BOOLEAN
    /\ ba.numBufs <= ba.numSlots
    /\ DOMAIN ba.pkts = 1..ba.numSlots
    /\ ba.sendMask \in [1..ba.numSlots -> BOOLEAN]
    /\ array \in Arrays \cup {LuaArray}
    /\ mallocd \subseteq Arrays
    /\ DOMAIN fate = DOMAIN entered

\* How many packets of the batch have fate b.
Count(b) == Rank(fate, b, Len(entered))

\* bufs lists the packets of the batch with fate b, in order of entry: each is
\* behind all those with the same fate that entered before it.
Lists(bufs, b) ==
    /\ Len(bufs) = Count(b)
    /\ \A i \in DOMAIN entered : fate[i] = b => bufs[Rank(fate, b, i)] = entered[i]

\* getSendBufs and getFreeBufs together return every packet of the batch once:
\* the ones last marked send in the first list, the others in the second, both
\* in order of arrival, whatever growth happened in between (the count that
\* ends both loops runs over unused slots too).
CollectedExactly ==
    phase = "collected" => Lists(sendBufs, TRUE) /\ Lists(freeBufs, FALSE)

\* The counts X_process reports are those of the marks, so the Lua side makes
\* its arrays large enough for what getPkts writes, and free + send = total.
CountsMatchMarks ==
    phase = "open" =>
        /\ GetSendCount(ba) = Count(TRUE)
        /\ GetFreeCount(ba) = Count(FALSE)

\* The pointer arrays addPkt mallocs are neither leaked nor freed twice: the one
\* in use is live exactly while a batch owns it, and no other is.
ArrayMemory ==
    mallocd = IF phase = "open" /\ ~ba.fromLua THEN {array} ELSE {}

=============================================================================
