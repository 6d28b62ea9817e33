------------------------- MODULE ConnectionOwnership ------------------------
(***************************************************************************)
(* What the ConnectionPool promises ("open a connection on one core, and   *)
(* receive subsequent packets on another"), said without tables, pools or  *)
(* packets: a connection object is with nobody, with one thread, or in the *)
(* pool.  A thread gets an object by making it or by claiming it from the  *)
(* pool, and only the thread that has it gives it up or closes it.         *)
(***************************************************************************)
CONSTANTS Threads, Objects, Pool, Nobody

VARIABLE owner

Init == owner = [d \in Objects |-> Nobody]

Pass(d, from, to) == owner[d] = from /\ owner' = [owner EXCEPT ![d] = to]

Create(d, m) == Pass(d, Nobody, m)

\* A state that is added without running its function.
CreateShared(d) == Pass(d, Nobody, Pool)

Publish(d, m) == Pass(d, m, Pool)

Claim(d, m) == Pass(d, Pool, m)

Close(d, m) == Pass(d, m, Nobody)

\* Claimed by the packet that ends the connection.
ClaimAndClose(d) == Pass(d, Pool, Nobody)

Next ==
    \E d \in Objects :
        \/ \E m \in Threads : Create(d, m) \/ Publish(d, m) \/ Claim(d, m) \/ Close(d, m)
        \/ CreateShared(d)
        \/ ClaimAndClose(d)

Spec == Init /\ [][Next]_owner

=============================================================================
