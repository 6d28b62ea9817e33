--------------------------- MODULE MCStateMachine ---------------------------
(***************************************************************************)
(* The instances TLC checks.  Each run picks the calls its state functions *)
(* make from the sets below.                                               *)
(***************************************************************************)
EXTENDS StateMachine, TLC

CONSTANTS m1, m2, c1, c2, d1, d2, d3, d4

E(next, now_, free, get, delay) ==
    [next |-> next, now |-> now_, free |-> free, get |-> get, delay |-> delay]

\* return without a call; end the connection; go to the second state
Nothing   == E(Stay, FALSE, FALSE, FALSE, NoTimeout)
Finish    == E(End, FALSE, FALSE, FALSE, NoTimeout)
Move      == E("B", FALSE, FALSE, FALSE, NoTimeout)
\* the same with freePkt, as the HelloBye and TCP functions do
FinishFree  == E(End, FALSE, TRUE, FALSE, NoTimeout)
Free      == E(Stay, FALSE, TRUE, FALSE, NoTimeout)
\* an additional packet
More      == E("B", FALSE, FALSE, TRUE, NoTimeout)
\* transitionNow
MoveNow   == E("B", TRUE, FALSE, FALSE, NoTimeout)
MoveFreeNow == E("B", TRUE, TRUE, FALSE, NoTimeout)
FinishNow == E(End, TRUE, FALSE, FALSE, NoTimeout)
Wait(n)   == E(Stay, FALSE, FALSE, FALSE, n)

PlainEffects == {Nothing, FinishFree, Free, More}
PlainOpenEffects == {Move, Finish}
SharingEffects == {Free, FinishFree, MoveFreeNow, More}
NowEndEffects == {Nothing, Finish, MoveNow, FinishNow}
NowOpenEffects == {Nothing, Finish, MoveNow}
WaitEffects == {Nothing, Finish, Wait(1), Wait(2)}
MoveOrWaitEffects == {Finish, Wait(1)}
WaitOpenEffects == {Wait(1)}
NoEffects == {Nothing}
EndEffects == {Nothing, Finish}
RewaitEffects == {Nothing, Wait(1)}
\* a timeout of the state function and one of the function after transitionNow
TwoWaitEffects == {Wait(1), E("B", TRUE, FALSE, FALSE, 2)}

Singles == {<<c>> : c \in Conns \cup {Unidentified}}
Pairs == {<<c, k>> : c \in Conns \cup {Unidentified}, k \in Conns}
OneOrTwo == Singles \cup Pairs

Symmetry == Permutations(Data) \cup Permutations(Conns)

=============================================================================
