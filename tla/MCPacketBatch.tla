--------------------------- MODULE MCPacketBatch ----------------------------
(***************************************************************************)
(* A pool of five packets and batches of one or two: the array of one      *)
(* packet grows three times, and every mix of marks meets every growth.    *)
(***************************************************************************)
EXTENDS PacketBatch, TLC

CONSTANTS p1, p2, p3, p4, p5, a1, a2

MCPackets == {p1, p2, p3, p4, p5}
MCArrays == {a1, a2}
Symmetry == Permutations(MCPackets)

=============================================================================
