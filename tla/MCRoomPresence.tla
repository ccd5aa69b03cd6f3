--------------------------- MODULE MCRoomPresence ---------------------------
(* Instances of RoomPresence for TLC. *)
EXTENDS RoomPresence, TLC

CONSTANTS k1, k2, a1, a2, b1, A, B

TwoPhones == [l \in Links |-> IF l = b1 THEN B ELSE A]
SocketSymmetry == Permutations(Desktops) \cup Permutations({a1, a2})
=============================================================================
