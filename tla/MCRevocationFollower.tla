------------------------ MODULE MCRevocationFollower ------------------------
(* Instances of RevocationFollower for TLC. *)
EXTENDS RevocationFollower, TLC

ComputerAndPhone == [i \in Ids |-> IF i = 1 THEN NoId ELSE 1]
SocketSymmetry == Permutations(Sockets)
==============================================================================
