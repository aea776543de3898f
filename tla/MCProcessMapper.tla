-------------------------- MODULE MCProcessMapper --------------------------
(* An instance of ProcessMapper for TLC.  Sockets and names of programs    *)
(* are interchangeable; processes and descriptors are not, having an order.*)
EXTENDS ProcessMapper, TLC

TwoAndOne == {<<1, 1>>, <<1, 2>>, <<2, 1>>}
Alike == Permutations(Inodes) \cup Permutations(Names)
=============================================================================
