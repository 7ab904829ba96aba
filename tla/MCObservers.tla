---------------------------- MODULE MCObservers ----------------------------
(* Instances of Observers for TLC. *)
EXTENDS Observers

CONSTANTS alice, c1, uniform, s1, w1, w2, r1, o1

OneUser == [c \in Clients |-> alice]

AllUniform == [w \in Workers |-> uniform]

=============================================================================
