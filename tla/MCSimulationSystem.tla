------------------------- MODULE MCSimulationSystem -------------------------
(* Instances of SimulationSystem for TLC. *)
EXTENDS SimulationSystem, TLC

CONSTANTS alice, bob, c1, c2, uniform, poisson, s1, s2, w1, w2, r1, r2

(* Who the clients are logged in as. *)
OneUser == [c \in Clients |-> alice]
EachTheirOwn == [c \in Clients |-> IF c = c1 THEN alice ELSE bob]

(* The profile each worker serves. *)
AllUniform == [w \in Workers |-> uniform]
AllPoisson == [w \in Workers |-> poisson]
OneOfEach == [w \in Workers |-> IF w = w1 THEN uniform ELSE poisson]

(* Interchangeable values, for runs without liveness. *)
SymmetryOfReplicas == Permutations(Runs) \cup Permutations(Workers)
SymmetryOfClients == Permutations(Runs) \cup Permutations(Clients)
SymmetryOfSims == Permutations(Runs) \cup Permutations(Sims)

=============================================================================
