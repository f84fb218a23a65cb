-------------------------- MODULE MCCollectorFeed --------------------------
(* Instances of CollectorFeed for TLC: one config, which is collectable.   *)
EXTENDS CollectorFeed, TLC

CONSTANT m1

MCCommunityOf == [c \in Configs |-> m1]
Symmetry == Permutations(Tasks) \cup Permutations(Handlers)
=============================================================================
