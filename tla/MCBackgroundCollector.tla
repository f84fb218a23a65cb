----------------------- MODULE MCBackgroundCollector -----------------------
(* Instances of BackgroundCollector for TLC.                               *)
EXTENDS BackgroundCollector, TLC

CONSTANTS c1, c2, c3, c4, m1, m2

\* c1 and c2 share the community and so the automatic id; c3 has another
\* community; c4 is stored with no OID.
MCCommunityOf == [c \in Configs |-> IF c = c3 THEN m2 ELSE m1]
MCCollectable == Configs \ {c4}

Symmetry == Permutations(Tasks) \cup Permutations(Handlers)
=============================================================================
