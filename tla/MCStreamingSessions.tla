------------------------ MODULE MCStreamingSessions ------------------------
(***************************************************************************)
(* StreamingSessions for TLC, partitioned by a column of floats.           *)
(***************************************************************************)
EXTENDS StreamingSessions, TLC

CONSTANT Floats

FloatPartitionings == {[types |-> <<"float64">>, keys |-> {<<k>> : k \in Floats \cup {Null}}]}

Symmetry == Permutations(Processes)
=============================================================================
