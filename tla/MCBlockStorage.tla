--------------------------- MODULE MCBlockStorage ---------------------------
(* Instances of BlockStorage: two keys on a pool too small for them.    *)
EXTENDS BlockStorage

CONSTANTS k1, k2, q1, q2

MCFootprint == [k \in Keys |-> IF k = k1 THEN 2 ELSE 3]
MCShapes == {
    [slots |-> 1, pool |-> 5, shard |-> 5, jobs |-> 3, live |-> FALSE],
    [slots |-> 2, pool |-> 3, shard |-> 3, jobs |-> 2, live |-> TRUE]}
=============================================================================
