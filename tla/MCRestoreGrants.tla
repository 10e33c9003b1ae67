-------------------------- MODULE MCRestoreGrants --------------------------
(* Two records and three operations: one of up to two parts, one of one part *)
(* and one the Manager runs itself.  All three beside a reaper that may fail, *)
(* two of them beside every other fault, and two under fair scheduling beside *)
(* an engine that may exit.                                                  *)
EXTENDS RestoreGrants

MCMaxParts == [id \in 1 .. MaxOps |-> IF id = 1 THEN 2 ELSE 1]
MCManaging == {id \in 1 .. MaxOps : id = 3}
MCScopes == {
  [first |-> 1, last |-> 3, meta |-> 3, live |-> FALSE, faults |-> {"reaper"}],
  [first |-> 1, last |-> 2, meta |-> 3, live |-> FALSE, faults |-> {"engine", "reaper"}],
  [first |-> 2, last |-> 3, meta |-> 3, live |-> FALSE, faults |-> {"drop", "manager", "outcome"}],
  [first |-> 1, last |-> 2, meta |-> 4, live |-> TRUE, faults |-> {"engine"}]}
=============================================================================
