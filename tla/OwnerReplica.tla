---------------------------- MODULE OwnerReplica ----------------------------
(***************************************************************************)
(* What inventory replication promises its readers.  For each owner of the *)
(* current membership there is at most one copy, which stands for a prefix *)
(* of the owner's changes; it moves forward, is dropped, and comes back no *)
(* earlier than a bootstrap started.  Nobody else has a copy.              *)
(***************************************************************************)
EXTENDS Integers

CONSTANT Owners

VARIABLES
    head,      \* changes made by each owner
    position,  \* changes covered by the copy, NoCopy when there is none
    expected   \* owners of the current membership

replicaVars == <<head, position, expected>>

NoCopy == -1

Init ==
    /\ head = [o \in Owners |-> 0]
    /\ position = [o \in Owners |-> NoCopy]
    /\ expected = {}

Change(o) ==
    /\ head' = [head EXCEPT ![o] = @ + 1]
    /\ UNCHANGED <<position, expected>>

\* The copy is installed, or moves forward.
Cover(o) ==
    /\ o \in expected
    /\ position'[o] > position[o] /\ position'[o] <= head[o]
    /\ position' = [position EXCEPT ![o] = position'[o]]
    /\ UNCHANGED <<head, expected>>

Drop(o) ==
    /\ position' = [position EXCEPT ![o] = NoCopy]
    /\ UNCHANGED <<head, expected>>

\* Owners that leave lose their copies in the same step.
SetExpected ==
    /\ position' = [o \in Owners |-> IF o \in expected' THEN position[o] ELSE NoCopy]
    /\ UNCHANGED head

Next == SetExpected \/ \E o \in Owners : Change(o) \/ Cover(o) \/ Drop(o)

Spec == Init /\ [][Next]_replicaVars
=============================================================================
