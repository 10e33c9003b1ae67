------------------------- MODULE ResidencyInventory -------------------------
(***************************************************************************)
(* The residency inventory of every cache owner (orbitkv-core/src/storage/ *)
(* inventory.rs): an ordered map of resident records and a bounded journal *)
(* of the changes made to it, read by pages and by intervals.              *)
(*                                                                         *)
(* Abstracted data: a residence, the pair (key, medium), is its position   *)
(* in the order of the map; a present record is its sequence number, which *)
(* determines its metadata; all records have the same estimated size, so   *)
(* byte limits are record counts.                                          *)
(***************************************************************************)
EXTENDS Integers, Sequences, FiniteSets, FiniteSetsExt

CONSTANTS
    Owners,          \* incarnations of the remote Cache Managers
    NumResidences,   \* (StateKey, ReplicaMedium) pairs
    Scope,           \* the residences in the subscribed namespaces
    Metadata,        \* values of ReplicaMetadata
    MaxSequence,     \* bound: changes of one inventory
    JournalRecords,  \* byte_limit of the journal
    BatchRecords     \* INVENTORY_BATCH_RECORDS and INVENTORY_BATCH_BYTES

Residences == 1..NumResidences
Absent == "absent"

ASSUME InventoryAssumption ==
    /\ NumResidences \in Nat /\ Scope \subseteq Residences /\ Absent \notin Metadata
    /\ MaxSequence \in Nat /\ JournalRecords \in Nat /\ BatchRecords \in Nat \ {0}

SequenceNumbers == 0..MaxSequence
Rows == [Residences -> SequenceNumbers]
NoRows == [k \in Residences |-> 0]

VARIABLES
    history,    \* history[o][n]: the change with sequence n, whether or not still in the journal
    residents,  \* residents[o][k]: the sequence of the present record of k, 0 when there is none
    oldest      \* sequence of the journal's front record, one past the head when it is empty

inventoryVars == <<history, residents, oldest>>

InventoryInit ==
    /\ history = [o \in Owners |-> <<>>]
    /\ residents = [o \in Owners |-> NoRows]
    /\ oldest = [o \in Owners |-> 1]

HeadOf(o) == Len(history[o])
MetadataOf(o, k) ==
    IF residents[o][k] = 0 THEN Absent ELSE history[o][residents[o][k]].metadata

\* change: a new sequence number, unless nothing changed; the journal drops its oldest records
\* when it is over its limit.
Change(o, k, metadata) ==
    /\ HeadOf(o) < MaxSequence
    /\ metadata # MetadataOf(o, k)
    /\ history' = [history EXCEPT ![o] = Append(@, [key |-> k, metadata |-> metadata])]
    /\ residents' = [residents EXCEPT ![o][k] = IF metadata = Absent THEN 0 ELSE HeadOf(o) + 1]
    /\ oldest' = [oldest EXCEPT ![o] = Max({@, HeadOf(o) + 2 - JournalRecords})]

-----------------------------------------------------------------------------
(* Reads.                                                                  *)

\* scoped_page: the records after the cursor that one batch holds, those of the scope kept.
Page(o, cursor) ==
    LET after == {k \in Residences : k > cursor /\ residents[o][k] # 0}
        scanned == {k \in after : Cardinality({i \in after : i <= k}) <= BatchRecords}
    IN [records  |-> [k \in scanned \cap Scope |-> [seq |-> residents[o][k], present |-> TRUE]],
        next     |-> Max(scanned \cup {0}),
        complete |-> scanned = after]

\* changes fails with HistoryGap unless the journal still holds the interval.
HasHistory(o, after, through) ==
    after <= through /\ through <= HeadOf(o) /\ (after = HeadOf(o) \/ oldest[o] <= after + 1)

\* Sequences of the changes of residence k in the interval (after, through].
ChangesOf(o, k, after, through) ==
    {n \in (after + 1)..through : n \in DOMAIN history[o] /\ history[o][n].key = k}

\* coalesced_changes_scoped: the last change of every residence of the scope in as much of the
\* interval as one batch holds.
Delta(o, after, through) ==
    LET end == Min({through, after + BatchRecords})
        changed == {k \in Scope : ChangesOf(o, k, after, end) # {}}
        last(k) == Max(ChangesOf(o, k, after, end))
    IN [through |-> end,
        records |-> [k \in changed |->
                        [seq |-> last(k), present |-> history[o][last(k)].metadata # Absent]]]

\* What the scope's part of the map was once the first n changes had been made.
RowsAt(o, n) ==
    [k \in Residences |->
        LET changes == ChangesOf(o, k, 0, n)
        IN IF k \in Scope /\ changes # {} /\ history[o][Max(changes)].metadata # Absent
           THEN Max(changes) ELSE 0]

InventoryTypeOK ==
    /\ \A o \in Owners :
         /\ history[o] \in Seq([key : Residences, metadata : Metadata \cup {Absent}])
         /\ HeadOf(o) <= MaxSequence
    /\ residents \in [Owners -> Rows]
    /\ oldest \in [Owners -> 1..(MaxSequence + 1)]
=============================================================================
