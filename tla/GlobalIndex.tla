---------------------------- MODULE GlobalIndex -----------------------------
(***************************************************************************)
(* The requester-side index over the inventories of all owners (orbitkv-   *)
(* catalog/src/index.rs): one installed view per owner, hidden staging     *)
(* views, the lookup table, byte accounting and coverage counts.  Every    *)
(* definition that changes a variable is one method of GlobalIndex, run    *)
(* under its lock.                                                         *)
(*                                                                         *)
(* Abstracted data: a session, the snapshot it carries and the view it     *)
(* installs share one fresh identity; key entries all weigh EntryBytes.    *)
(* Clocks, lock timing and the status-only generation are left out.        *)
(***************************************************************************)
EXTENDS ResidencyInventory

CONSTANTS
    OwnerBytes,   \* OWNER_ACCOUNTING_BYTES
    EntryBytes,   \* entry_bytes
    ByteLimits,   \* the possible values of byte_limit of the index
    ReplicaLimits \* the possible values of DISCOVERY_MAX_REPLICAS_PER_MEDIUM

ASSUME IndexAssumption ==
    /\ OwnerBytes \in Nat /\ EntryBytes \in Nat /\ ByteLimits \subseteq Nat
    /\ ReplicaLimits \subseteq Nat \ {0}

VARIABLES
    view,          \* view[o]: the OwnerView, with id 0 when there is none
    staging,       \* staging[o]: the StagingView, with id 0 when there is none
    blocks,        \* the lookup table: one entry per owner and residence
    expected,      \* owners of the current membership
    revision,      \* membership_revision, 0 when there is none
    activeBytes, stagingBytes, accountedBytes,
    admittedViews, freshViews,
    byteLimit      \* byte_limit of the index

indexVars == <<view, staging, blocks, expected, revision, activeBytes, stagingBytes,
               accountedBytes, admittedViews, freshViews, byteLimit>>

NoView == [id |-> 0, applied |-> 0, rows |-> NoRows, fresh |-> FALSE, retired |-> FALSE]
NoStaging ==
    [id |-> 0, start |-> 0, replayed |-> 0, nextPage |-> 0, replaying |-> FALSE,
     last |-> 0, maxSeq |-> 0, rows |-> NoRows, bytes |-> 0]

IndexInit ==
    /\ view = [o \in Owners |-> NoView]
    /\ staging = [o \in Owners |-> NoStaging]
    /\ blocks = {}
    /\ expected = {}
    /\ revision = 0
    /\ activeBytes = 0 /\ stagingBytes = 0 /\ accountedBytes = 0
    /\ admittedViews = 0 /\ freshViews = 0 /\ byteLimit \in ByteLimits

-----------------------------------------------------------------------------
(* Helpers.                                                                *)

Installed(o) == view[o].id # 0
Admitted(o) == Installed(o) /\ ~view[o].retired
Staged(o) == staging[o].id # 0
CountsAsFresh(o) == Admitted(o) /\ view[o].fresh /\ o \in expected

Held(rows) == {k \in Residences : rows[k] # 0}
RowBytes(rows) == EntryBytes * Cardinality(Held(rows))

\* apply_records: a record that is older than the row it meets changes nothing.
ApplyRecords(rows, records) ==
    [k \in Residences |->
        IF k \notin DOMAIN records \/ rows[k] > records[k].seq THEN rows[k]
        ELSE IF records[k].present THEN records[k].seq ELSE 0]

\* The byte balance of validate_delta.
DeltaBytes(rows, records) ==
    LET added == {k \in DOMAIN records : rows[k] = 0 /\ records[k].present}
        removed == {k \in DOMAIN records :
                       rows[k] # 0 /\ rows[k] <= records[k].seq /\ ~records[k].present}
    IN EntryBytes * (Cardinality(added) - Cardinality(removed))

EntriesOf(o, rows) == {[owner |-> o, key |-> k, seq |-> rows[k]] : k \in Held(rows)}
WithoutEntries(o, keys) == {e \in blocks : ~(e.owner = o /\ e.key \in keys)}

One(b) == IF b THEN 1 ELSE 0

\* A fresh view that counted for coverage is uncounted.
MakeStale(o) ==
    /\ view' = [view EXCEPT ![o].fresh = FALSE]
    /\ freshViews' = freshViews - One(CountsAsFresh(o))

MakeFresh(o, applied, rows) ==
    /\ view' = [view EXCEPT ![o].fresh = TRUE, ![o].applied = applied, ![o].rows = rows]
    /\ freshViews' = freshViews + One(~view[o].fresh /\ o \in expected)

\* Mutant: the bytes of the dropped view stay accounted.
DropStagingOnly(o) ==
    /\ staging' = [staging EXCEPT ![o] = NoStaging]
    /\ UNCHANGED <<stagingBytes, accountedBytes, byteLimit>>
DropStaging(o) ==
    /\ staging' = [staging EXCEPT ![o] = NoStaging]
    /\ stagingBytes' = stagingBytes - staging[o].bytes
    /\ accountedBytes' = accountedBytes - staging[o].bytes

ChargeStaging(bytes) ==
    /\ stagingBytes' = stagingBytes + bytes
    /\ accountedBytes' = accountedBytes + bytes

-----------------------------------------------------------------------------
(* Membership and freshness.                                               *)

\* set_expected_owners: everybody else is retired and loses its staging view; a membership older
\* than the installed one changes nothing.
\* Mutant: the views of former members stay admitted.
ExpectOnly(at, members) ==
    /\ expected' = members
    /\ revision' = at
    /\ freshViews' = Cardinality({o \in members : Admitted(o) /\ view[o].fresh})
    /\ UNCHANGED <<view, staging, blocks, activeBytes, stagingBytes, accountedBytes, admittedViews, byteLimit>>
SetExpectedOwners(at, members) ==
    IF at < revision THEN UNCHANGED indexVars
    ELSE /\ expected' = members
         /\ revision' = at
         /\ view' = [o \in Owners |->
                        IF o \in members \/ ~Installed(o) THEN view[o]
                        ELSE [view[o] EXCEPT !.retired = TRUE, !.fresh = FALSE]]
         /\ staging' = [o \in Owners |-> IF o \in members THEN staging[o] ELSE NoStaging]
         /\ ChargeStaging(- MapThenSumSet(LAMBDA o : staging[o].bytes, Owners \ members))
         /\ admittedViews' = Cardinality({o \in members : Admitted(o)})
         /\ freshViews' = Cardinality({o \in members : Admitted(o) /\ view[o].fresh})
         /\ UNCHANGED <<blocks, activeBytes, byteLimit>>

\* retire_owner: no lookup offers the view any more; its rows are removed later, in batches.
RetireOwner(o) ==
    /\ DropStaging(o)
    /\ admittedViews' = admittedViews - One(Admitted(o))
    /\ freshViews' = freshViews - One(CountsAsFresh(o))
    /\ view' = IF Installed(o) THEN [view EXCEPT ![o].retired = TRUE, ![o].fresh = FALSE] ELSE view
    /\ UNCHANGED <<blocks, expected, revision, activeBytes, byteLimit>>

\* cleanup_owner: up to limit rows, and the view with the last of them.
CleanupOwner(o, limit) ==
    LET rows == view[o].rows
        batch == {k \in Held(rows) : Cardinality({i \in Held(rows) : i <= k}) <= limit}
        done == batch = Held(rows)
        freed == EntryBytes * Cardinality(batch) + (IF done THEN OwnerBytes ELSE 0)
    IN /\ view[o].retired
       /\ blocks' = WithoutEntries(o, batch)
       /\ view' = [view EXCEPT ![o] =
                      IF done THEN NoView
                      ELSE [@ EXCEPT !.rows = [k \in Residences |-> IF k \in batch THEN 0 ELSE rows[k]]]]
       /\ activeBytes' = activeBytes - freed
       /\ accountedBytes' = accountedBytes - freed
       /\ UNCHANGED <<staging, expected, revision, stagingBytes, admittedViews, freshViews, byteLimit>>

\* confirm_progress: the source had nothing newer when it sent this watermark.
ConfirmProgress(o, applied) ==
    /\ Admitted(o) /\ view[o].applied = applied
    /\ MakeFresh(o, applied, view[o].rows)
    /\ UNCHANGED <<staging, blocks, expected, revision, activeBytes, stagingBytes,
                   accountedBytes, admittedViews, byteLimit>>

\* abort_snapshot of a session, then mark_stale.
AbortSnapshot(o, id) ==
    /\ IF staging[o].id = id THEN DropStaging(o)
       ELSE UNCHANGED <<staging, stagingBytes, accountedBytes, byteLimit>>
    /\ MakeStale(o)
    /\ UNCHANGED <<blocks, expected, revision, activeBytes, admittedViews, byteLimit>>

-----------------------------------------------------------------------------
(* Snapshots.                                                              *)

\* begin_snapshot, and mark_syncing after it; an earlier staging view is discarded.
SnapshotFits(o) == accountedBytes - staging[o].bytes + OwnerBytes <= byteLimit
BeginSnapshot(o, id, start) ==
    /\ o \in expected /\ SnapshotFits(o)
    /\ staging' = [staging EXCEPT ![o] = [NoStaging EXCEPT !.id = id, !.start = start,
                                                          !.replayed = start, !.bytes = OwnerBytes]]
    /\ ChargeStaging(OwnerBytes - staging[o].bytes)
    /\ MakeStale(o)
    /\ UNCHANGED <<blocks, expected, revision, activeBytes, admittedViews, byteLimit>>

\* apply_snapshot_page: pages are contiguous, sorted, and over before the replay begins.
PageFits(records) == accountedBytes + EntryBytes * Cardinality(DOMAIN records) <= byteLimit
PageInOrder(o, id, page, records) ==
    /\ staging[o].id = id /\ ~staging[o].replaying /\ staging[o].nextPage = page
    /\ \A k \in DOMAIN records : k > staging[o].last
ApplySnapshotPage(o, id, page, records) ==
    LET bytes == EntryBytes * Cardinality(DOMAIN records)
    IN /\ PageInOrder(o, id, page, records) /\ PageFits(records)
       /\ staging' = [staging EXCEPT ![o] =
             [@ EXCEPT !.rows = ApplyRecords(@, records), !.nextPage = page + 1,
                       !.last = Max(DOMAIN records), !.bytes = @ + bytes,
                       !.maxSeq = Max({@} \cup {records[k].seq : k \in DOMAIN records})]]
       /\ ChargeStaging(bytes)
       /\ UNCHANGED <<view, blocks, expected, revision, activeBytes, admittedViews, freshViews, byteLimit>>

\* apply_snapshot_delta: the replay is contiguous.
ReplayFits(o, records) == accountedBytes + DeltaBytes(staging[o].rows, records) <= byteLimit
ApplySnapshotDelta(o, id, from, through, records) ==
    LET bytes == DeltaBytes(staging[o].rows, records)
    IN /\ staging[o].id = id /\ staging[o].replayed = from /\ from < through
       /\ ReplayFits(o, records)
       /\ staging' = [staging EXCEPT ![o] =
             [@ EXCEPT !.rows = ApplyRecords(@, records), !.replayed = through,
                       !.replaying = TRUE, !.bytes = @ + bytes]]
       /\ ChargeStaging(bytes)
       /\ UNCHANGED <<view, blocks, expected, revision, activeBytes, admittedViews, freshViews, byteLimit>>

\* What commit_snapshot demands of the staging view.
SnapshotComplete(o, id, through, pages) ==
    /\ staging[o].id = id
    /\ staging[o].replayed = through /\ staging[o].nextPage = pages
    /\ staging[o].start <= through /\ staging[o].maxSeq <= through

\* commit_snapshot: the staging view replaces the installed one in one step.
CommitSnapshot(o, id, through, pages) ==
    LET previous == IF Installed(o) THEN OwnerBytes + RowBytes(view[o].rows) ELSE 0
    IN /\ SnapshotComplete(o, id, through, pages) /\ o \in expected
       /\ staging' = [staging EXCEPT ![o] = NoStaging]
       /\ view' = [view EXCEPT ![o] = [id |-> id, applied |-> through, rows |-> staging[o].rows,
                                       fresh |-> TRUE, retired |-> FALSE]]
       /\ blocks' = WithoutEntries(o, Held(view[o].rows)) \cup EntriesOf(o, staging[o].rows)
       /\ stagingBytes' = stagingBytes - staging[o].bytes
       /\ activeBytes' = activeBytes - previous + staging[o].bytes
       /\ accountedBytes' = accountedBytes - previous
       /\ admittedViews' = admittedViews + 1 - One(Admitted(o))
       /\ freshViews' = freshViews + 1 - One(CountsAsFresh(o))
       /\ UNCHANGED <<expected, revision, byteLimit>>

-----------------------------------------------------------------------------
(* Deltas of the installed view.                                           *)

DeltaFits(o, records) == accountedBytes + DeltaBytes(view[o].rows, records) <= byteLimit
Duplicate(o, through) == through <= view[o].applied

\* apply_delta: rows, lookup entries and watermark move together; a duplicate is ignored, and
\* an interval that overlaps the watermark or leaves a gap behind it is refused.
EntriesReplaced(o, records) ==
    WithoutEntries(o, DOMAIN records)
        \cup {[owner |-> o, key |-> k, seq |-> records[k].seq] :
                 k \in {i \in DOMAIN records : records[i].present}}
ApplyDelta(o, from, through, records) ==
    /\ Admitted(o)
    /\ IF Duplicate(o, through) THEN UNCHANGED indexVars
       ELSE /\ from = view[o].applied /\ DeltaFits(o, records)
            /\ blocks' = EntriesReplaced(o, records)
            /\ MakeFresh(o, through, ApplyRecords(view[o].rows, records))
            /\ activeBytes' = activeBytes + DeltaBytes(view[o].rows, records)
            /\ accountedBytes' = accountedBytes + DeltaBytes(view[o].rows, records)
            /\ UNCHANGED <<staging, expected, revision, stagingBytes, admittedViews, byteLimit>>

-----------------------------------------------------------------------------
(* Reads.                                                                  *)

\* coverage, with the requester's own registration valid or not.
Coverage(registered) ==
    IF ~registered \/ revision = 0 THEN "unavailable"
    ELSE IF freshViews = Cardinality(expected) THEN "complete"
    ELSE IF admittedViews > 0 THEN "partial" ELSE "unavailable"

\* lookup of one residence: the admitted owners of its entries that membership still resolves, up
\* to a limit.  The order in which the entries were pushed decides which ones, and is left open:
\* the operator gives the set of possible answers.
Resolvable(k, members) == {e \in blocks : e.key = k /\ e.owner \in members /\ ~view[e.owner].retired}
AtMost(S, limit) == kSubset(Min({limit, Cardinality(S)}), S)
\* Mutant: the limit counts the entries that are skipped, too.
LookupCountsSkipped(k, members, limit) ==
    IF k \notin Scope \/ Coverage(members # {}) = "unavailable" THEN {{}}
    ELSE {S \cap Resolvable(k, members) : S \in AtMost({e \in blocks : e.key = k}, limit)}
Lookup(k, members, limit) ==
    IF k \notin Scope \/ Coverage(members # {}) = "unavailable" THEN {{}}
    ELSE AtMost(Resolvable(k, members), limit)

IndexTypeOK ==
    /\ view \in [Owners -> [id : Nat, applied : SequenceNumbers, rows : Rows,
                            fresh : BOOLEAN, retired : BOOLEAN]]
    /\ staging \in [Owners -> [id : Nat, start : SequenceNumbers, replayed : SequenceNumbers,
                               nextPage : Nat, replaying : BOOLEAN, last : Nat,
                               maxSeq : SequenceNumbers, rows : Rows, bytes : Int]]
    /\ blocks \subseteq [owner : Owners, key : Residences, seq : SequenceNumbers]
    /\ expected \subseteq Owners
    /\ revision \in Nat
    /\ {activeBytes, stagingBytes, accountedBytes, admittedViews, freshViews} \subseteq Int
=============================================================================
