------------------------ MODULE InventoryReplication ------------------------
(***************************************************************************)
(* How one Cache Manager keeps its GlobalIndex in step with the residency  *)
(* inventories of its peers (orbitkv-server/src/cluster/inventory.rs,      *)
(* watch.rs).  Each owner serves one stream: a snapshot taken by pages     *)
(* while the inventory keeps changing, the replay of what changed          *)
(* meanwhile, then deltas and idle progress.  The requester stages,        *)
(* commits and applies them; streams break and are resumed from the        *)
(* installed watermark; membership is suspended, reinstalled and changed   *)
(* under the running followers.                                            *)
(*                                                                         *)
(* Abstracted: a stream delivers its frames in order or breaks, so frame   *)
(* numbers, transcript digests and acknowledged credit are the bound       *)
(* StreamCredit on frames not yet consumed.  Pacing and coalescing delays  *)
(* are nothing but interleaving.                                           *)
(***************************************************************************)
EXTENDS GlobalIndex

CONSTANTS
    StreamCredit,      \* STREAM_CREDIT_BYTES
    SnapshotSessions,  \* SNAPSHOT_SESSIONS, the received_snapshots permits
    RetireBatch,       \* RETIRE_BATCH
    Bounds             \* bounds of a behaviour: [owners, residences: that change,
                       \* sequence: changes of one inventory, bytes: byte_limit,
                       \* sessions: streams opened to one owner, breaks: only so many first
                       \* streams break by themselves, installs: memberships installed,
                       \* live: scheduled fairly]

ASSUME StreamAssumption ==
    /\ StreamCredit \in Nat \ {0} /\ SnapshotSessions \in Nat \ {0} /\ RetireBatch \in Nat \ {0}
    /\ Bounds \subseteq [owners : SUBSET Owners, residences : SUBSET Residences,
                        sequence : SequenceNumbers, bytes : ByteLimits, sessions : Nat,
                        breaks : Nat, installs : Nat, live : BOOLEAN]

VARIABLES
    source,    \* serve_source of the current session of each owner
    stream,    \* frames sent and not yet consumed
    session,   \* receive_frames of the current session
    opened,    \* sessions opened so far: the source of fresh identities
    forced,    \* force_bootstrap
    cleaning,  \* owners with a cleanup task
    worker,    \* the follow_source task of each owner
    members,   \* InventoryRuntime: the membership followed
    permitted, \* MembershipView: the members it resolves, none while suspended
    gone,      \* incarnations that left; they never come back
    installs,  \* memberships read so far
    installing,\* MembershipView has the new membership, InventoryRuntime not yet
    changed,   \* member_changes holds a value follow_members has not seen
    bounds     \* of this behaviour

sourceVars == <<source, stream>>
memberVars == <<worker, members, permitted, gone, installs, installing, changed>>
vars == <<inventoryVars, indexVars, sourceVars, session, opened, forced, cleaning, memberVars,
          bounds>>

NoRecords == [k \in {} |-> 0]
SourceOff == [st |-> "off", after |-> 0, end |-> 0, cursor |-> 0, page |-> 0]
NoSession == [id |-> 0, checked |-> FALSE, snapshot |-> FALSE, failed |-> "no", acked |-> 0]
Frame(kind, from, through, records) ==
    [kind |-> kind, from |-> from, through |-> through, records |-> records]

Init ==
    /\ InventoryInit /\ IndexInit
    /\ bounds \in Bounds /\ byteLimit = bounds.bytes
    /\ source = [o \in Owners |-> SourceOff]
    /\ stream = [o \in Owners |-> <<>>]
    /\ session = [o \in Owners |-> NoSession]
    /\ opened = [o \in Owners |-> 0]
    /\ forced = {}
    /\ cleaning = {}
    /\ worker = [o \in Owners |-> "none"]
    /\ members = {} /\ permitted = {} /\ gone = {}
    /\ installs = 0 /\ installing = FALSE /\ changed = FALSE

-----------------------------------------------------------------------------
(* Source: serve_source and serve_snapshot.                                *)

\* A frame waits for credit.
CanSend(o) == Len(stream[o]) < StreamCredit
Send(o, frame) == stream' = [stream EXCEPT ![o] = Append(@, frame)]

\* What a source step leaves alone.
OnlySource == UNCHANGED <<inventoryVars, indexVars, session, opened, forced, cleaning, memberVars, bounds>>

\* The journal no longer holds what the stream needs next.
SendReset(o) ==
    /\ Send(o, Frame("reset", 0, 0, NoRecords))
    /\ source' = [source EXCEPT ![o] = SourceOff]

\* A resumable watermark continues the stream, if the journal still covers it.
ServeResume(o) ==
    /\ source[o].st = "resume" /\ CanSend(o)
    /\ IF HasHistory(o, source[o].after, HeadOf(o))
       THEN source' = [source EXCEPT ![o].st = "streaming"] /\ UNCHANGED stream
       ELSE SendReset(o)
    /\ OnlySource

\* serve_snapshot captures the sequence the replay will start from.
ServeSnapshot(o) ==
    /\ source[o].st = "bootstrap" /\ CanSend(o)
    /\ Send(o, Frame("begin", 0, HeadOf(o), NoRecords))
    /\ source' = [source EXCEPT ![o].st = "paging", ![o].after = HeadOf(o)]
    /\ OnlySource

\* One page; the inventory may change between any two of them.  An empty page is not sent.
ServePage(o) ==
    LET page == Page(o, source[o].cursor)
        sent == DOMAIN page.records # {}
    IN /\ source[o].st = "paging" /\ CanSend(o)
       /\ IF sent THEN Send(o, Frame("page", source[o].page, 0, page.records)) ELSE UNCHANGED stream
       /\ source' = [source EXCEPT ![o].st = IF page.complete THEN "scanned" ELSE "paging",
                                   ![o].cursor = page.next, ![o].page = @ + One(sent)]
       /\ OnlySource

\* The end of the replay is read after the last page.  Mutant: it is the start of the snapshot.
EndAtStart(o) ==
    /\ source[o].st = "scanned"
    /\ source' = [source EXCEPT ![o].st = "replaying", ![o].end = source[o].after]
    /\ UNCHANGED stream /\ OnlySource
CaptureEnd(o) ==
    /\ source[o].st = "scanned"
    /\ source' = [source EXCEPT ![o].st = "replaying", ![o].end = HeadOf(o)]
    /\ UNCHANGED stream /\ OnlySource

SendDelta(o, through) ==
    LET delta == Delta(o, source[o].after, through)
    IN IF HasHistory(o, source[o].after, through)
       THEN /\ Send(o, Frame("delta", source[o].after, delta.through, delta.records))
            /\ source' = [source EXCEPT ![o].after = delta.through]
       ELSE SendReset(o)

ServeReplay(o) ==
    /\ source[o].st = "replaying" /\ source[o].after < source[o].end /\ CanSend(o)
    /\ SendDelta(o, source[o].end)
    /\ OnlySource

ServeCommit(o) ==
    /\ source[o].st = "replaying" /\ source[o].after = source[o].end /\ CanSend(o)
    /\ Send(o, Frame("commit", source[o].page, source[o].end, NoRecords))
    /\ source' = [source EXCEPT ![o].st = "streaming"]
    /\ OnlySource

ServeDelta(o) ==
    /\ source[o].st = "streaming" /\ source[o].after < HeadOf(o) /\ CanSend(o)
    /\ SendDelta(o, HeadOf(o))
    /\ OnlySource

\* With nothing to send the loop waits for a change or the idle timer; when the timer wins, the
\* head it reports may have moved already.
WaitIdle(o) ==
    /\ source[o].st = "streaming" /\ source[o].after = HeadOf(o)
    /\ source' = [source EXCEPT ![o].st = "idle"]
    /\ UNCHANGED stream /\ OnlySource

WakeUp(o) ==
    /\ source[o].st = "idle" /\ source[o].after < HeadOf(o)
    /\ source' = [source EXCEPT ![o].st = "streaming"]
    /\ UNCHANGED stream /\ OnlySource

ServeProgress(o) ==
    /\ source[o].st = "idle" /\ CanSend(o)
    /\ Send(o, Frame("progress", source[o].after, HeadOf(o), NoRecords))
    /\ source' = [source EXCEPT ![o].st = "streaming"]
    /\ OnlySource

-----------------------------------------------------------------------------
(* Requester: follow_source and receive_frames.                            *)

\* exact_member
Exact(o) == o \in members /\ o \in permitted

\* Membership is checked before the frame is applied, and may change in between.
AwaitsFrame(o) == session[o].id # 0 /\ session[o].failed = "no" /\ stream[o] # <<>>
CheckMember(o) ==
    /\ AwaitsFrame(o) /\ ~session[o].checked
    /\ session' = [session EXCEPT ![o] =
                      IF Exact(o) THEN [@ EXCEPT !.checked = TRUE] ELSE [@ EXCEPT !.failed = "refused"]]
    /\ UNCHANGED <<inventoryVars, indexVars, sourceVars, opened, forced, cleaning, memberVars, bounds>>
Receiving(o, kind) == AwaitsFrame(o) /\ session[o].checked /\ Head(stream[o]).kind = kind

\* follow_source_once: resume from the installed watermark unless a bootstrap is forced.
Open(o) ==
    /\ worker[o] = "running" /\ session[o].id = 0 /\ Exact(o)
    /\ opened[o] < bounds.sessions
    /\ opened' = [opened EXCEPT ![o] = @ + 1]
    /\ session' = [session EXCEPT ![o] = [NoSession EXCEPT !.id = opened[o] + 1]]
    /\ source' = [source EXCEPT ![o] =
                     IF o \notin forced /\ Admitted(o)
                     THEN [SourceOff EXCEPT !.st = "resume", !.after = view[o].applied]
                     ELSE [SourceOff EXCEPT !.st = "bootstrap"]]
    /\ UNCHANGED <<inventoryVars, indexVars, stream, forced, cleaning, memberVars, bounds>>

\* The frame is consumed and acknowledged with the watermark of the view installed now.
Consume(o, snapshot) ==
    /\ stream' = [stream EXCEPT ![o] = Tail(@)]
    /\ session' = [session EXCEPT ![o].snapshot = snapshot, ![o].checked = FALSE,
                                  ![o].acked = IF view'[o].id # 0 /\ ~view'[o].retired
                                               THEN view'[o].applied ELSE 0]
    /\ UNCHANGED <<inventoryVars, source, opened, cleaning, memberVars, bounds>>

\* A snapshot waits for one of the received_snapshots permits.
ReceiveBegin(o) ==
    /\ Receiving(o, "begin")
    /\ Cardinality({p \in Owners : session[p].snapshot /\ session[p].failed = "no"}) < SnapshotSessions
    /\ BeginSnapshot(o, session[o].id, Head(stream[o]).through)
    /\ Consume(o, TRUE)
    /\ UNCHANGED forced

ReceivePage(o) ==
    LET frame == Head(stream[o])
    IN /\ Receiving(o, "page") /\ session[o].snapshot
       /\ ApplySnapshotPage(o, session[o].id, frame.from, frame.records)
       /\ Consume(o, TRUE)
       /\ UNCHANGED forced

\* Until the commit a delta belongs to the snapshot.
ReceiveDelta(o) ==
    LET frame == Head(stream[o])
    IN /\ Receiving(o, "delta")
       /\ IF session[o].snapshot
          THEN ApplySnapshotDelta(o, session[o].id, frame.from, frame.through, frame.records)
          ELSE ApplyDelta(o, frame.from, frame.through, frame.records)
       /\ Consume(o, session[o].snapshot)
       /\ UNCHANGED forced

ReceiveCommit(o) ==
    /\ Receiving(o, "commit") /\ session[o].snapshot /\ o \in permitted
    /\ CommitSnapshot(o, session[o].id, Head(stream[o]).through, Head(stream[o]).from)
    /\ Consume(o, FALSE)
    /\ forced' = forced \ {o}

\* Progress covers an empty interval, and confirms the view if nothing newer exists.
ReceiveProgress(o) ==
    LET frame == Head(stream[o])
        covered == Max({frame.from, view[o].applied})
    IN /\ Receiving(o, "progress") /\ ~session[o].snapshot
       /\ IF Admitted(o) /\ (frame.from > view[o].applied
                                \/ (frame.through = frame.from /\ view[o].applied = frame.from))
          THEN /\ MakeFresh(o, covered, view[o].rows)
               /\ UNCHANGED <<staging, blocks, expected, revision, activeBytes, stagingBytes,
                              accountedBytes, admittedViews, byteLimit>>
          ELSE UNCHANGED indexVars
       /\ Consume(o, FALSE)
       /\ UNCHANGED forced

\* Why the next frame ends the session, "no" if it does not.
FrameError(o) ==
    LET frame == Head(stream[o])
        refused(accepted, fits) == IF ~accepted THEN "refused" ELSE IF fits THEN "no" ELSE "budget"
        records == frame.records
    IN CASE frame.kind = "reset" -> "refused"
         [] frame.kind = "begin" -> refused(o \in expected, SnapshotFits(o))
         [] frame.kind = "page" ->
              refused(session[o].snapshot /\ PageInOrder(o, session[o].id, frame.from, records),
                      PageFits(records))
         [] frame.kind = "delta" /\ session[o].snapshot ->
              refused(staging[o].id = session[o].id /\ staging[o].replayed = frame.from,
                      ReplayFits(o, records))
         [] frame.kind = "delta" /\ ~session[o].snapshot ->
              refused(Admitted(o) /\ (Duplicate(o, frame.through) \/ frame.from = view[o].applied),
                      Duplicate(o, frame.through) \/ DeltaFits(o, records))
         [] frame.kind = "commit" ->
              refused(/\ session[o].snapshot /\ o \in expected /\ o \in permitted
                      /\ SnapshotComplete(o, session[o].id, frame.through, frame.from), TRUE)
         [] OTHER -> refused(~session[o].snapshot, TRUE)

\* The frame is refused, or asks for a new bootstrap; nothing of it is applied.
\* Mutant: the bootstrap is forgotten, and the next session resumes again.
RefuseOnly(o) ==
    /\ AwaitsFrame(o) /\ session[o].checked /\ FrameError(o) # "no"
    /\ session' = [session EXCEPT ![o].failed = FrameError(o)]
    /\ UNCHANGED <<inventoryVars, indexVars, sourceVars, opened, forced, cleaning, memberVars, bounds>>
RefuseFrame(o) ==
    /\ AwaitsFrame(o) /\ session[o].checked /\ FrameError(o) # "no"
    /\ session' = [session EXCEPT ![o].failed = FrameError(o)]
    /\ forced' = IF Head(stream[o]).kind = "reset" THEN forced \cup {o} ELSE forced
    /\ UNCHANGED <<inventoryVars, indexVars, sourceVars, opened, cleaning, memberVars, bounds>>

\* Transport errors and timeouts at either end (bound: the last session stands).
Break(o) ==
    /\ session[o].id # 0 /\ session[o].failed = "no" /\ session[o].id <= bounds.breaks
    /\ session' = [session EXCEPT ![o].failed = "broken"]
    /\ UNCHANGED <<inventoryVars, indexVars, sourceVars, opened, forced, cleaning, memberVars, bounds>>

\* The end of follow_source_once: a budget failure withdraws the view (withdraw_for_rebuild),
\* anything else leaves it installed but stale.
EndSession(o) ==
    /\ session[o].failed # "no"
    /\ IF session[o].failed = "budget"
       THEN RetireOwner(o) /\ cleaning' = cleaning \cup {o}
       ELSE AbortSnapshot(o, session[o].id) /\ UNCHANGED cleaning
    /\ session' = [session EXCEPT ![o] = NoSession]
    /\ source' = [source EXCEPT ![o] = SourceOff]
    /\ stream' = [stream EXCEPT ![o] = <<>>]
    /\ UNCHANGED <<inventoryVars, opened, forced, memberVars, bounds>>

\* The spawned cleanup loop; it stops when a new view has replaced the retired one.
Cleanup(o) ==
    /\ o \in cleaning
    /\ IF view[o].retired
       THEN CleanupOwner(o, RetireBatch)
            /\ cleaning' = IF view'[o].id = 0 THEN cleaning \ {o} ELSE cleaning
       ELSE cleaning' = cleaning \ {o} /\ UNCHANGED indexVars
    /\ UNCHANGED <<inventoryVars, sourceVars, session, opened, forced, memberVars, bounds>>

-----------------------------------------------------------------------------
(* Membership: watch.rs and follow_members.                                *)

OnlyMembers == UNCHANGED <<inventoryVars, sourceVars, opened, forced, bounds>>

\* A watch that must be rebuilt suspends discovery until a complete snapshot is installed.
Suspend ==
    /\ permitted # {} /\ ~installing /\ installs < bounds.installs
    /\ permitted' = {} /\ changed' = TRUE
    /\ UNCHANGED <<worker, members, gone, installs, installing, bounds>>
    /\ OnlyMembers /\ UNCHANGED <<indexVars, session, cleaning, bounds>>

\* install_members, first MembershipView, then InventoryRuntime.
InstallView(current) ==
    /\ ~installing /\ installs < bounds.installs
    /\ permitted' = current /\ installing' = TRUE /\ installs' = installs + 1
    /\ UNCHANGED <<worker, members, gone, changed, bounds>>
    /\ OnlyMembers /\ UNCHANGED <<indexVars, session, cleaning, bounds>>

InstallMembers ==
    /\ installing
    /\ members' = permitted /\ installing' = FALSE /\ changed' = TRUE
    /\ gone' = gone \cup (members \ permitted)
    /\ SetExpectedOwners(installs, permitted)
    /\ cleaning' = cleaning \cup (members \ permitted)
    /\ UNCHANGED <<worker, permitted, installs, bounds>>
    /\ OnlyMembers /\ UNCHANGED session

\* follow_members: tasks of former members are aborted, finished ones are started again.
FollowMembers ==
    /\ changed /\ changed' = FALSE
    /\ worker' = [o \in Owners |->
                     IF o \notin members THEN "none"
                     ELSE IF worker[o] \in {"none", "finished"} THEN "running" ELSE worker[o]]
    /\ session' = [o \in Owners |-> IF o \in members THEN session[o] ELSE NoSession]
    /\ source' = [o \in Owners |-> IF o \in members THEN source[o] ELSE SourceOff]
    /\ stream' = [o \in Owners |-> IF o \in members THEN stream[o] ELSE <<>>]
    /\ UNCHANGED <<inventoryVars, indexVars, opened, forced, cleaning, members, permitted, gone,
                   installs, installing, bounds>>

\* The loop of follow_source ends when its source is no member; the task is finished later.
LeaveLoop(o) ==
    /\ worker[o] = "running" /\ session[o].id = 0 /\ ~Exact(o)
    /\ worker' = [worker EXCEPT ![o] = "leaving"]
    /\ UNCHANGED <<members, permitted, gone, installs, installing, changed, bounds>>
    /\ OnlyMembers /\ UNCHANGED <<indexVars, session, cleaning, bounds>>
FinishTask(o) ==
    /\ worker[o] = "leaving"
    /\ worker' = [worker EXCEPT ![o] = "finished"]
    /\ UNCHANGED <<members, permitted, gone, installs, installing, changed, bounds>>
    /\ OnlyMembers /\ UNCHANGED <<indexVars, session, cleaning, bounds>>

-----------------------------------------------------------------------------
ChangeInventory(o) ==
    /\ o \in bounds.owners /\ HeadOf(o) < bounds.sequence
    /\ \E k \in bounds.residences, metadata \in Metadata \cup {Absent} : Change(o, k, metadata)
    /\ UNCHANGED <<indexVars, sourceVars, session, opened, forced, cleaning, memberVars, bounds>>

SourceStep(o) ==
    \/ ServeResume(o) \/ ServeSnapshot(o) \/ ServePage(o) \/ CaptureEnd(o)
    \/ ServeReplay(o) \/ ServeCommit(o) \/ ServeDelta(o) \/ WaitIdle(o) \/ WakeUp(o) \/ ServeProgress(o)

SessionStep(o) ==
    \/ Open(o) \/ CheckMember(o) \/ ReceiveBegin(o) \/ ReceivePage(o) \/ ReceiveDelta(o) \/ ReceiveCommit(o)
    \/ ReceiveProgress(o) \/ RefuseFrame(o) \/ EndSession(o)

MembershipStep ==
    \/ Suspend \/ InstallMembers \/ FollowMembers
    \/ \E current \in SUBSET (bounds.owners \ gone) : InstallView(current)

Next ==
    \/ \E o \in Owners :
         \/ ChangeInventory(o) \/ SourceStep(o) \/ SessionStep(o) \/ Break(o)
         \/ Cleanup(o) \/ LeaveLoop(o) \/ FinishTask(o)
    \/ MembershipStep

Spec == Init /\ [][Next]_vars

\* Streams, reconnects, cleanup tasks and the membership tasks keep running; inventories need
\* not change, streams need not break and membership need not be rebuilt.
Fairness ==
    /\ \A o \in Owners :
         /\ WF_vars(bounds.live /\ SourceStep(o)) /\ WF_vars(bounds.live /\ SessionStep(o))
         /\ SF_vars(bounds.live /\ ReceiveBegin(o)) /\ WF_vars(bounds.live /\ Cleanup(o))
         /\ WF_vars(bounds.live /\ LeaveLoop(o)) /\ WF_vars(bounds.live /\ FinishTask(o))
    /\ WF_vars(bounds.live /\ InstallMembers) /\ WF_vars(bounds.live /\ FollowMembers)
FairSpec == Spec /\ Fairness

-----------------------------------------------------------------------------
(* Properties.                                                             *)

TypeOK ==
    /\ InventoryTypeOK /\ IndexTypeOK
    /\ source \in [Owners -> [st : {"off", "resume", "bootstrap", "paging", "scanned", "replaying",
                                    "streaming", "idle"},
                              after : SequenceNumbers, end : SequenceNumbers,
                              cursor : 0..NumResidences, page : 0..NumResidences]]
    /\ \A o \in Owners : Len(stream[o]) <= StreamCredit
    /\ session \in [Owners -> [id : 0..bounds.sessions, checked : BOOLEAN, snapshot : BOOLEAN,
                               failed : {"no", "refused", "budget", "broken"}, acked : SequenceNumbers]]
    /\ opened \in [Owners -> 0..bounds.sessions]
    /\ forced \subseteq Owners /\ cleaning \subseteq Owners
    /\ worker \in [Owners -> {"none", "running", "leaving", "finished"}]
    /\ members \subseteq Owners /\ permitted \subseteq Owners /\ gone \subseteq Owners
    /\ installs \in 0..bounds.installs /\ installing \in BOOLEAN /\ changed \in BOOLEAN

\* An admitted view is exactly the owner's inventory, in the requester's scope, as it was at the
\* view's watermark: whatever changed while the snapshot was paged, whatever the journal dropped,
\* and wherever streams broke.  (commit_snapshot, apply_delta, apply_records.)
ViewsAreExact == \A o \in Owners : Admitted(o) => view[o].rows = RowsAt(o, view[o].applied)

\* The incremental byte counters equal what is really held, and stay inside the budget.
\* (validate_page, validate_delta, remove_active_owner, cleanup_owner.)
AccountingExact ==
    /\ activeBytes = MapThenSumSet(LAMBDA o : OwnerBytes + RowBytes(view[o].rows),
                                   {o \in Owners : Installed(o)})
    /\ stagingBytes = MapThenSumSet(LAMBDA o : OwnerBytes + RowBytes(staging[o].rows),
                                    {o \in Owners : Staged(o)})
    /\ accountedBytes = activeBytes + stagingBytes /\ accountedBytes <= byteLimit

\* The coverage counters, kept by increments, equal a recount over the expected owners, so
\* "complete" means that every expected owner has a fresh view.  (refresh_coverage_counts.)
CoverageExact ==
    /\ admittedViews = Cardinality({o \in Owners : Admitted(o)})
    /\ freshViews = Cardinality({o \in Owners : CountsAsFresh(o)})

\* The lookup table holds the rows of the installed views and nothing else, also while retired
\* views are removed in batches.  (insert_block, remove_block, cleanup_owner.)
BlocksMatchViews == blocks = UNION {EntriesOf(o, view[o].rows) : o \in Owners}

\* A view counts as fresh only while a session follows it, so coverage is never "complete" on
\* the strength of a stream that is gone.  (mark_stale, mark_syncing, confirm_progress.)
FreshIsFollowed == \A o \in Owners : view[o].fresh => session[o].id # 0 /\ ~session[o].snapshot

\* When coverage is "complete", a lookup that is not cut off at the limit finds every replica that
\* any expected owner had at the watermark it confirmed; and whatever it finds, cut off or not, is
\* one of those replicas.  (lookup, coverage.)
Current(o, k) == RowsAt(o, view[o].applied)[k]
CompleteLookups ==
    Coverage(TRUE) = "complete" =>
        \A k \in Scope, limit \in ReplicaLimits : \A found \in Lookup(k, permitted, limit) :
            /\ \A e \in found : e.owner \in expected /\ e.seq = Current(e.owner, k)
            /\ Cardinality(found) < limit =>
                 \A o \in expected \cap permitted : Current(o, k) # 0 => \E e \in found : e.owner = o

\* The session of an owner that is still expected never acknowledges a lower position than it
\* did before; the source would end it with "inventory acknowledgement moved backwards".
\* (receive_frames, read_acks.)
AcksNeverRegress ==
    [][\A o \in Owners :
          o \in expected /\ session[o].id # 0 /\ session'[o].id = session[o].id
              => session'[o].acked >= session[o].acked]_vars

\* The installed views implement the abstract replica: only expected owners have one, it covers
\* a prefix of the changes, and it never moves backwards, even when a bootstrap replaces it.
Replica == INSTANCE OwnerReplica WITH
    head <- [o \in Owners |-> HeadOf(o)],
    position <- [o \in Owners |-> IF Admitted(o) THEN view[o].applied ELSE -1]
ImplementsReplica == Replica!Spec

\* Once its membership stays valid, every owner is eventually followed to its last change and
\* counted fresh, through breaks, journal overflow and withdrawals.  The design document promises
\* it: a lost source is reconnected with backoff, without end.  (follow_source.)
CaughtUp(o) == Admitted(o) /\ view[o].fresh /\ view[o].applied = HeadOf(o)
Converges == bounds.live => \A o \in Owners : <>[]Exact(o) => <>[]CaughtUp(o)

\* A retired view always has a cleanup task that will remove what is left of it: the task neither
\* gives up between two batches nor takes a view that was reinstalled meanwhile for its own, so
\* the bytes of withdrawn views come back.  (cleanup_owner, withdraw_for_rebuild.)
RetiredIsCleaned == \A o \in Owners : view[o].retired => o \in cleaning

-----------------------------------------------------------------------------
(* What is checked                                                           *)

\* The index kept by increments equals what a rebuild from its views would give: lookup table,
\* bytes, coverage, and a cleanup task for every retired view (orbitkv-catalog index.rs).
IndexExact ==
  /\ TypeOK
  /\ AccountingExact
  /\ CoverageExact
  /\ BlocksMatchViews
  /\ RetiredIsCleaned

\* "Complete" coverage can be relied on: it rests on views that are followed, and a lookup offers
\* replicas of theirs only and misses none, up to its limit (lookup, coverage, mark_stale).
LookupsComplete ==
  /\ FreshIsFollowed
  /\ CompleteLookups

\* Neither a follower's acknowledgements nor an installed view ever move backwards: the composition
\* implements OwnerReplica (receive_frames, commit_snapshot).
FollowsSources ==
  /\ AcksNeverRegress
  /\ ImplementsReplica
=============================================================================
