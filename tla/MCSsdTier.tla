----------------------------- MODULE MCSsdTier ------------------------------
(***************************************************************************)
(* The SSD tier for TLC: a behaviour follows either the ring and its       *)
(* writer, readers and GPU leases (SsdStore) or the thread that executes   *)
(* one worker pool's direct I/O (SsdQueue).  SsdStore sees that thread     *)
(* only as a lease that ends well or not, at any time.                     *)
(***************************************************************************)
EXTENDS MCSsdStore, SsdQueue

CONSTANTS t1, t2

VARIABLE lane
tierVars == <<vars, queueVars, lane>>

LoadOf(batches, encoded, budget) ==
  [write |-> FALSE, ok |-> TRUE, batches |-> batches, encoded |-> encoded, host |-> FALSE,
   budget |-> budget]
SaveOf(batches) == [LoadOf(batches, <<>>, 0) EXCEPT !.write = TRUE]
Read(source, size) == [source |-> source, size |-> size]
WithHost(p) == [p EXCEPT !.host = TRUE]

\* A batch beside two windows of one source, and two windows of two sources.
Mixed == LoadOf(<<NoExtent>>, <<Read(1, 1), Read(1, 3)>>, 16)
Windows == LoadOf(<<>>, <<Read(1, 1), Read(2, 2)>>, 8)
OneWindow == LoadOf(<<>>, <<Read(1, 1)>>, 8)
Unplannable == [LoadOf(<<>>, <<>>, 0) EXCEPT !.ok = FALSE]

About(p, q, faults, live) ==
  [plan |-> (t1 :> p @@ t2 :> q), faults |-> faults, live |-> live]

\* Two saves, loads with a window and with faults of the codec thread beside one that could not be
\* planned, and a save beside a load under fair scheduling.
MCScopes ==
  { About(SaveOf(<<1, 1>>), WithHost(SaveOf(<<2>>)), {"io"}, FALSE),
    About(Mixed, Unplannable, {"io", "codec"}, FALSE),
    About(Windows, Unplannable, {"death", "park", "slots", "prepare"}, FALSE),
    About(OneWindow, WithHost(LoadOf(<<NoExtent>>, <<>>, 0)), {}, FALSE),
    About(SaveOf(<<1, 1>>), Unplannable, {"closing", "io"}, FALSE),
    About(SaveOf(<<1, 1>>), OneWindow, {"io"}, TRUE) }

TierInit ==
  /\ Init /\ QueueInit
  /\ \/ lane = "ring" /\ scope = CHOOSE c \in Scopes : ~c.live
     \/ lane = "direct"

TierNext ==
  \/ lane = "ring" /\ Next /\ UNCHANGED <<queueVars, lane>>
  \/ lane = "direct" /\ QueueNext /\ UNCHANGED <<vars, lane>>

TierSpec ==
  /\ TierInit /\ [][TierNext]_tierVars
  /\ WF_vars(lane = "ring" /\ WriterStep) /\ WF_vars(lane = "ring" /\ DeviceStep)
  /\ \A w \in GpuWorkers : WF_vars(lane = "ring" /\ GpuStep(w))
  /\ \A r \in ReadTasks : WF_vars(lane = "ring" /\ ReadStep(r))
  /\ QueueFairness
=============================================================================
