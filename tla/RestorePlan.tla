---------------------------- MODULE RestorePlan ----------------------------
(***************************************************************************)
(* How a restore becomes copies.  A load is [count, targets]: the blocks a  *)
(* lease holds and, for each, the GPU block it goes to or Skip.  A stored   *)
(* slot is a sequence of one or two host segments [alloc, off, size].  The  *)
(* engine-local plan coalesces runs; the managed path binds every segment;  *)
(* both must move exactly the bytes of the leased blocks.                   *)
(***************************************************************************)
EXTENDS KVGeometry, Sequences, SequencesExt

Skip == -1
NoRange == [alloc |-> 0, off |-> 0, size |-> 0]
Refused == <<[src |-> NoRange, dst |-> 0]>>

\* Every destination lies within the smallest layer of its group.
InCapacity(loads, n) ==
  \A i \in DOMAIN loads : \A j \in DOMAIN loads[i].targets : loads[i].targets[j] < n

\* Each lease block with its destination, sources numbered over all leases.
CountsMatch(loads) == \A i \in DOMAIN loads : loads[i].count = Len(loads[i].targets)
GroupTargets(loads) ==
  LET one(i, start) ==
        SelectSeq([j \in DOMAIN loads[i].targets |-> <<loads[i].targets[j], start + j>>],
                  LAMBDA t : t[1] # Skip)
      f[i \in 0..Len(loads)] ==
        IF i = 0 THEN [start |-> 0, seq |-> <<>>]
        ELSE [start |-> f[i - 1].start + loads[i].count,
              seq |-> f[i - 1].seq \o one(i, f[i - 1].start)]
  IN  f[Len(loads)].seq

\* RawBlock::source_range
SourceRange(slot, s, off, size) ==
  IF s \notin DOMAIN slot \/ size = 0 THEN NoRange
  ELSE IF off + size > slot[s].size THEN NoRange
  ELSE [alloc |-> slot[s].alloc, off |-> slot[s].off + off, size |-> size]

\* One segment of one block: where it lies on the host and in the layer.
Piece(geo, slot, host, b, v) ==
  LET size == IF IsSplit(geo) THEN geo.seg ELSE BlockBytes(geo)
      src == IF ~v THEN SourceRange(slot, 1, host, size)
             ELSE IF Len(slot) > 1 THEN SourceRange(slot, 2, host, size)
             ELSE SourceRange(slot, 1, host + geo.seg, size)
  IN  [src |-> src, dst |-> b * Stride(geo) + (IF v THEN geo.kv ELSE 0)]

\* A piece that continues the last copy on both sides extends it.
Continues(c, p) == /\ c.src.alloc = p.src.alloc
                   /\ c.src.off + c.src.size = p.src.off
                   /\ c.dst + c.src.size = p.dst
Coalesce(pieces) ==
  LET f[k \in 0..Len(pieces)] ==
        IF k = 0 THEN <<>>
        ELSE LET done == f[k - 1]
                 n == Len(done)
             IN  IF n > 0 /\ Continues(done[n], pieces[k])
                 THEN [done EXCEPT ![n].src.size = @ + pieces[k].src.size]
                 ELSE Append(done, pieces[k])
  IN  f[Len(pieces)]

\* validate_targets
Overlap(copies) ==
  \E i, j \in DOMAIN copies :
    /\ i # j /\ copies[i].dst <= copies[j].dst
    /\ copies[j].dst < copies[i].dst + copies[i].src.size

\* PreparedRestore::raw_plan for one layer: targets by GPU block, K before V.
RawPlan(geo, host, targets, slots) ==
  LET T == SortSeq(targets, LAMBDA x, y : x[1] < y[1])
      side(v) == [i \in DOMAIN T |-> Piece(geo, slots[T[i][2]], host, T[i][1], v)]
      pieces == side(FALSE) \o (IF IsSplit(geo) THEN side(TRUE) ELSE <<>>)
  IN  IF \E i \in DOMAIN pieces : pieces[i].src = NoRange THEN Refused
      ELSE IF Overlap(Coalesce(pieces)) THEN Refused
      ELSE Coalesce(pieces)

\* append_copy_descs and build_copy_descs: the managed path, block by block.
AppendCopyDescs(geo, host, b, slot) ==
  <<Piece(geo, slot, host, b, FALSE)>>
  \o (IF IsSplit(geo) THEN <<Piece(geo, slot, host, b, TRUE)>> ELSE <<>>)
BuildCopyDescs(geo, host, targets, slots) ==
  LET all == FlattenSeq([i \in DOMAIN targets |->
               AppendCopyDescs(geo, host, targets[i][1], slots[targets[i][2]])])
  IN  IF \E i \in DOMAIN all : all[i].src = NoRange THEN Refused
      ELSE SortSeq(all, LAMBDA x, y : x.dst < y.dst)
=============================================================================
