------------------------------ MODULE SavePlan ------------------------------
(***************************************************************************)
(* Where a save puts the bytes of a block.  A context is one layer of the   *)
(* publishing device, [l, geo, slot, group, blocks], with the GPU block and *)
(* hash of every block it saves.  A page-first page is written once for all *)
(* layers of a shard; a complete state group may instead be written from    *)
(* GPU pages straight to its place in the SSD file.                         *)
(***************************************************************************)
EXTENDS LayerTopology, RestorePlan

ShardLayers(topo, s) == {l \in DOMAIN topo.layer : topo.layer[l].page.shard = s}
PageSize(topo, s) == MapThenSumSet(LAMBDA l : topo.layer[l].page.bytes, ShardLayers(topo, s))

\* One writer, one shard, the same blocks in every layer, every layer of it.
PageFirstOk(topo, ctxs) ==
  /\ \A c, e \in ctxs : ~IsSplit(c.geo) /\ c.slot = e.slot /\ c.blocks = e.blocks
  /\ \A c \in ctxs : {e.l : e \in ctxs} = ShardLayers(topo, c.slot)

\* What lands in one page, as <<offset, length, layer>>: the layer's block, and
\* zeros (layer 0) up to its padded size.
PageWrites(topo, ctxs) ==
  {<<topo.layer[c.l].page.at, BlockBytes(c.geo), c.l>> : c \in ctxs}
  \cup {<<topo.layer[c.l].page.at + BlockBytes(c.geo),
          topo.layer[c.l].page.bytes - BlockBytes(c.geo), 0>> : c \in ctxs}

\* The sizes of a slot's segments in the file.
SegmentSizes(topo, c, align) ==
  IF topo.pageFirst THEN <<PageSize(topo, c.slot)>>
  ELSE IF IsSplit(c.geo) THEN <<PaddedBytes(c.geo, align) \div 2, PaddedBytes(c.geo, align) \div 2>>
  ELSE <<PaddedBytes(c.geo, align)>>
SlotSize(topo, c, align) == LET z == SegmentSizes(topo, c, align)
                            IN  IF Len(z) = 2 THEN z[1] + z[2] ELSE z[1]

\* The contexts that hold a hash, and whether they are its whole state group.
Covering(ctxs, x, hash) ==
  {c \in ctxs : c.group = x /\ \E i \in DOMAIN c.blocks : c.blocks[i][2] = hash}
WholeGroup(topo, ctxs, x, hash) ==
  {c.slot : c \in Covering(ctxs, x, hash)} = 0 .. GroupTotalSlots(topo, x) - 1

\* prepare_gpu_writes: the copies [at, dev, size] of one object, from a GPU
\* address <<layer, offset>> to a place in the file, slot after slot.
SlotBase(topo, C, s, align) ==
  MapThenSumSet(LAMBDA k : SlotSize(topo, CHOOSE c \in C : c.slot = k, align), 0 .. s - 1)
GpuRanges(topo, c, b, base, align) ==
  LET from == b * Stride(c.geo)
      rng(o, d, z) == [at |-> base + o, l |-> c.l, dev |-> from + d, size |-> z]
  IN  IF IsSplit(c.geo)
      THEN {rng(0, 0, c.geo.seg), rng(SegmentSizes(topo, c, align)[1], c.geo.kv, c.geo.seg)}
      ELSE {rng(IF topo.pageFirst THEN topo.layer[c.l].page.at ELSE 0, 0, BlockBytes(c.geo))}
GpuWrites(topo, ctxs, x, hash, align) ==
  LET C == Covering(ctxs, x, hash)
  IN  UNION {UNION {GpuRanges(topo, c, c.blocks[i][1], SlotBase(topo, C, c.slot, align), align) :
               i \in {j \in DOMAIN c.blocks : c.blocks[j][2] = hash}} : c \in C}
ObjectBytes(topo, C, align) ==
  MapThenSumSet(LAMBDA s : SlotSize(topo, CHOOSE c \in C : c.slot = s, align), {c.slot : c \in C})

-----------------------------------------------------------------------------
(* Restoring from the file: an entry is [at, len, slots], a slot the sizes   *)
(* of its segments                                                           *)

NoCopy == [at |-> 0, l |-> 0, dev |-> 0, size |-> 0]
SlotBytes(slot) == MapThenSumSet(LAMBDA k : slot[k], DOMAIN slot)

\* source_slot: where a slot starts, or -1 when it does not end in its extent.
SourceSlot(entry, s) ==
  LET base == entry.at + MapThenSumSet(LAMBDA k : SlotBytes(entry.slots[k]), 1 .. s)
      slot == entry.slots[s + 1]
  IN  IF (\E k \in DOMAIN slot : slot[k] = 0) \/ base + SlotBytes(slot) > entry.at + entry.len
      THEN -1 ELSE base

SegmentOffset(slot, base, k, off, size) ==
  IF k \notin DOMAIN slot THEN -1
  ELSE IF off + size > slot[k] THEN -1
  ELSE base + MapThenSumSet(LAMBDA j : slot[j], 1 .. k - 1) + off

\* raw_copies: V lies in the second segment, or behind K in the only one.
RawCopies(slot, base, off, geo, l, b) ==
  LET size == IF IsSplit(geo) THEN geo.seg ELSE BlockBytes(geo)
      range(k, o, d) ==
        LET at == SegmentOffset(slot, base, k, o, size)
        IN  IF at < 0 THEN NoCopy ELSE [at |-> at, l |-> l, dev |-> b * Stride(geo) + d, size |-> size]
  IN  <<range(1, off, 0)>>
      \o (IF ~IsSplit(geo) THEN <<>>
          ELSE IF Len(slot) > 1 THEN <<range(2, off, geo.kv)>>
          ELSE <<range(1, off + geo.seg, geo.kv)>>)

-----------------------------------------------------------------------------
(* Direct I/O: batches [at, size, copies] of at most staging bytes           *)

Smaller(a, b) == IF a < b THEN a ELSE b
Larger(a, b) == IF a < b THEN b ELSE a
Clip(c, start, limit) ==
  LET begin == Larger(c.at, start) IN
  [c EXCEPT !.at = begin, !.dev = @ + (begin - c.at),
            !.size = Smaller(c.at + c.size, limit) - begin]

\* plan_writes: the whole reservation in order; what no copy fills is zero.  An
\* unaligned reservation or a copy that leaves it is refused (no batches).
PlanWrites(at, size, copies, align, staging) ==
  IF at % align # 0 \/ size % align # 0 \/ \E c \in copies : c.at < at \/ c.at + c.size > at + size
  THEN <<>>
  ELSE [k \in 1 .. (size + staging - 1) \div staging |->
          LET start == at + (k - 1) * staging
              limit == Smaller(at + size, start + staging)
          IN  [at |-> start, size |-> limit - start,
               copies |-> {c \in {Clip(d, start, limit) : d \in copies} : c.size > 0}]]

\* plan_reads: a copy joins the last batch it touches while staging has room
\* for its first byte, and goes on in a new batch where the room ends.
FitsBlindly(b, c, align, staging) ==
  c.at >= b.at /\ (c.at \div align) * align <= b.at + b.size
FitsBatch(b, c, align, staging) ==
  /\ c.at >= b.at
  /\ (c.at \div align) * align <= b.at + b.size
  /\ c.at < b.at + staging
PlanReads(copies, align, staging) ==
  LET up(n) == ((n + align - 1) \div align) * align
      step(s) ==
        LET c == Head(s.todo)
            n == Len(s.out)
            bs == IF n > 0 /\ FitsBatch(s.out[Larger(n, 1)], c, align, staging) THEN s.out
                  ELSE Append(s.out, [at |-> (c.at \div align) * align, size |-> 0, copies |-> {}])
            b == bs[Len(bs)]
            z == Smaller(c.size, staging - (c.at - b.at))
            full == [b EXCEPT !.size = Larger(@, up(c.at - b.at + z)), !.copies = @ \cup {[c EXCEPT !.size = z]}]
            rest == [c EXCEPT !.at = @ + z, !.dev = @ + z, !.size = @ - z]
        IN  [out |-> [bs EXCEPT ![Len(bs)] = full],
             todo |-> (IF rest.size > 0 THEN <<rest>> ELSE <<>>) \o Tail(s.todo)]
      bytes == MapThenSumSet(LAMBDA i : copies[i].size, DOMAIN copies)
      f[k \in 0 .. bytes] ==
        IF k = 0 THEN [out |-> <<>>, todo |-> SortSeq(copies, LAMBDA c, d : c.at < d.at)]
        ELSE IF f[k - 1].todo = <<>> THEN f[k - 1] ELSE step(f[k - 1])
  IN  f[bytes].out
=============================================================================
