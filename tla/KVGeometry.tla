----------------------------- MODULE KVGeometry -----------------------------
(***************************************************************************)
(* Where the blocks of one layer lie in GPU memory.  A declaration geo is  *)
(* [n, seg, kv, segs, step]: blocks, bytes of one segment, distance of K   *)
(* and V, segments, and the block stride (0: dense).  Sizes stay far below *)
(* the machine word, so the overflow checks of the code never fire and are *)
(* left out.                                                               *)
(***************************************************************************)
EXTENDS Integers

IsSplit(geo) == geo.segs = 2 /\ geo.kv > geo.seg

BlockBytes(geo) == geo.seg * geo.segs

Stride(geo) ==
  IF geo.step # 0 THEN geo.step
  ELSE IF IsSplit(geo) THEN geo.seg ELSE BlockBytes(geo)

SplitDisjointBelow(geo) ==
  LET d == geo.kv \div Stride(geo) IN
  d = 0 \/ d > geo.n - 1 \/ geo.kv - d * Stride(geo) >= geo.seg

\* Only the two block distances nearest to the K/V distance are compared.
SplitDisjoint(geo) ==
  LET nearest == geo.kv \div Stride(geo) IN
  \A d \in {nearest, nearest + 1} :
    \/ d = 0 \/ d > geo.n - 1
    \/ geo.kv - d * Stride(geo) >= geo.seg
    \/ d * Stride(geo) - geo.kv >= geo.seg

GeometryOk(geo) ==
  /\ geo.seg # 0 /\ geo.n # 0 /\ geo.segs # 0
  /\ geo.segs = 1 \/ geo.kv >= geo.seg
  /\ geo.segs <= 2 \/ geo.kv = geo.seg
  /\ IF IsSplit(geo) THEN Stride(geo) >= geo.seg /\ SplitDisjoint(geo)
                     ELSE Stride(geo) >= BlockBytes(geo)

\* The end of the last addressed byte, which bind compares with the tensor.
Extent(geo) ==
  (geo.n - 1) * Stride(geo) + (IF IsSplit(geo) THEN geo.kv + geo.seg ELSE BlockBytes(geo))

\* Half-open byte ranges of one block.
BlockRanges(geo, b) ==
  LET base == b * Stride(geo) IN
  IF IsSplit(geo)
  THEN {<<base, base + geo.seg>>, <<base + geo.kv, base + geo.kv + geo.seg>>}
  ELSE {<<base, base + BlockBytes(geo)>>}

PaddedBytes(geo, align) == (((geo.seg + align - 1) \div align) * align) * geo.segs

-----------------------------------------------------------------------------
\* What GeometryOk is for: where segment j of block b begins, and that no two overlap.
Segment(geo, b, j) == b * Stride(geo) + j * geo.kv
NoOverlap(geo) ==
  \A b1, b2 \in 0 .. geo.n - 1, j1, j2 \in 0 .. geo.segs - 1 :
    <<b1, j1>> # <<b2, j2>> =>
      \/ Segment(geo, b1, j1) + geo.seg <= Segment(geo, b2, j2)
      \/ Segment(geo, b2, j2) + geo.seg <= Segment(geo, b1, j1)

\* An accepted geometry never lets two segments of any two blocks overlap or leave the extent,
\* and with more than one block nothing else is refused (transfer/layout.rs compares only two
\* block distances).
LayoutExact(geo) ==
  /\ GeometryOk(geo) => NoOverlap(geo) /\ \A b \in 0 .. geo.n - 1 :
       \A x \in BlockRanges(geo, b) : 0 <= x[1] /\ x[2] <= Extent(geo)
  /\ NoOverlap(geo) /\ geo.n > 1 /\ geo.segs \in {1, 2} => GeometryOk(geo)
=============================================================================
