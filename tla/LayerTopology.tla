--------------------------- MODULE LayerTopology ---------------------------
(***************************************************************************)
(* The slot topology an instance is sealed with when its last worker has   *)
(* registered: layer ids, storage groups, pages and the storage namespace. *)
(*                                                                         *)
(* A layer name is a natural number (names are only sorted and compared).  *)
(* A GPU g is [tp, pp, kv, numa]; g.kv maps the layers it holds to         *)
(* [geo, group].                                                           *)
(***************************************************************************)
EXTENDS KVGeometry, Sequences, FiniteSets, FiniteSetsExt, SequencesExt

-----------------------------------------------------------------------------
(* InstanceContext::seal_topology                                            *)

Names(gs) == UNION {DOMAIN g.kv : g \in gs}
Holders(gs, l) == {g \in gs : l \in DOMAIN g.kv}

\* What two devices must agree on for a layer of the same name.
Footprint(geo, align) == <<geo.seg, IsSplit(geo), PaddedBytes(geo, align)>>
LayerPad(gs, l, align) == PaddedBytes((CHOOSE g \in Holders(gs, l) : TRUE).kv[l].geo, align)
LayerGroup(gs, l) == (CHOOSE g \in Holders(gs, l) : TRUE).kv[l].group
Groups(gs) == {LayerGroup(gs, l) : l \in Names(gs)}

\* Page-first: the distinct layer sets are the shards, by smallest layer.
Shards(gs) == SetToSortSeq({DOMAIN g.kv : g \in gs}, LAMBDA s, t : Min(s) < Min(t))
Partition(gs) == \A s, t \in {DOMAIN g.kv : g \in gs} : s = t \/ s \intersect t = {}

Sealable(gs, tpSize, pageFirst, align) ==
  /\ \A l \in Names(gs) : \A g, h \in Holders(gs, l) :
       /\ Footprint(g.kv[l].geo, align) = Footprint(h.kv[l].geo, align)
       /\ g.kv[l].group = h.kv[l].group
  /\ Groups(gs) = 0 .. Max(Groups(gs))
  /\ pageFirst => Groups(gs) = {0}
  /\ \A l \in Names(gs), r \in 0 .. tpSize - 1 :
       LET own == {g \in Holders(gs, l) : g.tp = r} IN
       own # {} /\ \A g, h \in own : g.pp = h.pp
  /\ pageFirst => Partition(gs)

GroupTotalSlots(topo, x) ==
  IF topo.pageFirst THEN topo.shards ELSE topo.count[x] * topo.tp

SlotIndex(topo, l, r) ==
  IF topo.pageFirst THEN topo.layer[l].page.shard ELSE topo.layer[l].rank * topo.tp + r

StorageSlotsNoGroup(gs, align) ==
  UNION {{<<l, g.tp, g.pp, Footprint(g.kv[l].geo, align)>> : l \in DOMAIN g.kv} : g \in gs}

\* What storage_namespace digests, with the identity and page_first.
StorageSlots(gs, align) ==
  UNION {{<<l, g.kv[l].group, g.tp, g.pp, Footprint(g.kv[l].geo, align)>>
            : l \in DOMAIN g.kv} : g \in gs}

UnknownNode == 2 ^ 16   \* sorts after every known node

\* build_page_layout: a layer starts where the layers of its shard before it end.
PageOffset(pads, shard, l) == MapThenSumSet(LAMBDA k : pads[k], {k \in shard : k < l})

\* The sealed topology: for every layer its id, group, rank in the group and,
\* page-first, its shard and place in the shard's page.
SealTopology(gs, ns, tpSize, pageFirst, align) ==
  LET names == Names(gs)
      group(l) == LayerGroup(gs, l)
      pad(l) == LayerPad(gs, l, align)
      shards == Shards(gs)
      shard(l) == CHOOSE i \in 1 .. Len(shards) : l \in shards[i]
      page(l) == IF pageFirst
                 THEN [shard |-> shard(l) - 1, bytes |-> pad(l),
                       at |-> PageOffset([k \in names |-> pad(k)], shards[shard(l)], l)]
                 ELSE [shard |-> 0, bytes |-> 0, at |-> 0]
      base ==
     [tp |-> tpSize, pageFirst |-> pageFirst,
      layer |-> [l \in names |->
                   [id |-> Cardinality({k \in names : k < l}), group |-> group(l),
                    rank |-> Cardinality({k \in names : k < l /\ group(k) = group(l)}),
                    page |-> page(l)]],
      shards |-> IF pageFirst THEN Len(shards) ELSE 0,
      count |-> [x \in Groups(gs) |-> Cardinality({l \in names : group(l) = x})],
      bytes |-> [x \in Groups(gs) |-> (IF pageFirst THEN 1 ELSE tpSize)
                                        * MapThenSumSet(pad, {l \in names : group(l) = x})],
      cache |-> <<ns, pageFirst, StorageSlots(gs, align)>>]
      \* a replicated slot takes the smallest node, in any order of arrival
      nodes(x, s) == {g.numa : g \in {h \in gs : \E l \in DOMAIN h.kv :
                        group(l) = x /\ SlotIndex(base, l, h.tp) = s}}
  IN [numa |-> [x \in Groups(gs) |->
                [s \in 0 .. GroupTotalSlots(base, x) - 1 |-> Min(nodes(x, s) \union {UnknownNode})]]] @@ base

=============================================================================
