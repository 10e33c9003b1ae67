------------------------- MODULE MCGpuRegistration -------------------------
(* Two processes and two instances.  The behaviours are split by scope: the  *)
(* geometries of one layer; the layouts of two instances; and registration,  *)
(* sessions, transfers and shutdown with what can fail in each.              *)
EXTENDS GpuRegistration
MCNumaOf == [d \in 1 .. 3 |-> d % 2]
Geo(n, seg, kv, segs, step) == [n |-> n, seg |-> seg, kv |-> kv, segs |-> segs, step |-> step]
Plain == Geo(2, 3, 0, 1, 0)
Split == Geo(2, 3, 6, 2, 0)
KV(S, g, grp(_)) == [l \in S |-> [geo |-> g, group |-> grp(l)]]
Zero(l) == 0
Own(l) == l - 1
Swap(l) == 2 - l
Request(i, tpSize, world, pf, tp, pp, dev, kv, bad) ==
  [inst |-> i, ns |-> "ns", tpSize |-> tpSize, world |-> world, pf |-> pf, tp |-> tp, pp |-> pp,
   dev |-> dev, kv |-> kv, bad |-> bad]
Scope(reqs, ops, faults) == [reqs |-> reqs, ops |-> ops, faults |-> faults]
Both(A, B) == [c \in Clients |-> IF c = "a" THEN A ELSE B]

Geometries == {Geo(n, seg, kv, segs, step) :
                 n \in 1 .. 3, seg \in {1, 2}, kv \in 0 .. 5, segs \in 1 .. 3, step \in {0, 2, 3}}
GeometryScope ==
  Scope(Both({Request("x", 1, 1, FALSE, 0, 0, 1, KV({1}, g, Zero), "") : g \in Geometries}, {}),
        {}, {})

\* One device of x against two of y, over layers, groups, ranks and stages.
Whole(i, pf) == {Request(i, 1, 1, pf, 0, 0, 1, KV({1, 2}, Plain, Zero), ""),
                 Request(i, 1, 1, pf, 0, 0, 1, KV({1, 2}, Split, Own), ""),
                 Request(i, 1, 1, pf, 0, 0, 1, KV({1, 2}, Split, Swap), "")}
Stages(i, pf, pp) == {Request(i, 1, 2, pf, 0, 0, 1, KV({1}, Plain, Zero), ""),
                      Request(i, 1, 2, pf, 0, pp, 2, KV({2}, Plain, Zero), ""),
                      Request(i, 1, 2, pf, 0, pp, 3, KV({1, 2}, Split, Own), "")}
Ranks(i, pf) == {Request(i, 2, 2, pf, 0, 0, 1, KV({1, 2}, Plain, Zero), ""),
                 Request(i, 2, 2, pf, 1, 0, 2, KV({1, 2}, Plain, Zero), ""),
                 Request(i, 2, 2, pf, 1, 0, 3, KV({1, 2}, Split, Zero), "")}
Layouts == <<
  Scope(Both(Whole("x", FALSE), Whole("y", FALSE)), {}, {}),
  Scope(Both(Whole("x", TRUE), Stages("y", TRUE, 0)), {}, {}),
  Scope(Both(Whole("x", TRUE), Stages("y", TRUE, 1)), {}, {}),
  Scope(Both(Whole("x", FALSE), Stages("y", FALSE, 1)), {}, {}),
  Scope(Both(Ranks("x", FALSE), {}), {}, {}),
  Scope(Both(Ranks("x", TRUE), {}), {}, {})>>

\* x with two ranks in two processes, or one process each for x and y.
Rank(tp, bad) == Request("x", 2, 2, FALSE, tp, 0, tp + 1, KV({1, 2}, Plain, Zero), bad)
Alone(i, dev, bad) == Request(i, 1, 1, FALSE, 0, 0, dev, KV({1, 2}, Plain, Zero), bad)
Lives == <<
   Scope(Both({Alone("x", 1, "")}, {}), {"unregister"}, {"export", "arenas", "device", "import", "numa"}),
   Scope(Both({Alone("x", 1, b) : b \in {"version", "format"}}, {Alone("y", 1, "")}), {}, {"import"}),
   Scope(Both({Alone("x", 1, "")}, {Alone("x", 1, "")}), {"unregister"}, {}),
   Scope(Both({Rank(0, "")}, {Rank(1, "")}), {"session", "jobs", "close"}, {}),
   Scope(Both({Alone("x", 1, "")}, {}), {"unregister", "session", "jobs", "stop"}, {"drain", "worker"}),
   Scope(Both({Alone("x", 1, "")}, {Alone("x", 1, "")}), {"session"}, {"death", "timeout"}),
   Scope(Both({Alone("x", 1, "")}, {Alone("y", 2, "")}), {"jobs", "stop"}, {})>>
MCScopes == <<GeometryScope>> \o Layouts \o Lives
=============================================================================
