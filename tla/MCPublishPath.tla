--------------------------- MODULE MCPublishPath ---------------------------
(***************************************************************************)
(* Small instances of PublishPath: one client with several saves, two       *)
(* clients sharing one slot in turn, each fault on its own, and live ones.  *)
(***************************************************************************)
EXTENDS PublishPath

CONSTANTS a, b

Base == [saves |-> {1, 2}, owner |-> <<a, a>>, mode |-> <<"handle", "handle">>,
         rank |-> <<0, 0>>, layers |-> <<<<2, 1>>, <<1, 1>>>>, capacity |-> 5, slots |-> 1, pending |-> 2,
         callers |-> 2, ops |-> 1, faults |-> {}, live |-> FALSE]
Both == [Base EXCEPT !.owner = <<a, b>>, !.mode = <<"blocking", "blocking">>]
One == [Base EXCEPT !.saves = {1}, !.owner = <<a>>, !.mode = <<"handle">>, !.rank = <<0>>,
                    !.layers = <<<<2, 1>>>>]

Short == <<<<1, 1>>, <<1, 1>>>>

MCScopes == {
  [Base EXCEPT !.layers = Short, !.capacity = 6, !.faults = {"close", "spawn"}],
  [Base EXCEPT !.faults = {"exec", "copy", "unwind"}, !.callers = 1],
  [Base EXCEPT !.rank = <<0, 1>>, !.faults = {"close"}, !.pending = 1, !.capacity = 4],
  [Both EXCEPT !.layers = Short, !.faults = {"close", "connect", "send"}],
  [Both EXCEPT !.slots = 2, !.layers = Short, !.faults = {"engine", "unproven", "lost"}],
  [Both EXCEPT !.slots = 2, !.layers = Short, !.ops = 2, !.faults = {"stop", "unregister"}],
  [Base EXCEPT !.mode = <<"blocking", "blocking">>, !.faults = {"manager"}],
  [One EXCEPT !.faults = {"close", "engine"}, !.live = TRUE],
  [One EXCEPT !.layers = <<<<1, 1>>>>, !.faults = {"close", "stop"}, !.live = TRUE],
  [Both EXCEPT !.slots = 2, !.layers = Short, !.faults = {"stop", "unproven"}, !.live = TRUE]
}
=============================================================================
