-------------------------- MODULE MCVllmConnector --------------------------
(***************************************************************************)
(* Small engines: one or two requests of two to three blocks, one or two    *)
(* workers, a pool that forces preemption, and one family of faults each.   *)
(***************************************************************************)
EXTENDS VllmConnector

Base == [reqs |-> {1, 2}, prompt |-> <<4, 3>>, total |-> <<5, 4>>, blocks |-> 4,
         workers |-> 1, kind |-> "dense", faults |-> {}, live |-> FALSE]
One == [Base EXCEPT !.reqs = {1}, !.prompt = <<4>>, !.total = <<5>>]

Short == [Base EXCEPT !.prompt = <<4, 2>>, !.total = <<4, 3>>]

MCScopes == {
  [Base EXCEPT !.blocks = 3],
  [Short EXCEPT !.faults = {"abort", "multi"}],
  [One EXCEPT !.kind = "control", !.workers = 2, !.faults = {"abort", "multi"}],
  [One EXCEPT !.kind = "striped", !.workers = 2, !.faults = {"reject"}],
  [Short EXCEPT !.kind = "hybrid", !.blocks = 5],
  [One EXCEPT !.kind = "hybrid", !.total = <<4>>, !.workers = 2, !.faults = {"abort", "query", "expire", "shutdown"}],
  [One EXCEPT !.kind = "window", !.total = <<6>>, !.blocks = 3],
  [One EXCEPT !.faults = {"unknown", "sync", "restore", "prepare_prefix", "abort", "shutdown"}],
  [One EXCEPT !.prompt = <<2>>, !.total = <<3>>, !.workers = 2, !.faults = {"unknown", "shutdown", "refuse"}],
  [Short EXCEPT !.blocks = 3, !.live = TRUE],
  [One EXCEPT !.kind = "hybrid", !.total = <<4>>, !.workers = 2, !.live = TRUE]
}
=============================================================================
