----------------------------- MODULE MCSsdStore -----------------------------
(* Instances of SsdStore for TLC. *)
EXTENDS SsdStore, TLC

CONSTANTS k1, k2

\* One block takes two units, the other one.
MCSize == (k1 :> 2 @@ k2 :> 1)
=============================================================================
