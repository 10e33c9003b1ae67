--------------------------- MODULE MCPeerTransfer ---------------------------
(* Instances of PeerTransfer for TLC.                                      *)
EXTENDS PeerTransferProofs, TLC

CONSTANTS r1, r2

OneRequester == {r1}
TwoRequesters == {r1, r2}
Bytes == {1, 2}
OneByte == {1}
Symmetry == Permutations(TwoRequesters)
=============================================================================
