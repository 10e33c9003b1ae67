----------------------- MODULE MCInventoryReplication -----------------------
(* Instances of InventoryReplication: two owners whose membership changes,  *)
(* two owners that reconnect, and one owner in depth.                       *)
EXTENDS InventoryReplication

CONSTANTS a, b

MCBounds == {
    [owners |-> {a, b}, residences |-> {1}, sequence |-> 1, bytes |-> 5, sessions |-> 1,
     breaks |-> 0, installs |-> 2, live |-> FALSE],
    [owners |-> {a, b}, residences |-> {1}, sequence |-> 1, bytes |-> 3, sessions |-> 2,
     breaks |-> 0, installs |-> 1, live |-> FALSE],
    [owners |-> {a}, residences |-> {1}, sequence |-> 2, bytes |-> 3, sessions |-> 3,
     breaks |-> 0, installs |-> 2, live |-> FALSE],
    [owners |-> {a}, residences |-> {1, 2, 3}, sequence |-> 3, bytes |-> 5, sessions |-> 7,
     breaks |-> 1, installs |-> 1, live |-> TRUE]}
\* A membership that is suspended and reinstalled.
MCRespawn == {
    [owners |-> {a}, residences |-> {1, 3}, sequence |-> 1, bytes |-> 5, sessions |-> 4,
     breaks |-> 0, installs |-> 2, live |-> TRUE]}
=============================================================================
