----------------------------- MODULE SourceHold -----------------------------
(***************************************************************************)
(* What a peer source promises about its memory: a ticket is granted at    *)
(* most once, and the blocks it pins outlive every READ made under it.     *)
(* PeerTransfer implements this specification.                             *)
(***************************************************************************)
CONSTANT Tickets

VARIABLES
    held,      \* tickets whose blocks the source keeps pinned
    reading,   \* tickets a requester may be reading under
    spent      \* tickets that will never be granted (again)

Init == held = {} /\ reading = {} /\ spent = {}

Grant(t) ==
    /\ t \notin spent
    /\ held' = held \cup {t}
    /\ spent' = spent \cup {t}
    /\ UNCHANGED reading

Begin(t) ==
    /\ t \in held
    /\ reading' = reading \cup {t}
    /\ UNCHANGED <<held, spent>>

End(t) ==
    /\ t \in reading
    /\ reading' = reading \ {t}
    /\ UNCHANGED <<held, spent>>

Drop(t) ==
    /\ t \in held \ reading
    /\ held' = held \ {t}
    /\ UNCHANGED <<reading, spent>>

\* Tickets close without ever having been granted.
Close ==
    /\ spent \subseteq spent' /\ spent' \subseteq Tickets
    /\ UNCHANGED <<held, reading>>

Next == Close \/ \E t \in Tickets : Grant(t) \/ Begin(t) \/ End(t) \/ Drop(t)

Spec == Init /\ [][Next]_<<held, reading, spent>>
=============================================================================
