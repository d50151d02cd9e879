---------------------------- MODULE Connections -----------------------------
(***************************************************************************)
(* What apps/echo_server promises the peers that connect to it: a          *)
(* connection waits, is then served or turned away, and is closed in the   *)
(* end; at most NumHandlers are served at the same time.                   *)
(***************************************************************************)
EXTENDS Naturals, FiniteSets

CONSTANTS Conns, NumHandlers

VARIABLE state          \* state[c]: "new", "waiting", "served" or "closed"

Served(st) == {c \in Conns : st[c] = "served"}

Init == state = [c \in Conns |-> "new"]

\* Several connections may change at once (the listening socket takes those
\* that wait on it with it), each forward only.
Step(from, to) ==
    \/ from = to
    \/ from = "new" /\ to = "waiting"
    \/ from = "waiting" /\ to \in {"served", "closed"}
    \/ from = "served" /\ to = "closed"

Next ==
    /\ state' \in [Conns -> {"new", "waiting", "served", "closed"}]
    /\ \A c \in Conns : Step(state[c], state'[c])
    /\ Cardinality(Served(state')) <= NumHandlers

Spec == Init /\ [][Next]_state
=============================================================================
