--------------------------- MODULE MCCoordinator ---------------------------
(***************************************************************************)
(* Instances of Coordinator for TLC.                                       *)
(***************************************************************************)
EXTENDS CoordinatorRefinement, TLC

\* Slots, peers and names are interchangeable: nothing in Coordinator
\* orders them, and every CHOOSE picks by an octet or a joining time.
Symmetric == Permutations(Peers) \cup Permutations(Requests) \cup Permutations(Names)

\* Restricts a run to behaviours in which every member keeps polling, so that
\* its counterexample does not depend on a member going stale.
EverybodyPolls == \A p \in Joined(room) : room.members[p].lastSeen = "recent"

\* A bound of the rooms run: the host may take another name, and give its role up
\* with it; everybody else goes by one name.
OthersShareName ==
    \E n \in Names : \A p \in Joined(room) \ {room.hostPeerID} : room.members[p].name = n

=============================================================================
