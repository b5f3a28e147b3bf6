----------------------- MODULE CoordinatorRefinement -----------------------
(***************************************************************************)
(* The coordinator's room implements RoomMembership: the Map's keys are    *)
(* the peers present, joinedAt orders them, and each has the address that  *)
(* its octet stands for.  The membership knows no names.                   *)
(***************************************************************************)
EXTENDS Coordinator

AddressesOf(rm) == [p \in Joined(rm) |-> rm.members[p].octet]

Before == {pair \in Joined(room) \X Joined(room) :
             room.members[pair[1]].joinedAt < room.members[pair[2]].joinedAt}

Membership == INSTANCE RoomMembership WITH
    present <- Joined(room),
    address <- AddressesOf(room),
    before <- Before,
    host <- room.hostPeerID,
    cap <- room.memberCap,
    Addresses <- Octets,
    Caps <- {GlobalCap, CommunityCap}

\* The handlers of one room, interleaved at their awaits, do nothing that the
\* sequential specification of a room's membership does not allow.
ImplementsRoomMembership == Membership!RoomSpec

=============================================================================
