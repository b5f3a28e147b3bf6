--------------------------- MODULE RoomMembership ---------------------------
(***************************************************************************)
(* What a coordinator room promises its members, without requests, tokens, *)
(* or versions: who is present at which address, in which order they came, *)
(* who is host, and how many may come.  Coordinator implements it.         *)
(***************************************************************************)
EXTENDS Integers, FiniteSets

CONSTANTS
    Peers,
    NoPeer,
    Addresses,
    Caps        \* the capacities a founder can give the room

VARIABLES
    present,    \* the peers in the room
    address,    \* the address of each of them
    before,     \* pairs of present peers, the earlier arrival first
    host,       \* the peer in charge
    cap         \* the capacity, 0 while nobody is present

roomVars == <<present, address, before, host, cap>>

\* The host is always the peer that came first of those present, so the role
\* passes on only when its holder goes.
First(S, order) == CHOOSE p \in S : \A q \in S \ {p} : <<p, q>> \in order

RoomInit ==
    /\ present = {}
    /\ address = <<>>
    /\ before = {}
    /\ host = NoPeer
    /\ cap = 0

\* Some peers go, by leaving, by a kick, or because they fell silent.  The rule
\* of succession applies; the room of nobody is nobody's.  Who stays keeps its
\* address.
Depart(gone) ==
    LET staying == present \ gone IN
    /\ gone # {}
    /\ present' = staying
    /\ address' = [p \in staying |-> address[p]]
    /\ before' = before \cap (staying \X staying)
    /\ host' = IF staying = {} THEN NoPeer ELSE First(staying, before')
    /\ cap' = IF staying = {} THEN 0 ELSE cap

\* A peer comes, if there is room for it, and gets an address that nobody has.
\* The first one founds the room: it brings a capacity and is the host.
Come(p, a) ==
    /\ p \notin present
    /\ \A q \in present : address[q] # a
    /\ present' = present \cup {p}
    /\ address' = [q \in present' |-> IF q = p THEN a ELSE address[q]]
    /\ before' = before \cup (present \X {p})
    /\ IF present = {} THEN host' = p /\ cap' \in Caps
                       ELSE UNCHANGED <<host, cap>>
    /\ Cardinality(present') <= cap'

RoomNext ==
    \/ \E gone \in SUBSET present : Depart(gone)
    \/ \E p \in Peers, a \in Addresses : Come(p, a)

RoomSpec == RoomInit /\ [][RoomNext]_roomVars

=============================================================================
