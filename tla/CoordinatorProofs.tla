------------------------- MODULE CoordinatorProofs -------------------------
(***************************************************************************)
(* Proofs about Coordinator, for any peers, tokens, address range, limits  *)
(* and number of requests in flight.  Part 1 shows that each helper of the *)
(* object takes a sound room to a sound room; part 2 that the handlers,    *)
(* interleaved at their awaits, keep the room sound.                       *)
(***************************************************************************)
EXTENDS Coordinator, FiniteSetTheorems, TLAPS

-----------------------------------------------------------------------------
(* Arithmetic *)

LessThan == {pair \in Nat \X Nat : pair[1] < pair[2]}

\* A non-empty set of natural numbers has a least element.
LEMMA NatMinimum ==
  ASSUME NEW T \in SUBSET Nat, T # {}
  PROVE  \E x \in T : \A y \in T : x <= y
<1>1. IsWellFoundedOn(LessThan, Nat)
  BY NatLessThanWellFounded, Zenon DEF OpToRel, LessThan
<1>2. PICK x \in T : \A y \in T : ~ (<<y, x>> \in LessThan)
  BY <1>1, WFMin
<1>3. ASSUME NEW y \in T PROVE x <= y
  <2>1. <<y, x>> \notin LessThan /\ x \in Nat /\ y \in Nat
    BY <1>2
  <2>2. ~ (y < x)
    BY <2>1 DEF LessThan
  <2> QED BY <2>1, <2>2
<1> QED BY <1>3

\* The caps admit at least two members and no more than there are addresses.
LEMMA CapBounds ==
  /\ GlobalCap \in Nat /\ CommunityCap \in Nat
  /\ 2 <= GlobalCap /\ GlobalCap <= AddressCount
  /\ 2 <= CommunityCap /\ CommunityCap <= AddressCount
  BY OctetAssumption, LimitAssumption
     DEF GlobalCap, CommunityCap, AddressCount, AtMost, AtLeast2

\* There are as many octets as AddressCount says.
LEMMA OctetCount == IsFiniteSet(Octets) /\ Cardinality(Octets) = AddressCount
  BY FS_Interval, OctetAssumption DEF Octets, AddressCount

-----------------------------------------------------------------------------
(* Part 1: the helpers *)

\* promoteHost finds the member that came before all others.
LEMMA EldestIsFirst ==
  ASSUME NEW rm, IsRoom(rm), Dated(rm), NEW S, S \subseteq Joined(rm), S # {}
  PROVE  /\ Eldest(rm, S) \in S
         /\ \A q \in S \ {Eldest(rm, S)} :
               rm.members[Eldest(rm, S)].joinedAt < rm.members[q].joinedAt
<1> DEFINE times == {rm.members[p].joinedAt : p \in S}
           IsEldest(p) == \A q \in S :
                             rm.members[p].joinedAt <= rm.members[q].joinedAt
<1>1. \A p \in S : rm.members[p].joinedAt \in Nat
  BY DEF IsRoom, IsPartial, Joined, Member
<1>2. PICK x \in times : \A y \in times : x <= y
  <2>1. times \in SUBSET Nat /\ times # {}
    BY <1>1
  <2> HIDE DEF times
  <2> QED BY <2>1, NatMinimum
<1>3. \E p \in S : IsEldest(p)
  BY <1>2
<1>4. Eldest(rm, S) \in S /\ IsEldest(Eldest(rm, S))
  BY <1>3 DEF Eldest
<1>5. ASSUME NEW q \in S \ {Eldest(rm, S)}
      PROVE  rm.members[Eldest(rm, S)].joinedAt < rm.members[q].joinedAt
  <2>1. rm.members[Eldest(rm, S)].joinedAt # rm.members[q].joinedAt
    BY <1>4, <1>5 DEF Dated
  <2> QED BY <1>1, <1>4, <1>5, <2>1
<1> QED BY <1>4, <1>5

\* A sound room has finitely many members.
LEMMA JoinedFinite ==
  ASSUME NEW rm, IsRoom(rm)
  PROVE  IsFiniteSet(Joined(rm)) /\ Cardinality(Joined(rm)) \in Nat
  BY FinitePeersAssumption, FS_Subset, FS_CardinalityType
     DEF IsRoom, IsPartial, PeerSets, Joined

\* A new Durable Object holds a sound room.
LEMMA NewRoomInv == RoomInv(NewRoom)
<1>1. Joined(NewRoom) = {}
  BY DEF NewRoom, Joined
<1>2. IsPartial(NewRoom.members, Member)
  BY DEF NewRoom, IsPartial, PeerSets
<1>3. NewRoom \in Fields(NewRoom.members)
  BY DEF NewRoom, Fields, OctetSets, EditionOrNone, PeerOrNone, PeerSets
<1>4. NewRoom.usedOct = {}
  BY DEF NewRoom
<1>5. Forgetful(NewRoom)
  BY DEF NewRoom, Forgetful
<1> QED
  BY <1>1, <1>2, <1>3, <1>4, <1>5
     DEF RoomInv, IsRoom, Addressed, Hosted, Capped, Dated

\* A helper that keeps who is in, since when and at which address keeps the room
\* sound, whatever it does to tokens, mail, freshness and, forwards, the version.
LEMMA SameRoster ==
  ASSUME NEW rm, RoomInv(rm), NEW new, IsRoom(new),
         Joined(new) = Joined(rm),
         \A p \in Joined(rm) : /\ new.members[p].octet = rm.members[p].octet
                               /\ new.members[p].joinedAt = rm.members[p].joinedAt,
         new.usedOct = rm.usedOct, new.roomEdition = rm.roomEdition,
         new.memberCap = rm.memberCap, new.hostPeerID = rm.hostPeerID,
         new.banned = rm.banned, new.version >= rm.version
  PROVE  RoomInv(new)
<1>1. \A p \in Joined(rm) : rm.members[p].joinedAt \in Nat
  BY DEF RoomInv, IsRoom, IsPartial, Member, Joined
<1>2. rm.version \in Nat /\ new.version \in Nat
  BY DEF RoomInv, IsRoom, Fields
<1>3. Dated(new)
  BY <1>1, <1>2 DEF RoomInv, Dated
<1>4. {rm.members[p].octet : p \in Joined(rm)}
        = {new.members[p].octet : p \in Joined(new)}
  OBVIOUS
<1>5. Addressed(new)
  BY <1>4 DEF RoomInv, Addressed
<1>6. Hosted(new)
  BY DEF RoomInv, Hosted
<1>7. Capped(new)
  BY DEF RoomInv, Capped
<1>8. Forgetful(new)
  BY DEF RoomInv, Forgetful
<1> QED
  BY <1>3, <1>5, <1>6, <1>7, <1>8 DEF RoomInv

\* bump disturbs nothing but the version.
LEMMA BumpInv ==
  ASSUME NEW rm, RoomInv(rm)
  PROVE  /\ RoomInv(Bump(rm))
         /\ Joined(Bump(rm)) = Joined(rm)
         /\ Bump(rm).version = rm.version + 1
         /\ Bump(rm).members = rm.members
         /\ Bump(rm).memberCap = rm.memberCap
         /\ Bump(rm).hostPeerID = rm.hostPeerID
<1> DEFINE new == Bump(rm)
<1>1. /\ new.members = rm.members /\ new.usedOct = rm.usedOct
      /\ new.version = rm.version + 1 /\ new.roomEdition = rm.roomEdition
      /\ new.memberCap = rm.memberCap /\ new.hostPeerID = rm.hostPeerID
      /\ new.banned = rm.banned
      /\ rm.version \in Nat
      /\ new \in Fields(rm.members)
  BY DEF RoomInv, IsRoom, Fields, Bump
<1> HIDE DEF new
<1>2. Joined(new) = Joined(rm) /\ IsRoom(new)
  BY <1>1 DEF Joined, RoomInv, IsRoom
<1>3. RoomInv(new)
  BY <1>1, <1>2, SameRoster
<1> QED
  BY <1>1, <1>2, <1>3 DEF new

\* A helper that only rewrites one member's mail, token or freshness.
LEMMA MemberUpdateInv ==
  ASSUME NEW rm, RoomInv(rm), NEW p \in Joined(rm), NEW m \in Member,
         m.octet = rm.members[p].octet, m.joinedAt = rm.members[p].joinedAt
  PROVE  LET new == [rm EXCEPT !.members[p] = m] IN
         /\ RoomInv(new)
         /\ Joined(new) = Joined(rm)
         /\ new.version = rm.version
         /\ new.hostPeerID = rm.hostPeerID
         /\ new.memberCap = rm.memberCap
         /\ new.banned = rm.banned
         /\ \A q \in Joined(rm) :
               new.members[q] = IF q = p THEN m ELSE rm.members[q]
<1> DEFINE new == [rm EXCEPT !.members[p] = m]
           members == [rm.members EXCEPT ![p] = m]
<1>1. /\ new.members = members /\ new.usedOct = rm.usedOct
      /\ new.version = rm.version /\ new.roomEdition = rm.roomEdition
      /\ new.memberCap = rm.memberCap /\ new.hostPeerID = rm.hostPeerID
      /\ new.banned = rm.banned
      /\ rm.version \in Nat
      /\ new \in Fields(members)
  <2> HIDE DEF members
  <2>1. new = [rm EXCEPT !.members = members]
    BY DEF RoomInv, IsRoom, Fields, members
  <2> HIDE DEF new
  <2> QED BY <2>1 DEF RoomInv, IsRoom, Fields
<1> HIDE DEF new
<1>2. /\ DOMAIN members = Joined(rm)
      /\ IsPartial(members, Member)
      /\ \A q \in Joined(rm) : members[q] = IF q = p THEN m ELSE rm.members[q]
  BY DEF RoomInv, IsRoom, IsPartial, Joined
<1> HIDE DEF members
<1>3. Joined(new) = Joined(rm) /\ IsRoom(new)
  BY <1>1, <1>2 DEF Joined, IsRoom
<1>4. \A q \in Joined(rm) : /\ new.members[q].octet = rm.members[q].octet
                            /\ new.members[q].joinedAt = rm.members[q].joinedAt
  BY <1>1, <1>2
<1>5. RoomInv(new)
  BY <1>1, <1>3, <1>4, SameRoster
<1> QED
  BY <1>1, <1>2, <1>3, <1>5 DEF new

\* What removeMember leaves when somebody stays.
LEMMA ShrunkInv ==
  ASSUME NEW rm, RoomInv(rm), NEW left, left \subseteq Joined(rm), left # {},
         NEW new, new \in Fields(new.members),
         new.members = [p \in left |-> rm.members[p]],
         new.usedOct = rm.usedOct \ OctetsOf(rm, Joined(rm) \ left),
         new.version = rm.version, new.roomEdition = rm.roomEdition,
         new.memberCap = rm.memberCap,
         new.hostPeerID = IF rm.hostPeerID \in left THEN rm.hostPeerID
                                                    ELSE Eldest(rm, left)
  PROVE  RoomInv(new)
<1>1. Joined(new) = left /\ \A p \in left : new.members[p] = rm.members[p]
  BY DEF Joined
<1>2. IsRoom(new)
  BY <1>1 DEF RoomInv, IsRoom, IsPartial, PeerSets, Joined
<1>3. Addressed(new)
  <2>1. new.usedOct = {rm.members[p].octet : p \in left}
    BY DEF RoomInv, Addressed, OctetsOf
  <2>2. {rm.members[p].octet : p \in left} = {new.members[p].octet : p \in left}
    BY <1>1
  <2> QED BY <1>1, <2>1, <2>2 DEF RoomInv, Addressed
<1>4. Dated(new)
  BY <1>1 DEF RoomInv, Dated
<1>5. Hosted(new)
  <2>1. CASE rm.hostPeerID \in left
    BY <1>1, <2>1 DEF RoomInv, Hosted
  <2>2. CASE rm.hostPeerID \notin left
    <3>1. /\ Eldest(rm, left) \in left
          /\ \A q \in left \ {Eldest(rm, left)} :
               rm.members[Eldest(rm, left)].joinedAt < rm.members[q].joinedAt
      BY EldestIsFirst DEF RoomInv
    <3> QED BY <1>1, <2>2, <3>1 DEF Hosted
  <2> QED BY <2>1, <2>2
<1>6. Capped(new)
  <2>1. Cardinality(left) <= Cardinality(Joined(rm)) /\ Cardinality(left) \in Nat
        /\ Cardinality(Joined(rm)) \in Nat
    BY JoinedFinite, FS_Subset, FS_CardinalityType DEF RoomInv
  <2>2. rm.memberCap \in Nat
    BY DEF RoomInv, IsRoom, Fields
  <2>3. Joined(rm) # {}
    OBVIOUS
  <2> QED BY <1>1, <2>1, <2>2, <2>3 DEF RoomInv, Capped
<1>7. Forgetful(new)
  BY <1>1 DEF Forgetful
<1> QED
  BY <1>2, <1>3, <1>4, <1>5, <1>6, <1>7 DEF RoomInv

\* A room that nobody is left in is reset.
LEMMA ResetInv ==
  ASSUME NEW rm, rm \in Fields(rm.members), rm.members = [p \in {} |-> 0]
  PROVE  RoomInv(ResetRoom(rm)) /\ Joined(ResetRoom(rm)) = {}
         /\ ResetRoom(rm).version = rm.version
<1> DEFINE new == ResetRoom(rm)
<1>1. {} \in OctetSets /\ "" \in EditionOrNone /\ 0 \in Nat
      /\ NoPeer \in PeerOrNone /\ {} \in PeerSets
  BY DEF OctetSets, EditionOrNone, PeerOrNone, PeerSets
<1>2. /\ new.members = rm.members /\ new.usedOct = {} /\ new.roomEdition = ""
      /\ new.memberCap = 0 /\ new.hostPeerID = NoPeer /\ new.banned = {}
      /\ new.version = rm.version
      /\ new \in Fields(new.members)
  BY <1>1 DEF ResetRoom, Fields
<1> HIDE DEF new
<1>3. Joined(new) = {} /\ IsPartial(new.members, Member)
  BY <1>1, <1>2 DEF Joined, IsPartial
<1>4. RoomInv(new)
  <2>1. IsRoom(new)
    BY <1>2, <1>3 DEF IsRoom
  <2>2. Addressed(new)
    BY <1>2, <1>3 DEF Addressed
  <2>3. Hosted(new) /\ Capped(new) /\ Dated(new)
    BY <1>3 DEF Hosted, Capped, Dated
  <2>4. Forgetful(new)
    BY <1>2 DEF Forgetful
  <2> QED BY <2>1, <2>2, <2>3, <2>4 DEF RoomInv
<1> QED
  BY <1>2, <1>3, <1>4 DEF new

\* removeMember and the loop of reap keep the room sound.
LEMMA RemoveMembersInv ==
  ASSUME NEW rm, RoomInv(rm), NEW S, NEW bans \in SUBSET Peers
  PROVE  LET new == RemoveMembers(rm, S, bans) IN
         /\ RoomInv(new)
         /\ Joined(new) = Joined(rm) \ S
         /\ new.version = rm.version
         /\ \A p \in Joined(new) : new.members[p] = rm.members[p]
         /\ Joined(new) # {} => new.memberCap = rm.memberCap
<1> DEFINE new == RemoveMembers(rm, S, bans)
           gone == S \cap Joined(rm)
           left == Joined(rm) \ S
           removed == [rm EXCEPT !.members = [p \in left |-> rm.members[p]],
                                 !.usedOct = @ \ OctetsOf(rm, gone),
                                 !.banned = @ \cup bans]
<1>1. CASE gone = {}
  BY <1>1 DEF RemoveMembers
<1>2. ASSUME gone # {}
      PROVE  /\ removed.members = [p \in left |-> rm.members[p]]
             /\ removed.usedOct = rm.usedOct \ OctetsOf(rm, gone)
             /\ removed.banned = rm.banned \cup bans
             /\ removed.version = rm.version
             /\ removed.roomEdition = rm.roomEdition
             /\ removed.memberCap = rm.memberCap
             /\ removed.hostPeerID = rm.hostPeerID
             /\ removed \in Fields(removed.members)
  <2>1. /\ rm \in Fields(rm.members)
        /\ rm.usedOct \ OctetsOf(rm, gone) \in OctetSets
        /\ rm.banned \cup bans \in PeerSets
    BY DEF RoomInv, IsRoom, Fields, OctetSets, PeerSets
  <2> DEFINE ms == [p \in left |-> rm.members[p]]
             us == rm.usedOct \ OctetsOf(rm, gone)
             bs == rm.banned \cup bans
  <2>2. removed = [rm EXCEPT !.members = ms, !.usedOct = us, !.banned = bs]
    OBVIOUS
  <2>3. us \in OctetSets /\ bs \in PeerSets
    BY <2>1
  <2> HIDE DEF removed, ms, us, bs
  <2>4. /\ removed.members = ms /\ removed.usedOct = us /\ removed.banned = bs
        /\ removed.version = rm.version
        /\ removed.roomEdition = rm.roomEdition
        /\ removed.memberCap = rm.memberCap
        /\ removed.hostPeerID = rm.hostPeerID
        /\ removed \in Fields(removed.members)
    BY <2>1, <2>2, <2>3 DEF Fields
  <2> QED BY <2>4 DEF ms, us, bs
<1>3. CASE gone # {} /\ left = {}
  <2>1. new = ResetRoom(removed)
    BY <1>3 DEF RemoveMembers
  <2>2. removed.members = [p \in {} |-> 0]
    <3>1. [p \in left |-> rm.members[p]] = [p \in {} |-> 0]
      BY <1>3
    <3> HIDE DEF left, removed
    <3> QED BY <1>2, <1>3, <3>1
  <2> HIDE DEF removed
  <2> QED BY <1>2, <1>3, <2>1, <2>2, ResetInv
<1>4. CASE gone # {} /\ left # {}
  <2> DEFINE host == IF rm.hostPeerID \in gone THEN Eldest(removed, left)
                                               ELSE rm.hostPeerID
  <2>1. new = [removed EXCEPT !.hostPeerID = host]
    BY <1>2, <1>4 DEF RemoveMembers
  <2>2. Eldest(removed, left) = Eldest(rm, left)
    <3>1. \A p \in left : removed.members[p] = rm.members[p]
      BY <1>2, <1>4
    <3> HIDE DEF removed, left
    <3> QED BY <3>1 DEF Eldest
  <2>3. rm.hostPeerID \in Joined(rm)
    BY <1>4 DEF RoomInv, Hosted
  <2>4. host = IF rm.hostPeerID \in left THEN rm.hostPeerID ELSE Eldest(rm, left)
    BY <2>2, <2>3
  <2>5. host \in PeerOrNone
    <3>1. Eldest(rm, left) \in left
      BY <1>4, EldestIsFirst DEF RoomInv
    <3> QED BY <2>3, <2>4, <3>1 DEF RoomInv, IsRoom, IsPartial, PeerSets, Joined, PeerOrNone
  <2> HIDE DEF removed, host, new
  <2>6. /\ new.members = removed.members /\ new.usedOct = removed.usedOct
        /\ new.version = removed.version
        /\ new.roomEdition = removed.roomEdition
        /\ new.memberCap = removed.memberCap /\ new.hostPeerID = host
        /\ new \in Fields(new.members)
    BY <1>2, <1>4, <2>1, <2>5 DEF Fields
  <2>7. gone = Joined(rm) \ left
    OBVIOUS
  <2>8. /\ left \subseteq Joined(rm) /\ left # {}
        /\ new.members = [p \in left |-> rm.members[p]]
        /\ new.usedOct = rm.usedOct \ OctetsOf(rm, Joined(rm) \ left)
        /\ new.version = rm.version /\ new.roomEdition = rm.roomEdition
        /\ new.memberCap = rm.memberCap
    BY <1>2, <1>4, <2>6, <2>7
  <2> HIDE DEF left, gone
  <2>9. RoomInv(new)
    BY <2>4, <2>6, <2>8, ShrunkInv
  <2>10. Joined(new) = left
    BY <2>8 DEF Joined
  <2> QED BY <2>8, <2>9, <2>10 DEF new, left
<1> QED
  BY <1>1, <1>3, <1>4

\* reap keeps the room sound and advances the version if it removed anybody.
LEMMA ReapInv ==
  ASSUME NEW rm, RoomInv(rm)
  PROVE  /\ RoomInv(Reap(rm))
         /\ Joined(Reap(rm)) = Joined(rm) \ Stale(rm)
         /\ Reap(rm).version \in {rm.version, rm.version + 1}
  BY RemoveMembersInv, BumpInv DEF Reap, Stale

\* The first free octet is free.
LEMMA LowestFreeIsFree ==
  ASSUME NEW rm, FreeOctets(rm) # {}
  PROVE  LowestFree(rm) \in FreeOctets(rm)
<1>1. FreeOctets(rm) \in SUBSET Nat
  BY OctetAssumption DEF FreeOctets, Octets
<1> QED
  BY <1>1, NatMinimum DEF LowestFree

\* While the room is not full there is a free address.
LEMMA RoomForOne ==
  ASSUME NEW rm, RoomInv(rm), Cardinality(Joined(rm)) < AddressCount
  PROVE  FreeOctets(rm) # {}
<1> DEFINE octetOf == [p \in Joined(rm) |-> rm.members[p].octet]
<1>1. octetOf \in Surjection(Joined(rm), rm.usedOct)
  BY DEF RoomInv, Addressed, Surjection
<1>2. /\ IsFiniteSet(Joined(rm)) /\ Cardinality(Joined(rm)) \in Nat
  BY JoinedFinite DEF RoomInv
<1>3. IsFiniteSet(rm.usedOct) /\ Cardinality(rm.usedOct) <= Cardinality(Joined(rm))
  BY <1>1, <1>2, FS_Surjection
<1>4. Cardinality(rm.usedOct) \in Nat
  BY <1>3, FS_CardinalityType
<1>5. rm.usedOct # Octets
  BY <1>2, <1>3, <1>4, OctetCount, CapBounds
<1>6. rm.usedOct \subseteq Octets
  BY DEF RoomInv, IsRoom, Fields, OctetSets
<1> QED
  BY <1>5, <1>6 DEF FreeOctets

\* The founder's step: everything but the membership is set for the newcomer.
LEMMA FoundFields ==
  ASSUME NEW rm, RoomInv(rm), NEW p \in Peers, NEW edition \in Editions
  PROVE  LET new == Found(rm, p, edition) IN
         /\ new.members = rm.members /\ new.usedOct = rm.usedOct
         /\ new.version = rm.version
         /\ new \in Fields(new.members)
         /\ Joined(rm) # {} => new = rm
         /\ Joined(rm) = {} =>
               /\ new.roomEdition = edition
               /\ new.memberCap = IF edition = "supporter" THEN GlobalCap
                                                           ELSE CommunityCap
               /\ new.hostPeerID = p
<1>1. CASE Joined(rm) # {}
  <2>1. rm.memberCap # 0
    BY <1>1, CapBounds DEF RoomInv, Capped
  <2> QED
    BY <1>1, <2>1 DEF Found, RoomInv, IsRoom
<1>2. CASE Joined(rm) = {}
  <2> DEFINE cap == IF edition = "supporter" THEN GlobalCap ELSE CommunityCap
             new == Found(rm, p, edition)
  <2>1. new = [rm EXCEPT !.roomEdition = edition, !.memberCap = cap,
                         !.hostPeerID = p, !.banned = {}]
    BY <1>2 DEF Found
  <2>2. edition \in EditionOrNone /\ cap \in Nat /\ p \in PeerOrNone
        /\ {} \in PeerSets
    BY CapBounds DEF EditionOrNone, PeerOrNone, PeerSets
  <2>3. rm \in Fields(rm.members)
    BY DEF RoomInv, IsRoom
  <2> HIDE DEF cap, new
  <2>4. /\ new.members = rm.members /\ new.usedOct = rm.usedOct
        /\ new.version = rm.version /\ new.roomEdition = edition
        /\ new.memberCap = cap /\ new.hostPeerID = p
        /\ new \in Fields(new.members)
    BY <2>1, <2>2, <2>3 DEF Fields
  <2> QED BY <1>2, <2>4 DEF cap, new
<1> QED
  BY <1>1, <1>2

\* A founded room is full only if it was full before.
LEMMA FullFounded ==
  ASSUME NEW rm, RoomInv(rm), NEW p \in Peers, NEW edition \in Editions,
         Full(Found(rm, p, edition))
  PROVE  Found(rm, p, edition) = rm
<1>1. CASE Joined(rm) # {}
  BY <1>1, FoundFields
<1>2. CASE Joined(rm) = {}
  <2>1. /\ Joined(Found(rm, p, edition)) = {}
        /\ Found(rm, p, edition).memberCap \in {GlobalCap, CommunityCap}
    BY <1>2, FoundFields DEF Joined
  <2> QED
    BY <2>1, CapBounds, FS_EmptySet DEF Full
<1> QED
  BY <1>1, <1>2

\* Admission, after the founder's step, keeps the room sound.
LEMMA AdmitInv ==
  ASSUME NEW rm, RoomInv(rm), NEW p \in Peers, p \notin Joined(rm),
         NEW t \in Credentials, NEW edition \in Editions, NEW name \in Names,
         ~Full(Found(rm, p, edition))
  PROVE  LET new == Admit(Found(rm, p, edition), p, t, name) IN
         /\ RoomInv(new)
         /\ Joined(new) = Joined(rm) \cup {p}
         /\ new.version = rm.version + 1
         /\ \A q \in Joined(rm) : new.members[q] = rm.members[q]
         /\ new.members[p].joinedAt = rm.version
         /\ new.members[p].inbox = <<>>
         /\ Joined(rm) = {} => new.hostPeerID = p
         /\ Joined(rm) # {} => /\ new.hostPeerID = rm.hostPeerID
                               /\ new.memberCap = rm.memberCap
<1> DEFINE founded == Found(rm, p, edition)
           octet == IF FreeOctets(founded) = {} THEN 0 ELSE LowestFree(founded)
           m == [name |-> name, octet |-> octet, token |-> t,
                 joinedAt |-> founded.version, lastSeen |-> "recent", inbox |-> <<>>]
           ms == [q \in Joined(founded) \cup {p} |->
                     IF q = p THEN m ELSE founded.members[q]]
           us == founded.usedOct \cup ({octet} \ {0})
           base == [founded EXCEPT !.members = ms, !.usedOct = us]
           new == Admit(founded, p, t, name)
<1>1. /\ founded.members = rm.members /\ founded.usedOct = rm.usedOct
      /\ founded.version = rm.version
      /\ founded \in Fields(founded.members)
      /\ Joined(rm) # {} => founded = rm
      /\ Joined(rm) = {} =>
            /\ founded.roomEdition = edition
            /\ founded.memberCap = IF edition = "supporter" THEN GlobalCap
                                                            ELSE CommunityCap
            /\ founded.hostPeerID = p
  BY FoundFields
<1>2. Joined(founded) = Joined(rm)
  BY <1>1 DEF Joined
<1>3. IsFiniteSet(Joined(rm)) /\ Cardinality(Joined(rm)) \in Nat
  BY JoinedFinite DEF RoomInv
<1>4. /\ founded.roomEdition \in Editions
      /\ founded.memberCap = IF founded.roomEdition = "supporter"
                             THEN GlobalCap ELSE CommunityCap
      /\ founded.memberCap \in Nat /\ founded.memberCap <= AddressCount
  <2>1. CASE Joined(rm) = {}
    BY <1>1, <2>1, CapBounds
  <2>2. CASE Joined(rm) # {}
    BY <1>1, <2>2, CapBounds DEF RoomInv, Capped
  <2> QED BY <2>1, <2>2
<1>5. Cardinality(Joined(rm)) < founded.memberCap
  BY <1>2, <1>3, <1>4 DEF Full
<1>6. /\ octet \in Octets \ rm.usedOct /\ octet # 0
      /\ us = rm.usedOct \cup {octet}
  <2>1. Cardinality(Joined(rm)) < AddressCount
    BY <1>3, <1>4, <1>5, CapBounds, OctetAssumption DEF AddressCount
  <2>2. FreeOctets(founded) = FreeOctets(rm)
    BY <1>1 DEF FreeOctets
  <2>3. FreeOctets(founded) # {}
    BY <2>1, <2>2, RoomForOne
  <2>4. octet \in Octets \ rm.usedOct
    BY <2>2, <2>3, LowestFreeIsFree DEF FreeOctets
  <2>5. octet # 0
    BY <2>4, OctetAssumption DEF Octets
  <2> QED BY <1>1, <2>4, <2>5
<1>7. rm.version \in Nat
  BY DEF RoomInv, IsRoom, Fields
<1>8. /\ m \in Member /\ m.octet = octet /\ m.joinedAt = rm.version
      /\ m.inbox = <<>>
  BY <1>1, <1>6, <1>7 DEF Member, OctetOrNone, Mail
<1>9. /\ DOMAIN ms = Joined(rm) \cup {p}
      /\ ms[p] = m
      /\ \A q \in Joined(rm) : ms[q] = rm.members[q]
  BY <1>1, <1>2
<1>10. new = [base EXCEPT !.version = @ + 1]
  BY DEF Admit, Bump
<1>11. us \in OctetSets
  BY <1>6 DEF RoomInv, IsRoom, Fields, OctetSets
<1> HIDE DEF m, octet, us, ms, founded, new
<1>12. /\ new.members = ms /\ new.usedOct = us /\ new.version = rm.version + 1
       /\ new.roomEdition = founded.roomEdition
       /\ new.memberCap = founded.memberCap
       /\ new.hostPeerID = founded.hostPeerID
       /\ new \in Fields(ms)
  <2>1. /\ base.members = ms /\ base.usedOct = us /\ base.version = rm.version
        /\ base.roomEdition = founded.roomEdition
        /\ base.memberCap = founded.memberCap
        /\ base.hostPeerID = founded.hostPeerID
        /\ base \in Fields(ms)
    BY <1>1, <1>11 DEF Fields
  <2> HIDE DEF base
  <2> QED BY <1>7, <1>10, <2>1 DEF Fields
<1>13. Joined(new) = Joined(rm) \cup {p}
  BY <1>9, <1>12 DEF Joined
<1>14. IsRoom(new)
  <2>1. \A q \in Joined(rm) : ms[q] \in Member
    BY <1>9 DEF RoomInv, IsRoom, IsPartial, Joined
  <2>2. Joined(rm) \cup {p} \in PeerSets
    BY DEF RoomInv, IsRoom, IsPartial, PeerSets, Joined
  <2>3. ms = [q \in Joined(rm) \cup {p} |-> ms[q]]
    BY <1>2 DEF ms
  <2>4. IsPartial(ms, Member)
    BY <1>8, <1>9, <2>1, <2>2, <2>3 DEF IsPartial
  <2> QED BY <1>12, <2>4 DEF IsRoom
<1>15. Addressed(new)
  BY <1>6, <1>8, <1>9, <1>12, <1>13 DEF RoomInv, Addressed
<1>16. \A q \in Joined(rm) : rm.members[q].joinedAt \in Nat
  BY DEF RoomInv, IsRoom, IsPartial, Member, Joined
<1>17. Dated(new)
  BY <1>7, <1>8, <1>9, <1>12, <1>13, <1>16 DEF RoomInv, Dated
<1>18. Hosted(new)
  <2>1. CASE Joined(rm) = {}
    BY <1>1, <1>12, <1>13, <2>1 DEF Hosted
  <2>2. CASE Joined(rm) # {}
    <3>1. /\ rm.hostPeerID \in Joined(rm)
          /\ rm.members[rm.hostPeerID].joinedAt < rm.version
      BY <2>2 DEF RoomInv, Hosted, Dated
    <3>2. new.hostPeerID = rm.hostPeerID
      BY <1>1, <1>12, <2>2
    <3> QED BY <1>8, <1>9, <1>12, <1>13, <2>2, <3>1, <3>2 DEF RoomInv, Hosted
  <2> QED BY <2>1, <2>2
<1>19. Capped(new)
  <2>1. Cardinality(Joined(new)) = Cardinality(Joined(rm)) + 1
    BY <1>3, <1>13, FS_AddElement
  <2> QED BY <1>3, <1>4, <1>5, <1>12, <2>1 DEF Capped
<1>20. Forgetful(new)
  BY <1>13 DEF Forgetful
<1>21. RoomInv(new)
  BY <1>14, <1>15, <1>17, <1>18, <1>19, <1>20 DEF RoomInv
<1>22. /\ Joined(rm) = {} => new.hostPeerID = p
       /\ Joined(rm) # {} => /\ new.hostPeerID = rm.hostPeerID
                             /\ new.memberCap = rm.memberCap
  BY <1>1, <1>12
<1> QED
  BY <1>8, <1>9, <1>12, <1>13, <1>21, <1>22 DEF new, founded

-----------------------------------------------------------------------------
(* Part 2: the handlers *)

\* The roster is the same, mail is at most handed over, and nobody lapses.
Quiet(old, new) ==
    /\ Joined(new) = Joined(old)
    /\ new.hostPeerID = old.hostPeerID
    /\ \A p \in Joined(old) :
         /\ new.members[p].octet = old.members[p].octet
         /\ new.members[p].joinedAt = old.members[p].joinedAt
         /\ new.members[p].inbox \in {<<>>, old.members[p].inbox}
         /\ new.members[p].lastSeen \in {"recent", old.members[p].lastSeen}

\* How a segment of a handler may change the room: the version advances, or
\* nothing happens that anybody would have to be told.
Advance(old, new) ==
    \/ new.version > old.version
    \/ new.version = old.version /\ Quiet(old, new)

\* Advances compose, as the helpers within one segment do.
LEMMA AdvanceTransitive ==
  ASSUME NEW a, NEW b, NEW c, RoomInv(a), RoomInv(b), RoomInv(c),
         Advance(a, b), Advance(b, c)
  PROVE  Advance(a, c)
<1>1. a.version \in Nat /\ b.version \in Nat /\ c.version \in Nat
  BY DEF RoomInv, IsRoom, Fields
<1>2. \/ a.version < c.version
      \/ /\ a.version = c.version
         /\ Quiet(a, b)
         /\ Quiet(b, c)
  <2> HIDE DEF Quiet
  <2> QED BY <1>1 DEF Advance
<1>3. Quiet(a, b) /\ Quiet(b, c) => Quiet(a, c)
  BY DEF Quiet
<1> QED
  BY <1>1, <1>2, <1>3 DEF Advance

\* reap is a way to advance.
LEMMA ReapAdvances ==
  ASSUME NEW rm, RoomInv(rm)
  PROVE  Advance(rm, Reap(rm))
<1>1. rm.version \in Nat
  BY DEF RoomInv, IsRoom, Fields
<1>2. CASE Stale(rm) = {}
  BY <1>1, <1>2 DEF Reap, Advance, Quiet
<1>3. CASE Stale(rm) # {}
  <2>1. Reap(rm).version = rm.version + 1
    BY <1>3, RemoveMembersInv, BumpInv DEF Reap
  <2> QED BY <1>1, <2>1 DEF Advance
<1> QED
  BY <1>2, <1>3

\* Members keep their types.
LEMMA MemberType ==
  ASSUME NEW rm, RoomInv(rm), NEW p \in Joined(rm)
  PROVE  /\ p \in Peers
         /\ rm.members[p] \in Member
  BY DEF RoomInv, IsRoom, IsPartial, PeerSets, Joined

\* Setting lastSeen changes one member's freshness.
LEMMA LastSeenInv ==
  ASSUME NEW rm, RoomInv(rm), NEW p \in Joined(rm), NEW seen \in {"recent", "stale"}
  PROVE  LET new == SetLastSeen(rm, p, seen) IN
         /\ RoomInv(new)
         /\ Joined(new) = Joined(rm)
         /\ new.version = rm.version
         /\ new.hostPeerID = rm.hostPeerID
         /\ new.memberCap = rm.memberCap
         /\ new.banned = rm.banned
         /\ new.members[p].lastSeen = seen
         /\ \A q \in Joined(rm) \ {p} : new.members[q] = rm.members[q]
         /\ new.members[p].octet = rm.members[p].octet
         /\ new.members[p].joinedAt = rm.members[p].joinedAt
         /\ new.members[p].inbox = rm.members[p].inbox
<1> DEFINE m == [rm.members[p] EXCEPT !.lastSeen = seen]
           new == SetLastSeen(rm, p, seen)
<1>1. rm.members[p] \in Member
  BY MemberType
<1>2. /\ m \in Member
      /\ m.octet = rm.members[p].octet /\ m.joinedAt = rm.members[p].joinedAt
      /\ m.lastSeen = seen /\ m.inbox = rm.members[p].inbox
  BY <1>1 DEF Member
<1>3. new = [rm EXCEPT !.members[p] = m]
  BY DEF SetLastSeen
<1> HIDE DEF m, new
<1> QED
  BY <1>2, <1>3, MemberUpdateInv DEF new

\* Replacing the mail of one member.
LEMMA InboxInv ==
  ASSUME NEW rm, RoomInv(rm), NEW p \in Joined(rm), NEW inbox \in Mail
  PROVE  LET new == SetInbox(rm, p, inbox) IN
         /\ RoomInv(new)
         /\ Joined(new) = Joined(rm)
         /\ new.version = rm.version
         /\ new.hostPeerID = rm.hostPeerID
         /\ new.memberCap = rm.memberCap
         /\ new.banned = rm.banned
         /\ new.members[p].inbox = inbox
         /\ \A q \in Joined(rm) \ {p} : new.members[q] = rm.members[q]
         /\ new.members[p].octet = rm.members[p].octet
         /\ new.members[p].joinedAt = rm.members[p].joinedAt
         /\ new.members[p].lastSeen = rm.members[p].lastSeen
<1> DEFINE m == [rm.members[p] EXCEPT !.inbox = inbox]
           new == SetInbox(rm, p, inbox)
<1>1. rm.members[p] \in Member
  BY MemberType
<1>2. /\ m \in Member
      /\ m.octet = rm.members[p].octet /\ m.joinedAt = rm.members[p].joinedAt
      /\ m.lastSeen = rm.members[p].lastSeen /\ m.inbox = inbox
  BY <1>1 DEF Member
<1>3. new = [rm EXCEPT !.members[p] = m]
  BY DEF SetInbox
<1> HIDE DEF m, new
<1> QED
  BY <1>2, <1>3, MemberUpdateInv DEF new

\* A member takes another name.
LEMMA NameInv ==
  ASSUME NEW rm, RoomInv(rm), NEW p \in Joined(rm), NEW name \in Names
  PROVE  LET new == SetName(rm, p, name) IN
         /\ RoomInv(new)
         /\ Joined(new) = Joined(rm)
         /\ new.version = rm.version
         /\ new.hostPeerID = rm.hostPeerID
         /\ new.memberCap = rm.memberCap
         /\ new.banned = rm.banned
         /\ \A q \in Joined(rm) \ {p} : new.members[q] = rm.members[q]
         /\ new.members[p].octet = rm.members[p].octet
         /\ new.members[p].joinedAt = rm.members[p].joinedAt
         /\ new.members[p].inbox = rm.members[p].inbox
         /\ new.members[p].lastSeen = rm.members[p].lastSeen
<1> DEFINE m == [rm.members[p] EXCEPT !.name = name]
           new == SetName(rm, p, name)
<1>1. rm.members[p] \in Member
  BY MemberType
<1>2. /\ m \in Member
      /\ m.octet = rm.members[p].octet /\ m.joinedAt = rm.members[p].joinedAt
      /\ m.lastSeen = rm.members[p].lastSeen /\ m.inbox = rm.members[p].inbox
  BY <1>1 DEF Member
<1>3. new = [rm EXCEPT !.members[p] = m]
  BY DEF SetName
<1> HIDE DEF m, new
<1> QED
  BY <1>2, <1>3, MemberUpdateInv DEF new

\* Rooms with the same members at the same addresses and the same host place
\* them alike, whatever the names.
LEMMA SamePlacing ==
  ASSUME NEW a, NEW b, Joined(a) = Joined(b), a.hostPeerID = b.hostPeerID,
         \A p \in Joined(a) : a.members[p].octet = b.members[p].octet
  PROVE  Placing(ViewOf(a)) = Placing(ViewOf(b))
<1> DEFINE At(rm) == [p \in Joined(rm) |-> rm.members[p].octet]
<1>1. ASSUME NEW rm PROVE Placing(ViewOf(rm)) = [at |-> At(rm), hostPeerID |-> rm.hostPeerID]
  BY DEF Placing, ViewOf, Snapshot
<1>2. At(a) = At(b)
  OBVIOUS
<1> HIDE DEF At
<1> QED
  BY <1>1, <1>2

\* What a poll does to the member it speaks for.
LEMMA TouchInv ==
  ASSUME NEW rm, RoomInv(rm), NEW p \in Joined(rm)
  PROVE  /\ RoomInv(Touch(rm, p))
         /\ Advance(rm, Touch(rm, p))
         /\ Joined(Touch(rm, p)) = Joined(rm)
         /\ Touch(rm, p).version = rm.version
         /\ Touch(rm, p).members[p].lastSeen = "recent"
         /\ Touch(rm, p).members[p].inbox = rm.members[p].inbox
         /\ Touch(rm, p).members[p].joinedAt = rm.members[p].joinedAt
<1> DEFINE new == Touch(rm, p)
<1>1. /\ RoomInv(new) /\ Joined(new) = Joined(rm) /\ new.version = rm.version
      /\ new.hostPeerID = rm.hostPeerID
      /\ new.members[p].lastSeen = "recent"
      /\ \A q \in Joined(rm) \ {p} : new.members[q] = rm.members[q]
      /\ new.members[p].octet = rm.members[p].octet
      /\ new.members[p].joinedAt = rm.members[p].joinedAt
      /\ new.members[p].inbox = rm.members[p].inbox
  BY LastSeenInv DEF Touch
<1> HIDE DEF new
<1>2. Advance(rm, new)
  BY <1>1 DEF Advance, Quiet
<1> QED
  BY <1>1, <1>2 DEF new

\* A repeated join may change a name, without a new version.
LEMMA RejoinInv ==
  ASSUME NEW rm, RoomInv(rm), NEW p \in Joined(rm), NEW name \in Names
  PROVE  /\ RoomInv(Rejoin(rm, p, name))
         /\ Advance(rm, Rejoin(rm, p, name))
<1> DEFINE named == SetName(rm, p, name)
<1>1. /\ RoomInv(named) /\ Joined(named) = Joined(rm)
      /\ named.version = rm.version
      /\ named.hostPeerID = rm.hostPeerID
      /\ \A q \in Joined(rm) \ {p} : named.members[q] = rm.members[q]
      /\ named.members[p].octet = rm.members[p].octet
      /\ named.members[p].joinedAt = rm.members[p].joinedAt
      /\ named.members[p].inbox = rm.members[p].inbox
      /\ named.members[p].lastSeen = rm.members[p].lastSeen
  BY NameInv
<1>2. Rejoin(rm, p, name) = Touch(named, p)
  BY DEF Rejoin
<1> HIDE DEF named
<1>3. Advance(rm, named)
  BY <1>1 DEF Advance, Quiet
<1>4. RoomInv(Touch(named, p)) /\ Advance(named, Touch(named, p))
  BY <1>1, TouchInv
<1> QED
  BY <1>1, <1>2, <1>3, <1>4, AdvanceTransitive

\* Handing over a member's mail needs no new version.
LEMMA DrainInv ==
  ASSUME NEW rm, RoomInv(rm), NEW p \in Joined(rm)
  PROVE  /\ RoomInv(Drain(rm, p))
         /\ Advance(rm, Drain(rm, p))
         /\ Joined(Drain(rm, p)) = Joined(rm)
         /\ Drain(rm, p).version = rm.version
         /\ Drain(rm, p).members[p].lastSeen = "recent"
         /\ Drain(rm, p).members[p].inbox = <<>>
         /\ Drain(rm, p).members[p].joinedAt = rm.members[p].joinedAt
<1> DEFINE emptied == SetInbox(rm, p, <<>>)
<1>0. <<>> \in Mail
  BY DEF Mail
<1>1. /\ RoomInv(emptied) /\ Joined(emptied) = Joined(rm)
      /\ emptied.version = rm.version
      /\ emptied.hostPeerID = rm.hostPeerID
      /\ emptied.members[p].inbox = <<>>
      /\ \A q \in Joined(rm) \ {p} : emptied.members[q] = rm.members[q]
      /\ emptied.members[p].octet = rm.members[p].octet
      /\ emptied.members[p].joinedAt = rm.members[p].joinedAt
      /\ emptied.members[p].lastSeen = rm.members[p].lastSeen
  BY <1>0, InboxInv
<1>2. Drain(rm, p) = Touch(emptied, p)
  BY DEF Drain
<1> HIDE DEF emptied
<1>3. Advance(rm, emptied)
  BY <1>1 DEF Advance, Quiet
<1>5. /\ RoomInv(Touch(emptied, p))
      /\ Advance(emptied, Touch(emptied, p))
      /\ Joined(Touch(emptied, p)) = Joined(emptied)
      /\ Touch(emptied, p).version = emptied.version
      /\ Touch(emptied, p).members[p].lastSeen = "recent"
      /\ Touch(emptied, p).members[p].inbox = emptied.members[p].inbox
      /\ Touch(emptied, p).members[p].joinedAt = emptied.members[p].joinedAt
  BY <1>1, TouchInv
<1>6. Advance(rm, Touch(emptied, p))
  BY <1>1, <1>3, <1>5, AdvanceTransitive
<1> QED
  BY <1>1, <1>2, <1>5, <1>6

\* A signal is put in the inbox and announced.
LEMMA PostInv ==
  ASSUME NEW rm, RoomInv(rm), NEW p \in Joined(rm), NEW msg \in Message
  PROVE  /\ RoomInv(Post(rm, p, msg))
         /\ Advance(rm, Post(rm, p, msg))
<1> DEFINE inbox == rm.members[p].inbox
           kept == IF Len(inbox) >= MaxInbox THEN Tail(inbox) ELSE inbox
           posted == SetInbox(rm, p, Append(kept, msg))
<1>1. inbox \in Seq(Message)
  BY MemberType DEF Member, Mail
<1>2. kept \in Seq(Message)
  <2>1. Len(inbox) >= MaxInbox => inbox # <<>>
    BY <1>1, LimitAssumption
  <2>2. inbox # <<>> => Tail(inbox) \in Seq(Message)
    BY <1>1
  <2> QED BY <1>1, <2>1, <2>2
<1>3. Append(kept, msg) \in Mail
  BY <1>2 DEF Mail
<1>4. RoomInv(posted) /\ posted.version = rm.version
  <2> HIDE DEF kept
  <2> QED BY <1>3, InboxInv
<1>5. Post(rm, p, msg) = Bump(posted)
  BY DEF Post
<1>6. rm.version \in Nat
  BY DEF RoomInv, IsRoom, Fields
<1> HIDE DEF posted
<1> QED
  BY <1>4, <1>5, <1>6, BumpInv DEF Advance

\* Views have the type that replies promise.
LEMMA ViewType ==
  ASSUME NEW rm, RoomInv(rm)
  PROVE  /\ IsView(ViewOf(rm))
         /\ ViewOf(rm).version = rm.version
<1>1. Snapshot(rm) \in [Joined(rm) -> Entry]
  BY MemberType DEF Snapshot, Member, Entry
<1>2. Joined(rm) \in PeerSets
  BY DEF RoomInv, IsRoom, IsPartial, Joined
<1>3. rm.version \in Nat /\ rm.hostPeerID \in PeerOrNone
  BY DEF RoomInv, IsRoom, Fields
<1>4. /\ ViewOf(rm).members = Snapshot(rm)
      /\ ViewOf(rm).version = rm.version
      /\ ViewOf(rm) \in [members : {Snapshot(rm)}, version : Nat,
                         hostPeerID : PeerOrNone]
  BY <1>3 DEF ViewOf
<1>5. DOMAIN Snapshot(rm) = Joined(rm)
  BY DEF Snapshot
<1> QED
  BY <1>1, <1>2, <1>4, <1>5 DEF IsView, IsPartial

\* The kinds of requests, with what they hold.
LEMMA RequestKinds ==
  ASSUME NEW q, q \in Pending \/ IsViewed(q)
  PROVE  /\ q.pc = "held" => q \in [pc : {"held"}, peer : Peers, version : Nat]
         /\ q.pc = "pollAuth" =>
              q \in [pc : {"pollAuth"}, peer : Peers, object : Nat, mail : Mail,
                     version : Nat]
         /\ q.pc = "viewed" => IsViewed(q)
         /\ q.pc # "viewed" => q \in Pending
         /\ q.pc = "joinHash" =>
              /\ q.peer \in Peers /\ q.token \in Tokens /\ q.edition \in Editions
              /\ q.name \in Names
         /\ q.pc = "signalAuth" =>
              q.from \in Peers /\ q.to \in Peers /\ q.data \in Data
         /\ q.pc \in {"woken", "leaveAuth"} => q.peer \in Peers
         /\ q.pc = "kickAuth" => q.from \in Peers /\ q.target \in Peers
<1>1. CASE q \in Pending
  BY <1>1 DEF Pending
<1>2. CASE IsViewed(q)
  BY <1>2 DEF IsViewed
<1> QED
  BY <1>1, <1>2

\* Requests that are neither waiting, nor polling, nor replies with a view
\* depend on nothing in the room.
LEMMA PlainRequest ==
  ASSUME NEW q \in Pending, q.pc \notin {"held", "pollAuth"}, NEW rm
  PROVE  RequestInv(q, rm)
<1>1. q.pc # "viewed"
  BY DEF Pending
<1> QED
  BY <1>1 DEF RequestInv, HeldSound, ViewSound, PollSound

\* While one handler runs a segment, the requests it does not serve stay sound:
\* the polls it must wake are woken, the others still know the room's version.
LEMMA NoticeInv ==
  ASSUME NEW q, RoomInv(room), RequestInv(q, room),
         NEW rm, RoomInv(rm), Advance(room, rm)
  PROVE  RequestInv(Notice(q, rm), rm)
<1>0. room.version \in Nat /\ rm.version \in Nat
  BY DEF RoomInv, IsRoom, Fields
<1>1. CASE q.pc = "held" /\ rm.version # room.version
  <2>1. Notice(q, rm) = [pc |-> "woken", peer |-> q.peer]
    BY <1>1 DEF Notice
  <2>2. q.peer \in Peers
    BY <1>1, RequestKinds DEF RequestInv
  <2>3. [pc |-> "woken", peer |-> q.peer] \in Pending
    BY <2>2 DEF Pending
  <2> QED BY <2>1, <2>3, PlainRequest
<1>2. CASE q.pc = "held" /\ rm.version = room.version
  <2>1. Notice(q, rm) = q
    BY <1>2 DEF Notice
  <2>2. HeldSound(q, room)
    BY DEF RequestInv
  <2>3. HeldSound(q, rm)
    BY <1>0, <1>2, <2>2 DEF HeldSound, Advance, Quiet
  <2> QED BY <1>2, <2>1, <2>3 DEF RequestInv, ViewSound, PollSound
<1>3. CASE q.pc = "pollAuth"
  <2>1. /\ q \in [pc : {"pollAuth"}, peer : Peers, object : Nat, mail : Mail,
                  version : Nat]
        /\ PollSound(q, room)
    BY <1>3, RequestKinds DEF RequestInv
  <2>2. q.version <= rm.version /\ (Attached(rm, q) \/ q.version < rm.version)
    <3>1. q.version <= room.version
          /\ (Attached(room, q) \/ q.version < room.version)
      BY <1>3, <2>1 DEF PollSound
    <3>2. CASE rm.version > room.version
      BY <1>0, <2>1, <3>1, <3>2
    <3>3. CASE rm.version = room.version
      <4>1. Attached(room, q) => Attached(rm, q)
        BY <1>0, <3>3 DEF Advance, Quiet, Attached
      <4> QED BY <3>1, <3>3, <4>1
    <3> QED BY <1>0, <3>2, <3>3 DEF Advance
  <2>3. CASE Attached(room, q) /\ ~Attached(rm, q)
    <3> DEFINE mail == room.members[q.peer].inbox
               new == [q EXCEPT !.mail = mail]
    <3>1. Notice(q, rm) = new
      BY <1>3, <2>3 DEF Notice
    <3>2. mail \in Mail
      BY <2>3, MemberType DEF Attached, Member
    <3> HIDE DEF mail
    <3>3. /\ new \in [pc : {"pollAuth"}, peer : Peers, object : Nat, mail : Mail,
                      version : Nat]
          /\ new.pc = "pollAuth" /\ new.peer = q.peer /\ new.object = q.object
          /\ new.version = q.version
      BY <2>1, <3>2
    <3> HIDE DEF new
    <3>4. new \in Pending
      BY <3>3 DEF Pending
    <3>5. PollSound(new, rm)
      BY <2>2, <3>3 DEF PollSound, Attached
    <3> QED BY <3>1, <3>3, <3>4, <3>5 DEF RequestInv, HeldSound, ViewSound
  <2>4. CASE ~(Attached(room, q) /\ ~Attached(rm, q))
    <3>1. Notice(q, rm) = q
      BY <1>3, <2>4 DEF Notice
    <3>2. PollSound(q, rm)
      BY <2>2 DEF PollSound
    <3> QED BY <1>3, <3>1, <3>2 DEF RequestInv, HeldSound, ViewSound
  <2> QED BY <2>3, <2>4
<1>4. CASE q.pc = "viewed"
  <2>1. Notice(q, rm) = q
    BY <1>4 DEF Notice
  <2>2. q.view.version \in Nat
    BY <1>4, RequestKinds DEF RequestInv, IsViewed, IsView
  <2>3. ViewSound(q, room)
    BY DEF RequestInv
  <2>4. rm.version = room.version => Placing(ViewOf(rm)) = Placing(ViewOf(room))
    BY <1>0, SamePlacing DEF Advance, Quiet
  <2>5. ViewSound(q, rm)
    BY <1>0, <1>4, <2>2, <2>3, <2>4 DEF ViewSound, Advance
  <2> QED BY <1>4, <2>1, <2>5 DEF RequestInv, HeldSound, PollSound
<1>5. CASE q.pc \notin {"held", "pollAuth", "viewed"}
  <2>1. Notice(q, rm) = q
    BY <1>5 DEF Notice
  <2>2. q \in Pending
    BY <1>5, RequestKinds DEF RequestInv
  <2> QED BY <1>5, <2>1, <2>2, PlainRequest
<1> QED
  BY <1>1, <1>2, <1>3, <1>4, <1>5

\* What every step does: it preserves the invariant and announces its changes.
Carried == IInv' /\ Announced(room, room')

\* A segment that leaves a sound room and a sound request behind.
LEMMA StepInv ==
  ASSUME IInv, NEW r \in Requests, NEW rm, RoomInv(rm), Advance(room, rm),
         NEW q, RequestInv(q, rm), Step(r, rm, q)
  PROVE  Carried
<1>1. room' = rm
      /\ req' = [s \in Requests |-> IF s = r THEN q ELSE Notice(req[s], rm)]
  BY DEF Step
<1>2. \A s \in Requests : RequestInv(Notice(req[s], rm), rm)
  BY NoticeInv DEF IInv
<1>3. DOMAIN req' = Requests
  BY <1>1
<1>4. \A s \in Requests : RequestInv(req'[s], rm)
  BY <1>1, <1>2
<1>5. RoomInv(room')
  BY <1>1
<1>6. \A s \in Requests : RequestInv(req'[s], room')
  BY <1>1, <1>4
<1>7. IInv'
  BY <1>3, <1>5, <1>6 DEF IInv
<1>8. Announced(room, rm)
  <2>1. room.version \in Nat /\ rm.version \in Nat
    BY DEF IInv, RoomInv, IsRoom, Fields
  <2>2. CASE rm.version > room.version
    BY <2>1, <2>2 DEF Announced
  <2>3. CASE rm.version = room.version
    <3>1. Placing(ViewOf(rm)) = Placing(ViewOf(room))
      BY <2>1, <2>3, SamePlacing DEF Advance, Quiet
    <3> QED BY <2>1, <2>3, <3>1 DEF Advance, Quiet, Announced
  <2> QED BY <2>1, <2>2, <2>3 DEF Advance
<1> QED
  BY <1>1, <1>7, <1>8 DEF Carried

-----------------------------------------------------------------------------
(* The actions.  Each is a segment that leaves the room somewhere sound, and  *)
(* its own request in one of three shapes: plain, viewed, or a poll.          *)

\* A room that a segment leaves alone has advanced.
LEMMA SelfAdvance ==
  ASSUME NEW rm, RoomInv(rm)
  PROVE  Advance(rm, rm)
  BY DEF Advance, Quiet, RoomInv, IsRoom, Fields

\* A segment that ends with a reply, or stops with nothing but its arguments.
LEMMA PlainStep ==
  ASSUME IInv, NEW r \in Requests, NEW rm, RoomInv(rm), Advance(room, rm),
         NEW q \in Pending, q.pc \notin {"held", "pollAuth"}, Step(r, rm, q)
  PROVE  Carried
  BY PlainRequest, StepInv

\* A segment that answers with a status.
LEMMA ReplyStep ==
  ASSUME IInv, NEW r \in Requests, NEW rm, RoomInv(rm), Advance(room, rm),
         NEW status \in Refusals \cup {"ok"}, Step(r, rm, Reply(status))
  PROVE  Carried
<1>1. Reply(status) \in Pending /\ Reply(status).pc = "replied"
  BY DEF Reply, Pending
<1> QED
  BY <1>1, PlainStep

\* A segment that answers with the room it leaves behind.
LEMMA ViewedStep ==
  ASSUME IInv, NEW r \in Requests, NEW rm, RoomInv(rm), Advance(room, rm),
         NEW p \in Peers, NEW mail \in Mail, NEW view, view = ViewOf(rm),
         Step(r, rm, [pc |-> "viewed", peer |-> p, view |-> view, mail |-> mail])
  PROVE  Carried
<1> DEFINE q == [pc |-> "viewed", peer |-> p, view |-> view, mail |-> mail]
<1>1. q.pc = "viewed" /\ q.view = view
      /\ q \in [pc : {"viewed"}, peer : Peers, view : {q.view}, mail : Mail]
  OBVIOUS
<1>2. IsView(view) /\ view.version = rm.version
  BY ViewType
<1>3. rm.version \in Nat
  BY DEF RoomInv, IsRoom, Fields
<1>4. Step(r, rm, q)
  OBVIOUS
<1> HIDE DEF q
<1>5. RequestInv(q, rm)
  BY <1>1, <1>2, <1>3 DEF RequestInv, IsViewed, HeldSound, ViewSound, PollSound
<1> QED
  BY <1>4, <1>5, StepInv

\* fetch: reap, then wait for the body.
LEMMA ReceiveInv ==
  ASSUME IInv, NEW r \in Requests, Receive(r)
  PROVE  Carried
<1>1. RoomInv(Reap(room)) /\ Advance(room, Reap(room))
  BY ReapInv, ReapAdvances DEF IInv
<1> DEFINE q == [pc |-> "body"]
<1>2. q \in Pending /\ q.pc = "body"
  BY DEF Pending
<1>3. Step(r, Reap(room), q)
  BY DEF Receive
<1> QED
  BY <1>1, <1>2, <1>3, PlainStep

\* A request that fails the syntax checks.
LEMMA BadRequestInv ==
  ASSUME IInv, NEW r \in Requests, BadRequest(r)
  PROVE  Carried
  BY SelfAdvance, ReplyStep DEF BadRequest, IInv, Refusals

\* join from the hash on: nobody is refused or admitted at the cost of the
\* addresses, the cap or the succession, whatever happened at the await.
LEMMA FinishJoinInv ==
  ASSUME IInv, NEW r \in Requests, NEW p \in Peers, NEW t \in Credentials,
         NEW edition \in Editions, NEW name \in Names,
         FinishJoin(r, p, t, edition, name)
  PROVE  Carried
<1> DEFINE founded == Found(room, p, edition)
           admitted == Admit(founded, p, t, name)
           rejoined == Rejoin(room, p, name)
           shown(rm) == [pc |-> "viewed", peer |-> p, view |-> ViewOf(rm),
                         mail |-> <<>>]
<1>1. RoomInv(room) /\ Advance(room, room) /\ <<>> \in Mail
  BY SelfAdvance DEF IInv, Mail
<1>2. CASE Step(r, room, Reply("mismatch"))
  BY <1>1, <1>2, ReplyStep DEF Refusals
<1>3. CASE /\ Authenticated(room, p, t)
           /\ Step(r, rejoined, shown(rejoined))
  <2>1. RoomInv(rejoined) /\ Advance(room, rejoined)
    BY <1>1, <1>3, RejoinInv DEF Authenticated
  <2> HIDE DEF rejoined
  <2> QED BY <1>1, <1>3, <2>1, ViewedStep
<1>4. CASE Full(founded) /\ Step(r, founded, Reply("full"))
  <2>1. founded = room
    BY <1>1, <1>4, FullFounded
  <2> QED BY <1>1, <1>4, <2>1, ReplyStep DEF Refusals
<1>5. CASE /\ p \notin Joined(room) /\ ~Full(founded)
           /\ Step(r, admitted, shown(admitted))
  <2>1. RoomInv(admitted) /\ admitted.version = room.version + 1
    BY <1>1, <1>5, AdmitInv
  <2>2. Advance(room, admitted)
    BY <1>1, <2>1 DEF Advance, RoomInv, IsRoom, Fields
  <2> HIDE DEF admitted
  <2> QED BY <1>1, <1>5, <2>1, <2>2, ViewedStep
<1> QED
  BY <1>2, <1>3, <1>4, <1>5 DEF FinishJoin

\* join up to its await.
LEMMA JoinInv ==
  ASSUME IInv, NEW r \in Requests, NEW p \in Peers, NEW t \in Credentials,
         NEW edition \in Editions, NEW name \in Names,
         Join(r, p, t, edition, name)
  PROVE  Carried
<1> DEFINE q == [pc |-> "joinHash", peer |-> p, token |-> t, edition |-> edition,
                 name |-> name]
<1>1. RoomInv(room) /\ Advance(room, room)
  BY SelfAdvance DEF IInv
<1>2. CASE Step(r, room, Reply("banned"))
  BY <1>1, <1>2, ReplyStep DEF Refusals
<1>3. CASE FinishJoin(r, p, t, edition, name)
  BY <1>3, FinishJoinInv
<1>4. CASE t # NoToken /\ Step(r, room, q)
  <2>1. q \in [pc : {"joinHash"}, peer : Peers, token : Tokens,
               edition : Editions, name : Names] /\ q.pc = "joinHash"
    BY <1>4 DEF Credentials
  <2> HIDE DEF q
  <2>2. q \in Pending
    BY <2>1 DEF Pending
  <2> QED BY <1>1, <1>4, <2>1, <2>2, PlainStep
<1> QED
  BY <1>2, <1>3, <1>4 DEF Join

\* join after its await.
LEMMA JoinHashedInv ==
  ASSUME IInv, NEW r \in Requests, JoinHashed(r)
  PROVE  Carried
<1>1. /\ req[r].peer \in Peers /\ req[r].token \in Credentials
      /\ req[r].edition \in Editions /\ req[r].name \in Names
  BY RequestKinds DEF JoinHashed, IInv, RequestInv, Credentials
<1> QED
  BY <1>1, FinishJoinInv DEF JoinHashed

\* signal up to its await.
LEMMA SignalInv ==
  ASSUME IInv, NEW r \in Requests, NEW from \in Peers, NEW to \in Peers,
         NEW t \in Credentials, NEW data \in Data, Signal(r, from, to, t, data)
  PROVE  Carried
<1> DEFINE q == [pc |-> "signalAuth", from |-> from, to |-> to, data |-> data]
<1>1. RoomInv(room) /\ Advance(room, room)
  BY SelfAdvance DEF IInv
<1>2. CASE Step(r, room, Reply("denied"))
  BY <1>1, <1>2, ReplyStep DEF Refusals
<1>3. CASE Step(r, room, q)
  <2>1. q \in [pc : {"signalAuth"}, from : Peers, to : Peers, data : Data]
        /\ q.pc = "signalAuth"
    OBVIOUS
  <2> HIDE DEF q
  <2>2. q \in Pending
    BY <2>1 DEF Pending
  <2> QED BY <1>1, <1>3, <2>1, <2>2, PlainStep
<1> QED
  BY <1>2, <1>3 DEF Signal

\* signal after its await.
LEMMA SignalAuthedInv ==
  ASSUME IInv, NEW r \in Requests, SignalAuthed(r)
  PROVE  Carried
<1> DEFINE q == req[r]
           msg == [from |-> q.from, data |-> q.data]
<1>1. RoomInv(room) /\ Advance(room, room)
  BY SelfAdvance DEF IInv
<1>2. q.from \in Peers /\ q.to \in Peers /\ q.data \in Data
  BY RequestKinds DEF SignalAuthed, IInv, RequestInv
<1>3. CASE /\ q.to \in Joined(room)
           /\ Step(r, Post(room, q.to, msg), Reply("ok"))
  <2>1. msg \in Message
    BY <1>2 DEF Message
  <2> HIDE DEF msg
  <2>2. RoomInv(Post(room, q.to, msg)) /\ Advance(room, Post(room, q.to, msg))
    BY <1>1, <1>3, <2>1, PostInv
  <2> QED BY <1>3, <2>2, ReplyStep
<1>4. CASE Step(r, room, Reply("ok"))
  BY <1>1, <1>4, ReplyStep
<1> QED
  BY <1>3, <1>4 DEF SignalAuthed

\* The answers to a poll for a peer that is not in the room.
LEMMA NotAMemberStep ==
  ASSUME IInv, NEW r \in Requests, NEW rm, RoomInv(rm), Advance(room, rm),
         NEW p, Step(r, rm, NotAMember(rm, p))
  PROVE  Carried
  BY ReplyStep DEF NotAMember, Refusals

\* A poll up to its await remembers a member object that is in the Map.
LEMMA PollInv ==
  ASSUME IInv, NEW r \in Requests, NEW p \in Peers, NEW t \in Credentials,
         NEW version \in {0, room.version}, Poll(r, p, t, version)
  PROVE  Carried
<1> DEFINE rm == Reap(room)
           object == rm.members[p].joinedAt
           q == [pc |-> "pollAuth", peer |-> p, object |-> object,
                 mail |-> <<>>, version |-> version]
<1>1. RoomInv(rm) /\ Advance(room, rm) /\ RoomInv(room)
  BY ReapInv, ReapAdvances DEF IInv
<1>2. /\ room.version \in Nat /\ rm.version \in Nat /\ version \in Nat
      /\ rm.version >= room.version
  BY <1>1 DEF RoomInv, IsRoom, Fields, Advance
<1> HIDE DEF rm
<1>3. CASE Step(r, rm, NotAMember(rm, p))
  BY <1>1, <1>3, NotAMemberStep
<1>4. CASE Step(r, rm, Reply("denied"))
  BY <1>1, <1>4, ReplyStep DEF Refusals
<1>5. CASE version <= room.version /\ p \in Joined(rm) /\ Step(r, rm, q)
  <2>1. object \in Nat /\ <<>> \in Mail
    BY <1>1, <1>5, MemberType DEF Member, Mail
  <2> HIDE DEF object
  <2>2. /\ q \in [pc : {"pollAuth"}, peer : Peers, object : Nat, mail : Mail,
                  version : Nat]
        /\ q.pc = "pollAuth" /\ q.peer = p /\ q.object = object
        /\ q.version = version
    BY <1>2, <2>1
  <2> HIDE DEF q
  <2>3. q \in Pending
    BY <2>2 DEF Pending
  <2>4. Attached(rm, q)
    BY <1>5, <2>2 DEF Attached, object
  <2>5. RequestInv(q, rm)
    BY <1>2, <1>5, <2>2, <2>3, <2>4 DEF RequestInv, HeldSound, ViewSound, PollSound
  <2> QED BY <1>1, <1>5, <2>5, StepInv
<1> QED
  BY <1>3, <1>4, <1>5 DEF Poll, Authenticated, rm

\* A poll after its first await.  It is held only if its member object is still
\* in the Map, because otherwise its version is outdated.
LEMMA PollAuthedInv ==
  ASSUME IInv, NEW r \in Requests, PollAuthed(r)
  PROVE  Carried
<1> DEFINE q == req[r]
           p == q.peer
           here == Attached(room, q)
           mail == IF here THEN room.members[p].inbox ELSE q.mail
           rm == IF here THEN Drain(room, p) ELSE room
           viewed == [pc |-> "viewed", peer |-> p, view |-> ViewOf(rm),
                      mail |-> mail]
           held == [pc |-> "held", peer |-> p, version |-> q.version]
<1>1. /\ RoomInv(room) /\ Advance(room, room) /\ room.version \in Nat
      /\ PollSound(q, room) /\ q.pc = "pollAuth"
  BY SelfAdvance DEF IInv, RequestInv, RoomInv, IsRoom, Fields, PollAuthed
<1>2. p \in Peers /\ q.mail \in Mail /\ q.version \in Nat
  <2>1. q \in [pc : {"pollAuth"}, peer : Peers, object : Nat, mail : Mail,
               version : Nat]
    BY <1>1, RequestKinds DEF IInv, RequestInv
  <2> QED BY <2>1
<1>3. here => p \in Joined(room)
  BY DEF Attached
<1>4. mail \in Mail
  BY <1>1, <1>2, <1>3, MemberType DEF Member
<1>5. RoomInv(rm) /\ Advance(room, rm)
  BY <1>1, <1>3, DrainInv
<1>6. CASE Step(r, rm, viewed)
  <2> HIDE DEF rm, mail
  <2> QED BY <1>2, <1>4, <1>5, <1>6, ViewedStep
<1>7. CASE mail = <<>> /\ room.version = q.version /\ Step(r, rm, held)
  <2>1. here
    BY <1>1, <1>2, <1>7 DEF PollSound
  <2>2. /\ p \in Joined(rm) /\ rm.members[p].lastSeen = "recent"
        /\ rm.members[p].inbox = <<>> /\ rm.version = q.version
    BY <1>1, <1>3, <1>7, <2>1, DrainInv
  <2>3. /\ held \in [pc : {"held"}, peer : Peers, version : Nat]
        /\ held.pc = "held" /\ held.peer = p /\ held.version = q.version
    BY <1>2
  <2> HIDE DEF held, rm, p, q
  <2>4. held \in Pending
    BY <2>3 DEF Pending
  <2>5. RequestInv(held, rm)
    BY <2>2, <2>3, <2>4 DEF RequestInv, HeldSound, ViewSound, PollSound
  <2> QED BY <1>5, <1>7, <2>5, StepInv
<1> QED
  BY <1>1, <1>6, <1>7 DEF PollAuthed

\* The timer of a held poll.
LEMMA PollElapsedInv ==
  ASSUME IInv, NEW r \in Requests, PollElapsed(r)
  PROVE  Carried
<1> DEFINE q == [pc |-> "woken", peer |-> req[r].peer]
<1>1. RoomInv(room) /\ Advance(room, room)
  BY SelfAdvance DEF IInv
<1>2. req[r].peer \in Peers
  BY RequestKinds DEF PollElapsed, IInv, RequestInv
<1>3. q \in Pending /\ q.pc = "woken"
  BY <1>2 DEF Pending
<1>4. Step(r, room, q)
  BY DEF PollElapsed
<1> QED
  BY <1>1, <1>3, <1>4, PlainStep

\* A poll after it was woken.
LEMMA PollResumedInv ==
  ASSUME IInv, NEW r \in Requests, PollResumed(r)
  PROVE  Carried
<1> DEFINE p == req[r].peer
           mail == room.members[p].inbox
           viewed == [pc |-> "viewed", peer |-> p, view |-> ViewOf(Drain(room, p)),
                      mail |-> mail]
<1>1. RoomInv(room) /\ Advance(room, room)
  BY SelfAdvance DEF IInv
<1>2. CASE Step(r, room, NotAMember(room, p))
  BY <1>1, <1>2, NotAMemberStep
<1>3. CASE p \in Joined(room) /\ Step(r, Drain(room, p), viewed)
  <2>1. RoomInv(Drain(room, p)) /\ Advance(room, Drain(room, p))
    BY <1>1, <1>3, DrainInv
  <2>2. mail \in Mail /\ p \in Peers
    BY <1>1, <1>3, MemberType DEF Member
  <2> HIDE DEF p, mail
  <2> QED BY <1>3, <2>1, <2>2, ViewedStep
<1> QED
  BY <1>2, <1>3 DEF PollResumed

\* leave up to its await.
LEMMA LeaveInv ==
  ASSUME IInv, NEW r \in Requests, NEW p \in Peers, NEW t \in Credentials,
         Leave(r, p, t)
  PROVE  Carried
<1> DEFINE q == [pc |-> "leaveAuth", peer |-> p]
<1>1. RoomInv(room) /\ Advance(room, room)
  BY SelfAdvance DEF IInv
<1>2. CASE Step(r, room, Reply("denied"))
  BY <1>1, <1>2, ReplyStep DEF Refusals
<1>3. CASE Step(r, room, q)
  <2>1. q \in Pending /\ q.pc = "leaveAuth"
    BY DEF Pending
  <2> QED BY <1>1, <1>3, <2>1, PlainStep
<1> QED
  BY <1>2, <1>3 DEF Leave

\* A removal that is announced.
LEMMA RemovalStep ==
  ASSUME IInv, NEW r \in Requests, NEW S, NEW bans \in SUBSET Peers,
         Step(r, Bump(RemoveMembers(room, S, bans)), Reply("ok"))
  PROVE  Carried
<1> DEFINE removed == RemoveMembers(room, S, bans)
<1>1. RoomInv(room)
  BY DEF IInv
<1>2. RoomInv(removed) /\ removed.version = room.version
  BY <1>1, RemoveMembersInv
<1>3. RoomInv(Bump(removed)) /\ Bump(removed).version = room.version + 1
  <2> HIDE DEF removed
  <2> QED BY <1>2, BumpInv
<1>4. Advance(room, Bump(removed))
  BY <1>1, <1>3 DEF Advance, RoomInv, IsRoom, Fields
<1> QED
  BY <1>3, <1>4, ReplyStep

\* leave after its await.
LEMMA LeaveAuthedInv ==
  ASSUME IInv, NEW r \in Requests, LeaveAuthed(r)
  PROVE  Carried
<1>1. RoomInv(room) /\ Advance(room, room)
  BY SelfAdvance DEF IInv
<1>2. CASE Step(r, Bump(RemoveMembers(room, {req[r].peer}, {})), Reply("ok"))
  BY <1>2, RemovalStep
<1>3. CASE Step(r, room, Reply("ok"))
  BY <1>1, <1>3, ReplyStep
<1> QED
  BY <1>2, <1>3 DEF LeaveAuthed

\* kick up to its await.
LEMMA KickInv ==
  ASSUME IInv, NEW r \in Requests, NEW from \in Peers, NEW target \in Peers,
         NEW t \in Credentials, Kick(r, from, target, t)
  PROVE  Carried
<1> DEFINE q == [pc |-> "kickAuth", from |-> from, target |-> target]
<1>1. RoomInv(room) /\ Advance(room, room)
  BY SelfAdvance DEF IInv
<1>2. CASE Step(r, room, Reply("denied"))
  BY <1>1, <1>2, ReplyStep DEF Refusals
<1>3. CASE Step(r, room, q)
  <2>1. q \in Pending /\ q.pc = "kickAuth"
    BY DEF Pending
  <2> QED BY <1>1, <1>3, <2>1, PlainStep
<1> QED
  BY <1>2, <1>3 DEF Kick

\* kick after its await.
LEMMA KickAuthedInv ==
  ASSUME IInv, NEW r \in Requests, KickAuthed(r)
  PROVE  Carried
<1> DEFINE target == req[r].target
<1>1. RoomInv(room) /\ Advance(room, room)
  BY SelfAdvance DEF IInv
<1>2. target \in Peers
  BY RequestKinds DEF KickAuthed, IInv, RequestInv
<1>3. CASE Step(r, Bump(RemoveMembers(room, {target}, {target})), Reply("ok"))
  BY <1>2, <1>3, RemovalStep
<1>4. CASE Step(r, room, Reply("missing"))
  BY <1>1, <1>4, ReplyStep DEF Refusals
<1> QED
  BY <1>3, <1>4 DEF KickAuthed

\* The client reads its reply.
LEMMA DeliverInv ==
  ASSUME IInv, NEW r \in Requests, Deliver(r)
  PROVE  Carried
<1>1. RoomInv(room) /\ Advance(room, room)
  BY SelfAdvance DEF IInv
<1>2. Idle \in Pending /\ Idle.pc = "idle"
  BY DEF Idle, Pending
<1> QED
  BY <1>1, <1>2, PlainStep DEF Deliver

\* A member goes stale: nobody whose poll is held does.
LEMMA LapseInv ==
  ASSUME IInv, NEW p \in Peers, Lapse(p)
  PROVE  Carried
<1> DEFINE new == SetLastSeen(room, p, "stale")
<1>1. /\ RoomInv(new) /\ Joined(new) = Joined(room)
      /\ new.version = room.version /\ new.hostPeerID = room.hostPeerID
      /\ \A q \in Joined(room) \ {p} : new.members[q] = room.members[q]
      /\ new.members[p].octet = room.members[p].octet
      /\ new.members[p].joinedAt = room.members[p].joinedAt
      /\ new.members[p].inbox = room.members[p].inbox
      /\ room.version \in Nat
  <2>1. RoomInv(room) /\ p \in Joined(room)
    BY DEF IInv, Lapse
  <2> QED BY <2>1, LastSeenInv DEF RoomInv, IsRoom, Fields
<1>2. room' = new /\ req' = req
  BY DEF Lapse
<1> HIDE DEF new
<1>3. Placing(ViewOf(new)) = Placing(ViewOf(room))
  BY <1>1, SamePlacing
<1>4. ASSUME NEW r \in Requests PROVE RequestInv(req[r], new)
  <2> DEFINE q == req[r]
  <2>1. RequestInv(q, room)
    BY DEF IInv
  <2>2. q.pc = "held" => q.peer # p
    BY DEF Lapse
  <2> HIDE DEF q
  <2>3. HeldSound(q, new)
    BY <1>1, <2>1, <2>2 DEF RequestInv, HeldSound
  <2>4. ViewSound(q, new)
    BY <1>1, <1>3, <2>1 DEF RequestInv, ViewSound
  <2>5. PollSound(q, new)
    BY <1>1, <2>1 DEF RequestInv, PollSound, Attached
  <2> QED BY <2>1, <2>3, <2>4, <2>5 DEF RequestInv, q
<1>5. RoomInv(room')
  BY <1>1, <1>2
<1>6. \A r \in Requests : RequestInv(req'[r], room')
  BY <1>2, <1>4
<1>7. DOMAIN req' = Requests
  BY <1>2 DEF IInv
<1>8. Announced(room, new)
  BY <1>1, <1>3 DEF Announced
<1> QED
  BY <1>2, <1>5, <1>6, <1>7, <1>8 DEF IInv, Carried

-----------------------------------------------------------------------------
(* The invariant and what follows from it *)

\* A new object is sound and serves nobody.
LEMMA InitIInv == Init => IInv
<1> SUFFICES ASSUME Init PROVE IInv
  OBVIOUS
<1>1. Idle \in Pending /\ Idle.pc = "idle"
  BY DEF Idle, Pending
<1>2. \A r \in Requests : RequestInv(Idle, room)
  BY <1>1, PlainRequest
<1> QED
  BY <1>2, NewRoomInv DEF Init, IInv

\* Every segment of every handler preserves the invariant and announces what it
\* changes.
LEMMA NextCarries == IInv /\ [Next]_vars => Carried
<1> SUFFICES ASSUME IInv, [Next]_vars PROVE Carried
  OBVIOUS
<1>1. ASSUME NEW r \in Requests, Arrive(r) PROVE Carried
  <2>1. CASE Receive(r)
    BY <2>1, ReceiveInv
  <2>2. ASSUME NEW p \in Peers, NEW t \in Credentials,
               NEW version \in {0, room.version}, Poll(r, p, t, version)
        PROVE  Carried
    BY <2>2, PollInv
  <2> QED BY <1>1, <2>1, <2>2 DEF Arrive
<1>2. ASSUME NEW r \in Requests, NEW p \in Peers, NEW t \in Credentials,
             Parsed(r, p, t)
      PROVE  Carried
  <2>1. ASSUME NEW edition \in Editions, NEW name \in Names, Join(r, p, t, edition, name)
        PROVE  Carried
    BY <2>1, JoinInv
  <2>2. ASSUME NEW to \in Peers, NEW data \in Data, Signal(r, p, to, t, data)
        PROVE  Carried
    BY <2>2, SignalInv
  <2>3. CASE Leave(r, p, t)
    BY <2>3, LeaveInv
  <2>4. ASSUME NEW target \in Peers, Kick(r, p, target, t) PROVE Carried
    BY <2>4, KickInv
  <2> QED BY <1>2, <2>1, <2>2, <2>3, <2>4 DEF Parsed
<1>3. ASSUME NEW r \in Requests, Continue(r) PROVE Carried
  BY <1>2, <1>3, BadRequestInv, JoinHashedInv, SignalAuthedInv, PollAuthedInv,
     PollElapsedInv, PollResumedInv, LeaveAuthedInv, KickAuthedInv DEF Continue
<1>4. ASSUME NEW r \in Requests, Deliver(r) PROVE Carried
  BY <1>4, DeliverInv
<1>5. ASSUME NEW p \in Peers, Lapse(p) PROVE Carried
  BY <1>5, LapseInv
<1>6. CASE UNCHANGED vars
  <2>1. room' = room /\ req' = req
    BY <1>6 DEF vars
  <2>2. RoomInv(room')
    BY <2>1 DEF IInv
  <2>3. \A r \in Requests : RequestInv(req'[r], room')
    BY <2>1 DEF IInv
  <2>4. DOMAIN req' = Requests
    BY <2>1 DEF IInv
  <2>5. room.version \in Nat
    BY DEF IInv, RoomInv, IsRoom, Fields
  <2>6. Announced(room, room')
    BY <2>1, <2>5 DEF Announced
  <2> QED BY <2>2, <2>3, <2>4, <2>6 DEF IInv, Carried
<1> QED
  BY <1>1, <1>3, <1>4, <1>5, <1>6 DEF Next

\* The room and its requests are sound in every state: whatever handlers overlap
\* at their awaits, addresses, succession, capacity and the polls' knowledge of
\* the version fit together.
THEOREM Invariance == Spec => []IInv
<1>1. IInv /\ [Next]_vars => IInv'
  BY NextCarries DEF Carried
<1> QED
  BY <1>1, InitIInv, PTL DEF Spec

\* Members have distinct addresses, and exactly their octets are reserved: a
\* member is never admitted without an address, for any range and any caps.
THEOREM AddressesAreExact == Spec => []AddressesExact
<1>1. IInv => AddressesExact
  BY DEF IInv, RoomInv, AddressesExact
<1> QED
  BY <1>1, Invariance, PTL

\* The host is present and came before everybody else.
THEOREM HostPrecedes == Spec => []HostIsEldest
<1>1. IInv => HostIsEldest
  BY DEF IInv, RoomInv, HostIsEldest
<1> QED
  BY <1>1, Invariance, PTL

\* The founder's capacity holds for any number of overlapping joins.
THEOREM CapacityHolds == Spec => []CapRespected
<1>1. IInv => CapRespected
  BY DEF IInv, RoomInv, CapRespected
<1> QED
  BY <1>1, Invariance, PTL

\* An empty room keeps nothing but its version.
THEOREM EmptinessForgets == Spec => []EmptyRoomForgets
<1>1. IInv => EmptyRoomForgets
  BY DEF IInv, RoomInv, EmptyRoomForgets
<1> QED
  BY <1>1, Invariance, PTL

\* No poll is held while there is something to tell its member.
THEOREM WakeupsArrive == Spec => []NoLostWakeup
<1>1. IInv => NoLostWakeup
  BY DEF IInv, RequestInv, NoLostWakeup
<1> QED
  BY <1>1, Invariance, PTL

\* Two views with the same version agree on who is in at which address and on the
\* host, for any number of overlapping requests; on names they need not.
THEOREM VersionsNameViews == Spec => []VersionNamesView
<1>1. IInv => VersionNamesView
  BY DEF IInv, RequestInv, VersionNamesView
<1> QED
  BY <1>1, Invariance, PTL

\* The version never falls, and whatever changes the members, their addresses, the
\* host or undelivered mail raises it.
THEOREM ChangesAnnounced == Spec => ChangesAreAnnounced
<1>1. IInv /\ [Next]_vars => [Announced(room, room')]_vars
  BY NextCarries DEF Carried
<1> QED
  BY <1>1, Invariance, PTL DEF Spec, ChangesAreAnnounced

=============================================================================
