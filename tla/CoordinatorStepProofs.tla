----------------------- MODULE CoordinatorStepProofs -----------------------
(***************************************************************************)
(* What the steps of Coordinator do to the room, for any peers, tokens,    *)
(* address range, limits and number of requests in flight: there are four  *)
(* ways in which a segment of a handler can change it.  From this follow   *)
(* the bound of the inboxes, that bans hold, and that Coordinator          *)
(* implements RoomMembership.                                              *)
(***************************************************************************)
EXTENDS CoordinatorRefinement, CoordinatorProofs

-----------------------------------------------------------------------------
(* The ways in which a segment can change the room *)

\* A member joins again, gets or is given its mail, or lapses.
Updates(rm, p) ==
    \/ \E name \in Names : rm = Rejoin(room, p, name)
    \/ rm = Drain(room, p)
    \/ rm = SetLastSeen(room, p, "stale")
    \/ \E msg \in Message : rm = Post(room, p, msg)

\* Some members go, and the polls of the others are woken.
Removes(rm, S, bans) ==
    /\ S \cap Joined(room) # {}
    /\ rm = Bump(RemoveMembers(room, S, bans))

\* A peer comes that was not banned when it was last looked.
Admits(rm, p, t, edition) ==
    /\ p \notin Joined(room)
    /\ ~ShutOut(p)
    /\ ~Full(Found(room, p, edition))
    /\ \E name \in Names : rm = Admit(Found(room, p, edition), p, t, name)

Moves(rm) ==
    \/ rm = room
    \/ \E p \in Joined(room) : Updates(rm, p)
    \/ \E S \in SUBSET Peers, bans \in SUBSET Peers : Removes(rm, S, bans)
    \/ \E p \in Peers, t \in Credentials, edition \in Editions :
          Admits(rm, p, t, edition)

\* A handler that stops before the hash of a join has just found no ban.
Unbanned(q) == q.pc = "joinHash" => ~Banned(room, q.peer)

\* Every step but a lapse is such a segment.
Segment ==
    \E r \in Requests : \E rm, q : Step(r, rm, q) /\ Moves(rm) /\ Unbanned(q)

\* A segment that leaves the room alone and ends, or stops before no hash.
LEMMA IdleSegment ==
  ASSUME NEW r \in Requests, NEW q, q.pc # "joinHash", Step(r, room, q)
  PROVE  Segment
  BY DEF Segment, Moves, Unbanned

LEMMA ReplySegment ==
  ASSUME NEW r \in Requests, NEW status, NEW rm, Moves(rm), Step(r, rm, Reply(status))
  PROVE  Segment
<1>1. Reply(status).pc # "joinHash"
  BY DEF Reply
<1> QED
  BY <1>1 DEF Segment, Unbanned

\* reap, alone or before the check of a poll.
LEMMA ReapMoves ==
  ASSUME IInv
  PROVE  Moves(Reap(room))
<1> DEFINE S == Stale(room)
<1>1. S \in SUBSET Peers /\ {} \in SUBSET Peers /\ S \cap Joined(room) = S
  BY DEF IInv, RoomInv, IsRoom, IsPartial, PeerSets, Joined, Stale
<1>2. CASE S = {}
  BY <1>2 DEF Reap, Moves
<1>3. CASE S # {}
  <2>1. Reap(room) = Bump(RemoveMembers(room, S, {}))
    BY <1>3 DEF Reap
  <2> HIDE DEF S
  <2>2. Removes(Reap(room), S, {})
    BY <1>1, <1>3, <2>1 DEF Removes
  <2> QED
    BY <1>1, <2>2 DEF Moves
<1> QED
  BY <1>2, <1>3

\* join from the hash on.
LEMMA FinishJoinSegment ==
  ASSUME IInv, NEW r \in Requests, NEW p \in Peers, NEW t \in Credentials,
         NEW edition \in Editions, NEW name \in Names, ~ShutOut(p),
         FinishJoin(r, p, t, edition, name)
  PROVE  Segment
<1> DEFINE founded == Found(room, p, edition)
           admitted == Admit(founded, p, t, name)
           rejoined == Rejoin(room, p, name)
           shown(rm) == [pc |-> "viewed", peer |-> p, view |-> ViewOf(rm),
                         mail |-> <<>>]
<1>1. Moves(room)
  BY DEF Moves
<1>2. CASE Step(r, room, Reply("mismatch"))
  BY <1>1, <1>2, ReplySegment
<1>3. CASE Authenticated(room, p, t) /\ Step(r, rejoined, shown(rejoined))
  <2>1. Moves(rejoined)
    BY <1>3 DEF Moves, Updates, Authenticated
  <2> HIDE DEF rejoined
  <2> QED
    BY <1>3, <2>1 DEF Segment, Unbanned
<1>4. CASE Full(founded) /\ Step(r, founded, Reply("full"))
  <2>1. founded = room
    BY <1>4, FullFounded DEF IInv
  <2> QED
    BY <1>1, <1>4, <2>1, ReplySegment
<1>5. CASE /\ p \notin Joined(room) /\ ~Full(founded)
           /\ Step(r, admitted, shown(admitted))
  <2>1. Moves(admitted)
    BY <1>5 DEF Moves, Admits
  <2> HIDE DEF admitted
  <2> QED
    BY <1>5, <2>1 DEF Segment, Unbanned
<1> QED
  BY <1>2, <1>3, <1>4, <1>5 DEF FinishJoin

\* join up to its hash, and after it.
LEMMA JoinSegment ==
  ASSUME IInv, NEW r \in Requests, NEW p \in Peers, NEW t \in Credentials,
         NEW edition \in Editions, NEW name \in Names, Join(r, p, t, edition, name)
  PROVE  Segment
<1> DEFINE q == [pc |-> "joinHash", peer |-> p, token |-> t, edition |-> edition,
                 name |-> name]
<1>1. Moves(room)
  BY DEF Moves
<1>2. CASE Step(r, room, Reply("banned"))
  BY <1>1, <1>2, ReplySegment
<1>3. CASE ~Banned(room, p) /\ FinishJoin(r, p, t, edition, name)
  BY <1>3, FinishJoinSegment DEF ShutOut, Banned
<1>4. CASE ~Banned(room, p) /\ Step(r, room, q)
  BY <1>1, <1>4 DEF Segment, Unbanned
<1> QED
  BY <1>2, <1>3, <1>4 DEF Join

LEMMA JoinHashedSegment ==
  ASSUME IInv, NEW r \in Requests, JoinHashed(r)
  PROVE  Segment
<1>1. /\ req[r].peer \in Peers /\ req[r].token \in Credentials
      /\ req[r].edition \in Editions /\ req[r].name \in Names
  BY RequestKinds DEF JoinHashed, IInv, RequestInv, Credentials
<1>2. ~ShutOut(req[r].peer)
  BY DEF JoinHashed, ShutOut
<1> QED
  BY <1>1, <1>2, FinishJoinSegment DEF JoinHashed

\* signal, leave and kick after their awaits.
LEMMA SignalAuthedSegment ==
  ASSUME IInv, NEW r \in Requests, SignalAuthed(r)
  PROVE  Segment
<1> DEFINE msg == [from |-> req[r].from, data |-> req[r].data]
<1>1. CASE req[r].to \in Joined(room) /\ Step(r, Post(room, req[r].to, msg), Reply("ok"))
  <2>1. msg \in Message
    BY RequestKinds DEF SignalAuthed, IInv, RequestInv, Message
  <2> HIDE DEF msg
  <2>2. Moves(Post(room, req[r].to, msg))
    BY <1>1, <2>1 DEF Moves, Updates
  <2> QED
    BY <1>1, <2>2, ReplySegment
<1>2. CASE Step(r, room, Reply("ok"))
  BY <1>2, ReplySegment DEF Moves
<1> QED
  BY <1>1, <1>2 DEF SignalAuthed

LEMMA RemovalSegment ==
  ASSUME NEW r \in Requests, NEW p \in Peers, p \in Joined(room),
         NEW bans \in SUBSET Peers,
         Step(r, Bump(RemoveMembers(room, {p}, bans)), Reply("ok"))
  PROVE  Segment
<1> DEFINE rm == Bump(RemoveMembers(room, {p}, bans))
<1>1. Removes(rm, {p}, bans)
  BY DEF Removes
<1>2. Moves(rm)
  <2> HIDE DEF rm
  <2> QED
    BY <1>1 DEF Moves
<1> QED
  BY <1>2, ReplySegment

LEMMA LeaveAuthedSegment ==
  ASSUME IInv, NEW r \in Requests, LeaveAuthed(r)
  PROVE  Segment
<1>1. req[r].peer \in Peers
  BY RequestKinds DEF LeaveAuthed, IInv, RequestInv
<1>2. CASE /\ req[r].peer \in Joined(room)
           /\ Step(r, Bump(RemoveMembers(room, {req[r].peer}, {})), Reply("ok"))
  BY <1>1, <1>2, RemovalSegment
<1>3. CASE Step(r, room, Reply("ok"))
  BY <1>3, ReplySegment DEF Moves
<1> QED
  BY <1>2, <1>3 DEF LeaveAuthed

LEMMA KickAuthedSegment ==
  ASSUME IInv, NEW r \in Requests, KickAuthed(r)
  PROVE  Segment
<1> DEFINE target == req[r].target
<1>1. target \in Peers
  BY RequestKinds DEF KickAuthed, IInv, RequestInv
<1>2. CASE /\ target \in Joined(room)
           /\ Step(r, Bump(RemoveMembers(room, {target}, {target})), Reply("ok"))
  <2> HIDE DEF target
  <2> QED
    BY <1>1, <1>2, RemovalSegment
<1>3. CASE Step(r, room, Reply("missing"))
  BY <1>3, ReplySegment DEF Moves
<1> QED
  BY <1>2, <1>3 DEF KickAuthed

\* A poll, up to its await, after it, and woken.
LEMMA PollSegment ==
  ASSUME IInv, NEW r \in Requests, NEW p \in Peers, NEW t \in Credentials,
         NEW version \in {0, room.version}, Poll(r, p, t, version)
  PROVE  Segment
<1> DEFINE rm == Reap(room)
           q == [pc |-> "pollAuth", peer |-> p, object |-> rm.members[p].joinedAt,
                 mail |-> <<>>, version |-> version]
<1>1. Moves(rm)
  BY ReapMoves
<1> HIDE DEF rm
<1>2. CASE Step(r, rm, NotAMember(rm, p))
  BY <1>1, <1>2, ReplySegment DEF NotAMember
<1>3. CASE Step(r, rm, Reply("denied"))
  BY <1>1, <1>3, ReplySegment
<1>4. CASE Step(r, rm, q)
  BY <1>1, <1>4 DEF Segment, Unbanned
<1> QED
  BY <1>2, <1>3, <1>4 DEF Poll, rm

LEMMA PollAuthedSegment ==
  ASSUME IInv, NEW r \in Requests, PollAuthed(r)
  PROVE  Segment
<1> DEFINE q == req[r]
           here == q.pc = "pollAuth" /\ Attached(room, q)
           mail == IF here THEN room.members[q.peer].inbox ELSE q.mail
           rm == IF here THEN Drain(room, q.peer) ELSE room
           viewed == [pc |-> "viewed", peer |-> q.peer, view |-> ViewOf(rm),
                      mail |-> mail]
           held == [pc |-> "held", peer |-> q.peer, version |-> q.version]
<1>1. Moves(rm)
  BY DEF Moves, Updates, Attached
<1>2. Step(r, rm, viewed) \/ Step(r, rm, held)
  BY DEF PollAuthed
<1>3. viewed.pc = "viewed" /\ held.pc = "held"
  OBVIOUS
<1> HIDE DEF rm, viewed, held
<1> QED
  BY <1>1, <1>2, <1>3 DEF Segment, Unbanned

LEMMA PollResumedSegment ==
  ASSUME IInv, NEW r \in Requests, PollResumed(r)
  PROVE  Segment
<1> DEFINE p == req[r].peer
           viewed == [pc |-> "viewed", peer |-> p, view |-> ViewOf(Drain(room, p)),
                      mail |-> room.members[p].inbox]
<1>1. CASE Step(r, room, NotAMember(room, p))
  BY <1>1, ReplySegment DEF Moves, NotAMember
<1>2. CASE p \in Joined(room) /\ Step(r, Drain(room, p), viewed)
  <2>1. Moves(Drain(room, p))
    BY <1>2 DEF Moves, Updates
  <2> QED
    BY <1>2, <2>1 DEF Segment, Unbanned
<1> QED
  BY <1>1, <1>2 DEF PollResumed

\* Every step is a segment or a lapse.
LEMMA NextSegment ==
  ASSUME IInv, Next
  PROVE  Segment \/ \E p \in Peers : Lapse(p)
<1>1. ASSUME NEW r \in Requests, Arrive(r) PROVE Segment
  <2>1. CASE Receive(r)
    BY <2>1, ReapMoves DEF Receive, Segment, Unbanned
  <2> QED
    BY <1>1, <2>1, PollSegment DEF Arrive
<1>2. ASSUME NEW r \in Requests, NEW p \in Peers, NEW t \in Credentials,
             Parsed(r, p, t)
      PROVE  Segment
  <2>1. ASSUME NEW to \in Peers, NEW data \in Data, Signal(r, p, to, t, data)
        PROVE  Segment
    BY <2>1, ReplySegment, IdleSegment DEF Signal, Moves
  <2>2. CASE Leave(r, p, t)
    BY <2>2, ReplySegment, IdleSegment DEF Leave, Moves
  <2>3. ASSUME NEW target \in Peers, Kick(r, p, target, t) PROVE Segment
    BY <2>3, ReplySegment, IdleSegment DEF Kick, Moves
  <2> QED
    BY <1>2, <2>1, <2>2, <2>3, JoinSegment DEF Parsed
<1>3. ASSUME NEW r \in Requests, Continue(r) PROVE Segment
  <2>1. CASE BadRequest(r)
    BY <2>1, ReplySegment DEF BadRequest, Moves
  <2>2. CASE PollElapsed(r)
    BY <2>2, IdleSegment DEF PollElapsed
  <2> QED
    BY <1>2, <1>3, <2>1, <2>2, JoinHashedSegment, SignalAuthedSegment,
       PollAuthedSegment, PollResumedSegment, LeaveAuthedSegment, KickAuthedSegment
       DEF Continue
<1>4. ASSUME NEW r \in Requests, Deliver(r) PROVE Segment
  BY <1>4, IdleSegment DEF Deliver, Idle
<1> QED
  BY <1>1, <1>3, <1>4 DEF Next

-----------------------------------------------------------------------------
(* What each of them changes *)

\* The same members at the same addresses, in the same order, under the same host.
Unmoved(old, new) ==
    /\ Joined(new) = Joined(old)
    /\ new.hostPeerID = old.hostPeerID
    /\ new.memberCap = old.memberCap
    /\ \A p \in Joined(old) : /\ new.members[p].octet = old.members[p].octet
                              /\ new.members[p].joinedAt = old.members[p].joinedAt

\* Setting lastSeen moves nobody and touches no mail.
LEMMA SeenEffect ==
  ASSUME NEW rm, RoomInv(rm), NEW p \in Joined(rm), NEW seen \in {"recent", "stale"}
  PROVE  LET new == SetLastSeen(rm, p, seen) IN
         /\ RoomInv(new)
         /\ Unmoved(rm, new)
         /\ InboxesFit(rm) => InboxesFit(new)
<1> DEFINE new == SetLastSeen(rm, p, seen)
<1>1. /\ RoomInv(new) /\ Joined(new) = Joined(rm)
      /\ new.hostPeerID = rm.hostPeerID /\ new.memberCap = rm.memberCap
      /\ \A q \in Joined(rm) \ {p} : new.members[q] = rm.members[q]
      /\ new.members[p].octet = rm.members[p].octet
      /\ new.members[p].joinedAt = rm.members[p].joinedAt
      /\ new.members[p].inbox = rm.members[p].inbox
  <2> HIDE DEF new
  <2>1. CASE seen = "recent"
    BY <2>1, LastSeenInv DEF new
  <2>2. CASE seen = "stale"
    BY <2>2, LastSeenInv DEF new
  <2> QED
    BY <2>1, <2>2
<1> HIDE DEF new
<1>2. Unmoved(rm, new)
  BY <1>1 DEF Unmoved
<1>3. InboxesFit(rm) => InboxesFit(new)
  BY <1>1 DEF InboxesFit, Joined
<1> QED
  BY <1>1, <1>2, <1>3 DEF new

\* Nor does replacing mail move anybody.
LEMMA InboxEffect ==
  ASSUME NEW rm, RoomInv(rm), NEW p \in Joined(rm), NEW inbox \in Mail
  PROVE  LET new == SetInbox(rm, p, inbox) IN
         /\ RoomInv(new)
         /\ Unmoved(rm, new)
         /\ InboxesFit(rm) /\ Len(inbox) <= MaxInbox => InboxesFit(new)
<1> DEFINE new == SetInbox(rm, p, inbox)
<1>1. /\ RoomInv(new) /\ Joined(new) = Joined(rm)
      /\ new.hostPeerID = rm.hostPeerID /\ new.memberCap = rm.memberCap
      /\ \A q \in Joined(rm) \ {p} : new.members[q] = rm.members[q]
      /\ new.members[p].octet = rm.members[p].octet
      /\ new.members[p].joinedAt = rm.members[p].joinedAt
      /\ new.members[p].inbox = inbox
  BY InboxInv
<1> HIDE DEF new
<1>2. Unmoved(rm, new)
  BY <1>1 DEF Unmoved
<1>3. InboxesFit(rm) /\ Len(inbox) <= MaxInbox => InboxesFit(new)
  BY <1>1 DEF InboxesFit, Joined
<1> QED
  BY <1>1, <1>2, <1>3 DEF new

\* A signal drops the oldest message of a full inbox.
LEMMA PostEffect ==
  ASSUME NEW rm, RoomInv(rm), NEW p \in Joined(rm), NEW msg \in Message
  PROVE  /\ Unmoved(rm, Post(rm, p, msg))
         /\ InboxesFit(rm) => InboxesFit(Post(rm, p, msg))
<1> DEFINE inbox == rm.members[p].inbox
           kept == IF Len(inbox) >= MaxInbox THEN Tail(inbox) ELSE inbox
           posted == SetInbox(rm, p, Append(kept, msg))
<1>1. inbox \in Seq(Message) /\ Len(inbox) \in Nat
  BY MemberType DEF Member, Mail
<1>2. /\ kept \in Seq(Message)
      /\ Len(inbox) <= MaxInbox => Len(kept) + 1 <= MaxInbox
  <2>1. CASE Len(inbox) >= MaxInbox
    <3>1. inbox # <<>>
      BY <1>1, <2>1, LimitAssumption
    <3>2. Tail(inbox) \in Seq(Message) /\ Len(Tail(inbox)) = Len(inbox) - 1
      BY <1>1, <3>1
    <3> QED
      BY <1>1, <2>1, <3>2, LimitAssumption
  <2>2. CASE ~(Len(inbox) >= MaxInbox)
    BY <1>1, <2>2, LimitAssumption
  <2> QED
    BY <2>1, <2>2
<1> HIDE DEF kept
<1>3. Append(kept, msg) \in Mail /\ Len(Append(kept, msg)) = Len(kept) + 1
  BY <1>2 DEF Mail
<1>4. InboxesFit(rm) => Len(Append(kept, msg)) <= MaxInbox
  BY <1>2, <1>3 DEF InboxesFit, Joined
<1>5. /\ RoomInv(posted) /\ Unmoved(rm, posted)
      /\ InboxesFit(rm) => InboxesFit(posted)
  BY <1>3, <1>4, InboxEffect
<1>6. Post(rm, p, msg) = Bump(posted)
  BY DEF Post, kept
<1> HIDE DEF posted
<1>7. /\ Bump(posted).members = posted.members
      /\ Bump(posted).hostPeerID = posted.hostPeerID
      /\ Bump(posted).memberCap = posted.memberCap
  BY <1>5, BumpInv
<1> QED
  BY <1>5, <1>6, <1>7 DEF Unmoved, InboxesFit, Joined

\* Nor does another name.
LEMMA NameEffect ==
  ASSUME NEW rm, RoomInv(rm), NEW p \in Joined(rm), NEW name \in Names
  PROVE  LET new == SetName(rm, p, name) IN
         /\ RoomInv(new)
         /\ Unmoved(rm, new)
         /\ InboxesFit(rm) => InboxesFit(new)
<1> DEFINE new == SetName(rm, p, name)
<1>1. /\ RoomInv(new) /\ Joined(new) = Joined(rm)
      /\ new.hostPeerID = rm.hostPeerID /\ new.memberCap = rm.memberCap
      /\ \A q \in Joined(rm) \ {p} : new.members[q] = rm.members[q]
      /\ new.members[p].octet = rm.members[p].octet
      /\ new.members[p].joinedAt = rm.members[p].joinedAt
      /\ new.members[p].inbox = rm.members[p].inbox
  BY NameInv
<1> HIDE DEF new
<1>2. Unmoved(rm, new)
  BY <1>1 DEF Unmoved
<1>3. InboxesFit(rm) => InboxesFit(new)
  BY <1>1 DEF InboxesFit, Joined
<1> QED
  BY <1>1, <1>2, <1>3 DEF new

LEMMA UpdateEffect ==
  ASSUME RoomInv(room), NEW p \in Joined(room), NEW rm, Updates(rm, p)
  PROVE  /\ Unmoved(room, rm)
         /\ InboxesFit(room) => InboxesFit(rm)
<1>1. CASE \E name \in Names : rm = Rejoin(room, p, name)
  <2>1. PICK name \in Names : rm = Rejoin(room, p, name)
    BY <1>1
  <2> DEFINE named == SetName(room, p, name)
  <2>2. /\ RoomInv(named) /\ Unmoved(room, named)
        /\ InboxesFit(room) => InboxesFit(named)
    BY NameEffect
  <2>3. rm = SetLastSeen(named, p, "recent")
    BY <2>1 DEF Rejoin, Touch
  <2> HIDE DEF named
  <2>4. p \in Joined(named)
    BY <2>2 DEF Unmoved
  <2>5. Unmoved(named, rm) /\ (InboxesFit(named) => InboxesFit(rm))
    BY <2>2, <2>3, <2>4, SeenEffect
  <2> QED
    BY <2>2, <2>5 DEF Unmoved
<1>2. CASE rm = Drain(room, p)
  <2> DEFINE emptied == SetInbox(room, p, <<>>)
  <2>1. <<>> \in Mail /\ Len(<<>>) <= MaxInbox
    BY LimitAssumption DEF Mail
  <2>2. /\ RoomInv(emptied) /\ Unmoved(room, emptied)
        /\ InboxesFit(room) => InboxesFit(emptied)
    BY <2>1, InboxEffect
  <2>3. rm = SetLastSeen(emptied, p, "recent")
    BY <1>2 DEF Drain, Touch
  <2> HIDE DEF emptied
  <2>4. p \in Joined(emptied)
    BY <2>2 DEF Unmoved
  <2>5. Unmoved(emptied, rm) /\ (InboxesFit(emptied) => InboxesFit(rm))
    BY <2>2, <2>3, <2>4, SeenEffect
  <2> QED
    BY <2>2, <2>5 DEF Unmoved
<1>3. CASE rm = SetLastSeen(room, p, "stale")
  BY <1>3, SeenEffect
<1>4. CASE \E msg \in Message : rm = Post(room, p, msg)
  BY <1>4, PostEffect
<1> QED
  BY <1>1, <1>2, <1>3, <1>4 DEF Updates

\* Who stays when others go stays as it was.
LEMMA RemoveEffect ==
  ASSUME RoomInv(room), NEW S, NEW bans \in SUBSET Peers, NEW rm, Removes(rm, S, bans)
  PROVE  /\ RoomInv(rm)
         /\ Joined(rm) = Joined(room) \ S
         /\ \A p \in Joined(rm) : rm.members[p] = room.members[p]
         /\ Joined(rm) # {} => rm.memberCap = room.memberCap
<1> DEFINE removed == RemoveMembers(room, S, bans)
<1>1. /\ RoomInv(removed)
      /\ Joined(removed) = Joined(room) \ S
      /\ \A p \in Joined(removed) : removed.members[p] = room.members[p]
      /\ Joined(removed) # {} => removed.memberCap = room.memberCap
  BY RemoveMembersInv
<1>2. rm = Bump(removed)
  BY DEF Removes
<1> HIDE DEF removed
<1> QED
  BY <1>1, <1>2, BumpInv

\* So does everybody when somebody comes.
LEMMA AdmitEffect ==
  ASSUME RoomInv(room), NEW p \in Peers, NEW t \in Credentials,
         NEW edition \in Editions, NEW rm, Admits(rm, p, t, edition)
  PROVE  /\ RoomInv(rm)
         /\ Joined(rm) = Joined(room) \cup {p}
         /\ \A q \in Joined(room) : rm.members[q] = room.members[q]
         /\ rm.members[p].joinedAt = room.version
         /\ rm.members[p].inbox = <<>>
         /\ Joined(room) = {} => rm.hostPeerID = p
         /\ Joined(room) # {} => /\ rm.hostPeerID = room.hostPeerID
                                 /\ rm.memberCap = room.memberCap
<1>0. PICK name \in Names : rm = Admit(Found(room, p, edition), p, t, name)
  BY DEF Admits
<1> DEFINE admitted == Admit(Found(room, p, edition), p, t, name)
<1>1. rm = admitted /\ p \notin Joined(room) /\ ~Full(Found(room, p, edition))
  BY <1>0 DEF Admits
<1>2. /\ RoomInv(admitted)
      /\ Joined(admitted) = Joined(room) \cup {p}
      /\ \A q \in Joined(room) : admitted.members[q] = room.members[q]
      /\ admitted.members[p].joinedAt = room.version
      /\ admitted.members[p].inbox = <<>>
      /\ Joined(room) = {} => admitted.hostPeerID = p
      /\ Joined(room) # {} => /\ admitted.hostPeerID = room.hostPeerID
                              /\ admitted.memberCap = room.memberCap
  BY <1>1, AdmitInv
<1> HIDE DEF admitted
<1> QED
  BY <1>1, <1>2

-----------------------------------------------------------------------------
(* Inboxes *)

LEMMA MovesFit ==
  ASSUME IInv, InboxesFit(room), NEW rm, Moves(rm)
  PROVE  InboxesFit(rm)
<1>1. RoomInv(room)
  BY DEF IInv
<1>2. ASSUME NEW p \in Joined(room), Updates(rm, p) PROVE InboxesFit(rm)
  BY <1>1, <1>2, UpdateEffect
<1>3. ASSUME NEW S \in SUBSET Peers, NEW bans \in SUBSET Peers, Removes(rm, S, bans)
      PROVE  InboxesFit(rm)
  <2>1. /\ Joined(rm) = Joined(room) \ S
        /\ \A p \in Joined(rm) : rm.members[p] = room.members[p]
    BY <1>1, <1>3, RemoveEffect
  <2> QED
    BY <2>1 DEF InboxesFit, Joined
<1>4. ASSUME NEW p \in Peers, NEW t \in Credentials, NEW edition \in Editions,
             Admits(rm, p, t, edition)
      PROVE  InboxesFit(rm)
  <2>1. Len(<<>>) <= MaxInbox
    BY LimitAssumption
  <2>2. /\ Joined(rm) = Joined(room) \cup {p}
        /\ \A q \in Joined(room) : rm.members[q] = room.members[q]
        /\ rm.members[p].inbox = <<>>
    BY <1>1, <1>4, AdmitEffect
  <2> QED
    BY <2>1, <2>2 DEF InboxesFit, Joined
<1> QED
  BY <1>2, <1>3, <1>4 DEF Moves

LEMMA StepFits == IInv /\ InboxesFit(room) /\ [Next]_vars => InboxesFit(room)'
<1> SUFFICES ASSUME IInv, InboxesFit(room), [Next]_vars PROVE InboxesFit(room')
  OBVIOUS
<1>1. CASE Segment
  BY <1>1, MovesFit DEF Segment, Step
<1>2. ASSUME NEW p \in Peers, Lapse(p) PROVE InboxesFit(room')
  BY <1>2, SeenEffect DEF Lapse, IInv
<1>3. CASE UNCHANGED vars
  BY <1>3 DEF vars
<1> QED
  BY <1>1, <1>2, <1>3, NextSegment

\* Every field of the object and of its requests keeps its type, and no member's
\* mail outgrows its inbox, however many signals overlap.
THEOREM TypeCorrect == Spec => []TypeOK
<1>1. Init => InboxesFit(room)
  <2>1. Joined(NewRoom) = {}
    BY DEF NewRoom, Joined
  <2> QED
    BY <2>1 DEF Init, InboxesFit, Joined
<1>2. IInv /\ InboxesFit(room) => TypeOK
  BY DEF IInv, RoomInv, RequestInv, TypeOK
<1> QED
  BY <1>1, <1>2, StepFits, Invariance, PTL DEF Spec

-----------------------------------------------------------------------------
(* Bans *)

\* Of the requests that wait, none becomes a join.
LEMMA NoticeStartsNoJoin ==
  ASSUME NEW q, q \in Pending \/ IsViewed(q), NEW rm, Notice(q, rm).pc = "joinHash"
  PROVE  Notice(q, rm) = q
<1>1. CASE q.pc = "held" /\ rm.version # room.version
  BY <1>1 DEF Notice
<1>2. CASE q.pc = "pollAuth"
  <2>1. q \in [pc : {"pollAuth"}, peer : Peers, object : Nat, mail : Mail,
               version : Nat]
    BY <1>2, RequestKinds
  <2> QED
    BY <1>2, <2>1 DEF Notice
<1> QED
  BY <1>1, <1>2 DEF Notice

\* Whom the room does not know is not brought in by a segment unless it comes.
LEMMA MovesAdmit ==
  ASSUME RoomInv(room), NEW rm, Moves(rm), NEW p \in Peers, ShutOut(p)
  PROVE  p \notin Joined(rm)
<1>1. p \notin Joined(room)
  BY DEF ShutOut
<1>2. ASSUME NEW x \in Joined(room), Updates(rm, x) PROVE p \notin Joined(rm)
  BY <1>1, <1>2, UpdateEffect DEF Unmoved
<1>3. ASSUME NEW S \in SUBSET Peers, NEW bans \in SUBSET Peers, Removes(rm, S, bans)
      PROVE  p \notin Joined(rm)
  <2>1. Joined(rm) = Joined(room) \ S
    BY <1>3, RemoveEffect
  <2> QED
    BY <1>1, <2>1
<1>4. ASSUME NEW x \in Peers, NEW t \in Credentials, NEW edition \in Editions,
             Admits(rm, x, t, edition)
      PROVE  p \notin Joined(rm)
  <2>1. Joined(rm) = Joined(room) \cup {x} /\ x # p
    BY <1>4, AdmitEffect DEF Admits
  <2> QED
    BY <1>1, <2>1
<1> QED
  BY <1>1, <1>2, <1>3, <1>4 DEF Moves

\* A step keeps out whom it does not pardon: a join is either already past the
\* ban check, or it is checked against the ban before it waits for its hash.
LEMMA StepShutsOut ==
  ASSUME IInv, [Next]_vars, NEW p \in Peers, ShutOut(p), p \in room'.banned
  PROVE  ShutOut(p)'
<1>1. RoomInv(room)
  BY DEF IInv
<1>2. CASE Segment
  <2>1. PICK r \in Requests :
          \E rm, q : Step(r, rm, q) /\ Moves(rm) /\ Unbanned(q)
    BY <1>2 DEF Segment
  <2>2. PICK rm, q : Step(r, rm, q) /\ Moves(rm) /\ Unbanned(q)
    BY <2>1
  <2>3. /\ room' = rm
        /\ req' = [s \in Requests |-> IF s = r THEN q ELSE Notice(req[s], rm)]
    BY <2>2 DEF Step
  <2>4. p \notin Joined(room')
    BY <1>1, <2>2, <2>3, MovesAdmit
  <2>5. ASSUME NEW s \in Requests, req'[s].pc = "joinHash" PROVE req'[s].peer # p
    <3>1. CASE s = r
      <4>1. req'[s] = q
        BY <2>3, <3>1
      <4> QED
        BY <2>2, <2>5, <4>1 DEF Unbanned, Banned, ShutOut
    <3>2. CASE s # r
      <4>1. req'[s] = Notice(req[s], rm)
        BY <2>3, <3>2
      <4>2. req[s] \in Pending \/ IsViewed(req[s])
        BY DEF IInv, RequestInv
      <4>3. req'[s] = req[s]
        BY <2>5, <4>1, <4>2, NoticeStartsNoJoin
      <4> QED
        BY <2>5, <4>3 DEF ShutOut
    <3> QED
      BY <3>1, <3>2
  <2> QED
    BY <2>4, <2>5 DEF ShutOut
<1>3. ASSUME NEW x \in Peers, Lapse(x) PROVE ShutOut(p)'
  <2>1. Joined(room') = Joined(room)
    BY <1>1, <1>3, SeenEffect DEF Lapse, Unmoved
  <2>2. req' = req
    BY <1>3 DEF Lapse
  <2> QED
    BY <2>1, <2>2 DEF ShutOut
<1>4. CASE UNCHANGED vars
  BY <1>4 DEF vars, ShutOut
<1> QED
  BY <1>2, <1>3, <1>4, NextSegment

\* A banned peer that no join already past the ban check can bring back stays out
\* until the last member leaves.
THEOREM BannedAlwaysStayOut == Spec => BannedStayOut
<1>1. IInv /\ [Next]_vars =>
        [\A p \in Peers : ShutOut(p) /\ p \in room'.banned => ShutOut(p)']_vars
  BY StepShutsOut
<1> QED
  BY <1>1, Invariance, PTL DEF Spec, BannedStayOut

-----------------------------------------------------------------------------
(* RoomMembership *)

\* The pairs that Before holds, for any room.
Order(rm) == {pair \in Joined(rm) \X Joined(rm) :
                rm.members[pair[1]].joinedAt < rm.members[pair[2]].joinedAt}

\* In a sound room the member that came first is the host, and nobody else did.
LEMMA HostIsFirst ==
  ASSUME NEW rm, RoomInv(rm), Joined(rm) # {}
  PROVE  rm.hostPeerID = Membership!First(Joined(rm), Order(rm))
<1> DEFINE IsFirst(p) == \A q \in Joined(rm) \ {p} : <<p, q>> \in Order(rm)
           host == rm.hostPeerID
<1>1. \A p \in Joined(rm) : rm.members[p].joinedAt \in Nat
  BY MemberType DEF Member
<1>2. host \in Joined(rm) /\ IsFirst(host)
  BY DEF RoomInv, Hosted, Order
<1>3. ASSUME NEW p \in Joined(rm), IsFirst(p) PROVE p = host
  <2> SUFFICES ASSUME p # host PROVE FALSE
    OBVIOUS
  <2>1. <<p, host>> \in Order(rm) /\ <<host, p>> \in Order(rm)
    BY <1>2, <1>3
  <2> QED
    BY <1>1, <1>2, <2>1 DEF Order
<1>4. Membership!First(Joined(rm), Order(rm)) = CHOOSE p \in Joined(rm) : IsFirst(p)
  BY DEF Membership!First
<1> HIDE DEF IsFirst, host
<1> QED
  BY <1>2, <1>3, <1>4 DEF host

\* A new object is an empty room.
LEMMA MembershipStarts == Init => Membership!RoomInit
<1> SUFFICES ASSUME Init PROVE Membership!RoomInit
  OBVIOUS
<1>1. Joined(room) = {}
  <2>1. Joined(NewRoom) = {}
    BY DEF NewRoom, Joined
  <2> QED
    BY <2>1 DEF Init
<1>2. AddressesOf(room) = <<>> /\ Before = {}
  BY <1>1 DEF AddressesOf, Before
<1>3. room.hostPeerID = NoPeer /\ room.memberCap = 0
  BY DEF Init, NewRoom
<1> QED
  BY <1>1, <1>2, <1>3 DEF Membership!RoomInit

\* Who only refreshes, reads or writes mail is not seen by the membership.
LEMMA UnmovedStutters ==
  ASSUME NEW rm, Unmoved(room, rm), room' = rm
  PROVE  UNCHANGED <<Joined(room), AddressesOf(room), Before, room.hostPeerID, room.memberCap>>
<1>1. Joined(room') = Joined(room) /\ room'.hostPeerID = room.hostPeerID
      /\ room'.memberCap = room.memberCap
  BY DEF Unmoved
<1>2. AddressesOf(room') = AddressesOf(room)
  BY DEF Unmoved, AddressesOf
<1>3. Before' = Before
  BY DEF Unmoved, Before
<1> QED
  BY <1>1, <1>2, <1>3

\* Removals are departures.
LEMMA RemovalDeparts ==
  ASSUME RoomInv(room), NEW S \in SUBSET Peers, NEW bans \in SUBSET Peers,
         Removes(room', S, bans)
  PROVE  Membership!Depart(S \cap Joined(room))
<1> DEFINE gone == S \cap Joined(room)
           staying == Joined(room) \ gone
<1>1. /\ RoomInv(room')
      /\ Joined(room') = staying
      /\ \A p \in staying : room'.members[p] = room.members[p]
      /\ staying # {} => room'.memberCap = room.memberCap
  <2>1. /\ RoomInv(room')
        /\ Joined(room') = Joined(room) \ S
        /\ \A p \in Joined(room') : room'.members[p] = room.members[p]
        /\ Joined(room') # {} => room'.memberCap = room.memberCap
    BY RemoveEffect
  <2>2. Joined(room) \ S = staying
    OBVIOUS
  <2> HIDE DEF staying
  <2> QED
    BY <2>1, <2>2
<1>2. gone # {}
  BY DEF Removes
<1>3. staying \subseteq Joined(room)
  OBVIOUS
<1> HIDE DEF gone
<1>4. AddressesOf(room') = [p \in staying |-> AddressesOf(room)[p]]
  <2> HIDE DEF staying
  <2> QED
    BY <1>1, <1>3 DEF AddressesOf
<1>5. Before' = Before \cap (staying \X staying)
  <2> HIDE DEF staying
  <2> QED
    BY <1>1, <1>3 DEF Before
<1>6. room'.hostPeerID = IF staying = {} THEN NoPeer ELSE Membership!First(staying, Before')
  <2>1. CASE staying = {}
    BY <1>1, <2>1 DEF RoomInv, Forgetful
  <2>2. CASE staying # {}
    <3>1. Before' = Order(room')
      BY DEF Before, Order
    <3> HIDE DEF staying
    <3> QED
      BY <1>1, <2>2, <3>1, HostIsFirst
  <2> QED
    BY <2>1, <2>2
<1>7. room'.memberCap = IF staying = {} THEN 0 ELSE room.memberCap
  BY <1>1 DEF RoomInv, Forgetful
<1> QED
  BY <1>1, <1>2, <1>4, <1>5, <1>6, <1>7 DEF Membership!Depart, gone

\* RoomMembership counts as Coordinator does.
LEMMA SameCount == \A S : Membership!Cardinality(S) = Cardinality(S)
  BY DEF Membership!Cardinality, Cardinality

\* Admissions are arrivals, at an address that was free.
LEMMA AdmissionComes ==
  ASSUME RoomInv(room), NEW p \in Peers, NEW t \in Credentials,
         NEW edition \in Editions, Admits(room', p, t, edition)
  PROVE  \E a \in Octets : Membership!Come(p, a)
<1> DEFINE a == room'.members[p].octet
<1>1. /\ RoomInv(room')
      /\ Joined(room') = Joined(room) \cup {p}
      /\ \A q \in Joined(room) : room'.members[q] = room.members[q]
      /\ room'.members[p].joinedAt = room.version
      /\ Joined(room) = {} => room'.hostPeerID = p
      /\ Joined(room) # {} => /\ room'.hostPeerID = room.hostPeerID
                              /\ room'.memberCap = room.memberCap
  BY AdmitEffect
<1>2. p \notin Joined(room)
  BY DEF Admits
<1>3. a \in Octets /\ \A q \in Joined(room) : AddressesOf(room)[q] # a
  BY <1>1, <1>2 DEF RoomInv, Addressed, AddressesOf
<1>4. AddressesOf(room') = [q \in Joined(room') |-> IF q = p THEN a ELSE AddressesOf(room)[q]]
  BY <1>1 DEF AddressesOf
<1>5. Before' = Before \cup (Joined(room) \X {p})
  <2>1. /\ room.version \in Nat
        /\ \A q \in Joined(room) : /\ room.members[q].joinedAt \in Nat
                                   /\ room.members[q].joinedAt < room.version
    BY MemberType DEF RoomInv, IsRoom, Fields, Dated, Member
  <2>2. ASSUME NEW x \in Joined(room'), NEW y \in Joined(room')
        PROVE  room'.members[x].joinedAt < room'.members[y].joinedAt <=>
                 \/ /\ x \in Joined(room) /\ y \in Joined(room)
                    /\ room.members[x].joinedAt < room.members[y].joinedAt
                 \/ x \in Joined(room) /\ y = p
    BY <1>1, <1>2, <2>1
  <2> QED
    BY <1>1, <2>2 DEF Before
<1>6. /\ room'.memberCap \in {GlobalCap, CommunityCap}
      /\ Cardinality(Joined(room')) <= room'.memberCap
  BY <1>1 DEF RoomInv, Capped
<1>7. IF Joined(room) = {}
      THEN room'.hostPeerID = p /\ room'.memberCap \in {GlobalCap, CommunityCap}
      ELSE room'.hostPeerID = room.hostPeerID /\ room'.memberCap = room.memberCap
  BY <1>1, <1>6
<1> HIDE DEF a
<1>8. Membership!Come(p, a)
  BY <1>1, <1>2, <1>3, <1>4, <1>5, <1>6, <1>7, SameCount
     DEF Membership!Come
<1> QED
  BY <1>3, <1>8

\* What a segment does to the room is a departure, an arrival, or nothing.
LEMMA MembershipStep ==
  IInv /\ [Next]_vars =>
    [Membership!RoomNext]_<<Joined(room), AddressesOf(room), Before, room.hostPeerID,
                            room.memberCap>>
<1> DEFINE view == <<Joined(room), AddressesOf(room), Before, room.hostPeerID, room.memberCap>>
<1> SUFFICES ASSUME IInv, [Next]_vars PROVE Membership!RoomNext \/ UNCHANGED view
  OBVIOUS
<1>1. RoomInv(room)
  BY DEF IInv
<1>2. ASSUME Moves(room') PROVE Membership!RoomNext \/ UNCHANGED view
  <2>1. CASE room' = room
    BY <2>1 DEF Before
  <2>2. ASSUME NEW p \in Joined(room), Updates(room', p) PROVE UNCHANGED view
    <3>1. Unmoved(room, room')
      BY <1>1, <2>2, UpdateEffect
    <3> QED
      BY <3>1, UnmovedStutters
  <2>3. ASSUME NEW S \in SUBSET Peers, NEW bans \in SUBSET Peers, Removes(room', S, bans)
        PROVE  Membership!RoomNext
    BY <1>1, <2>3, RemovalDeparts DEF Membership!RoomNext
  <2>4. ASSUME NEW p \in Peers, NEW t \in Credentials, NEW edition \in Editions,
               Admits(room', p, t, edition)
        PROVE  Membership!RoomNext
    BY <1>1, <2>4, AdmissionComes DEF Membership!RoomNext
  <2> HIDE DEF view
  <2> QED
    BY <1>2, <2>1, <2>2, <2>3, <2>4 DEF Moves
<1>3. Segment => Moves(room')
  BY DEF Segment, Step
<1>4. ASSUME NEW p \in Peers, Lapse(p) PROVE UNCHANGED view
  <2>1. Unmoved(room, room')
    BY <1>1, <1>4, SeenEffect DEF Lapse
  <2> QED
    BY <2>1, UnmovedStutters
<1>5. CASE UNCHANGED vars
  BY <1>5 DEF vars, Before
<1> HIDE DEF view
<1> QED
  BY <1>2, <1>3, <1>4, <1>5, NextSegment

\* The handlers, interleaved at their awaits, implement the sequential room: one
\* membership, one order of arrival, one address each, and the host is always
\* the first of those present.
THEOREM RefinesRoomMembership == Spec => ImplementsRoomMembership
<1>1. Spec => Membership!RoomInit
              /\ [][Membership!RoomNext]_<<Joined(room), AddressesOf(room), Before,
                                          room.hostPeerID, room.memberCap>>
  BY MembershipStarts, MembershipStep, Invariance, PTL DEF Spec
<1> QED
  BY <1>1 DEF ImplementsRoomMembership, Membership!RoomSpec, Membership!roomVars

-----------------------------------------------------------------------------
(* What follows from the refinement *)

\* A departure passes the role on only if the host is among those who go.
LEMMA DepartureKeepsHost ==
  ASSUME RoomInv(room), RoomInv(room'), NEW gone, Membership!Depart(gone),
         room.hostPeerID \in Joined(room')
  PROVE  room'.hostPeerID = room.hostPeerID
<1> DEFINE old == room.hostPeerID
           new == room'.hostPeerID
<1> SUFFICES ASSUME new # old PROVE FALSE
  OBVIOUS
<1>1. new \in Joined(room') /\ old \in Joined(room') /\ Joined(room') \subseteq Joined(room)
  BY DEF RoomInv, Hosted, Membership!Depart
<1>2. <<new, old>> \in Before'
  BY <1>1 DEF RoomInv, Hosted, Before
<1>3. <<new, old>> \in Before
  BY <1>2 DEF Membership!Depart
<1>4. <<old, new>> \in Before
  BY <1>1 DEF RoomInv, Hosted, Before
<1>5. room.members[old].joinedAt \in Nat /\ room.members[new].joinedAt \in Nat
  BY <1>1, MemberType DEF RoomInv, Member
<1> QED
  BY <1>3, <1>4, <1>5 DEF Before

\* Whatever comes and goes, a member that stays keeps its address, and the host its
\* role.
THEOREM PlacesAlwaysKept == Spec => MembersKeepPlaces
<1> DEFINE Kept == \A p \in Joined(room) \cap Joined(room') :
                      /\ room'.members[p].octet = room.members[p].octet
                      /\ p = room.hostPeerID => p = room'.hostPeerID
<1>1. ASSUME IInv, IInv', [Next]_vars PROVE Kept
  <2> SUFFICES ASSUME NEW p \in Joined(room), p \in Joined(room')
               PROVE  /\ AddressesOf(room')[p] = AddressesOf(room)[p]
                      /\ p = room.hostPeerID => p = room'.hostPeerID
    BY DEF AddressesOf
  <2>1. RoomInv(room) /\ RoomInv(room')
    BY <1>1 DEF IInv
  <2>2. ASSUME NEW gone, Membership!Depart(gone)
        PROVE  /\ AddressesOf(room')[p] = AddressesOf(room)[p]
               /\ p = room.hostPeerID => p = room'.hostPeerID
    <3>1. AddressesOf(room') = [q \in Joined(room') |-> AddressesOf(room)[q]]
      BY <2>2 DEF Membership!Depart
    <3>2. AddressesOf(room')[p] = AddressesOf(room)[p]
      BY <3>1
    <3> QED
      BY <2>1, <2>2, <3>2, DepartureKeepsHost
  <2>3. ASSUME NEW q, NEW a, Membership!Come(q, a)
        PROVE  /\ AddressesOf(room')[p] = AddressesOf(room)[p]
               /\ p = room.hostPeerID => p = room'.hostPeerID
    <3>1. /\ q \notin Joined(room)
          /\ AddressesOf(room') =
                [x \in Joined(room') |-> IF x = q THEN a ELSE AddressesOf(room)[x]]
          /\ room'.hostPeerID = room.hostPeerID
      BY <2>3 DEF Membership!Come
    <3>2. AddressesOf(room')[p] = AddressesOf(room)[p]
      BY <3>1
    <3> QED
      BY <3>1, <3>2
  <2> QED
    BY <1>1, <2>2, <2>3, MembershipStep DEF Membership!RoomNext
<1>2. Spec => [][Kept]_vars
  BY <1>1, Invariance, PTL DEF Spec
<1> QED
  BY <1>2 DEF MembersKeepPlaces

=============================================================================
