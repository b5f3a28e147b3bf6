------------------------------ MODULE PeerLink ------------------------------
(***************************************************************************)
(* The two Peer objects that two engines keep for each other               *)
(* (client/engine/mesh.go, run and connectOnce) and the way of their       *)
(* offers: signal posts an offer at the coordinator, the poll loop of the  *)
(* other engine fetches all that wait there into the object's sigInbox,    *)
(* and connectOnce takes the oldest.                                       *)
(*                                                                         *)
(* An offer holds the credentials of one attempt.  All that matters of it  *)
(* is whether its sender is still at that attempt: an offer is "current"   *)
(* until then and "spent" after.  ICE joins the two ends exactly if each   *)
(* dials with the current offer of the other.                              *)
(*                                                                         *)
(* Time passes in seconds, and only when nobody has anything to do at      *)
(* once: timer[s] is what is left of the pause, the wait, the dial or the  *)
(* time that side s needs to notice that its connection is dead.           *)
(***************************************************************************)
EXTENDS Integers, Sequences

CONSTANTS
    Sides,          \* the two engines
    InboxCap,       \* capacity of sigInbox, 8 in the code
    MailCap,        \* MAX_INBOX_MESSAGES of the coordinator, 128 in the code
    WaitTime,       \* 20, for the other's offer
    DialTime,       \* 30, for ICE to connect
    RetryPause,     \* 3, after an attempt that failed
    ReconnectPause, \* 1, after a connection that died
    GatherTime,     \* bound on the time gathering candidates takes
    MaxLate,        \* bound on the start of one engine after the other
    NoticeTime,     \* bound on the time to notice a dead connection
    MaxBreaks,      \* bound on connections that die
    MaxLosses       \* bound on offers that are lost

ASSUME SidesAssumption == \E a \in Sides, b \in Sides : a # b /\ Sides = {a, b}

ASSUME CapAssumption == InboxCap \in Nat \ {0} /\ MailCap \in Nat \ {0}

ASSUME TimeAssumption ==
    /\ WaitTime \in Nat \ {0} /\ DialTime \in Nat \ {0}
    /\ RetryPause \in Nat \ {0} /\ ReconnectPause \in Nat \ {0}
    /\ GatherTime \in Nat /\ MaxLate \in Nat /\ NoticeTime \in Nat

ASSUME FaultAssumption == MaxBreaks \in Nat /\ MaxLosses \in Nat

VARIABLES
    at,         \* where run is on either side
    timer,
    held,       \* the offer connectOnce took
    mail,       \* offers for a side that wait at the coordinator
    sigInbox,   \* offers for a side that wait in its Peer object
    broken,     \* the connection is dead and not both ends have noticed
    breaks, losses

queues == <<mail, sigInbox>>
faults == <<breaks, losses>>
vars == <<at, timer, held, queues, broken, faults>>

Offers == {"current", "spent"}

TypeRun ==
    /\ at \in [Sides -> {"absent", "pause", "wait", "dial", "read"}]
    /\ timer \in [Sides -> Nat]
    /\ held \in [Sides -> Offers]

TypeMail == mail \in [Sides -> Seq(Offers)] /\ \A s \in Sides : Len(mail[s]) <= MailCap

TypeInbox ==
    sigInbox \in [Sides -> Seq(Offers)] /\ \A s \in Sides : Len(sigInbox[s]) <= InboxCap

TypeFaults == broken \in BOOLEAN /\ breaks \in 0 .. MaxBreaks /\ losses \in 0 .. MaxLosses

TypeOK == TypeRun /\ TypeMail /\ TypeInbox /\ TypeFaults

\* Both engines are in the room, and one may not have begun to poll.
Init ==
    /\ at = [s \in Sides |-> "absent"]
    /\ timer \in [Sides -> 0 .. MaxLate]
    /\ \E s \in Sides : timer[s] = 0
    /\ held = [s \in Sides |-> "spent"]
    /\ mail = [s \in Sides |-> <<>>]
    /\ sigInbox = [s \in Sides |-> <<>>]
    /\ broken = FALSE
    /\ breaks = 0
    /\ losses = 0

Other(s) == CHOOSE t \in Sides : t # s

-----------------------------------------------------------------------------
(* Offers on their way *)

\* The coordinator appends to the inbox of a member, and drops its oldest
\* message if there are too many.
Posted(queue, offer) ==
    LET all == Append(queue, offer)
    IN  IF Len(all) > MailCap THEN Tail(all) ELSE all

\* pollLoop puts message after message into the inbox while there is room.
Delivered(queue, offers) ==
    LET all == queue \o offers
    IN  SubSeq(all, 1, IF Len(all) > InboxCap THEN InboxCap ELSE Len(all))

Spent(queue) == [n \in DOMAIN queue |-> "spent"]

-----------------------------------------------------------------------------
(* run and connectOnce of side s *)

\* The Peer object is made, and gathers.
Appear(s) ==
    /\ at[s] = "absent"
    /\ timer[s] = 0
    /\ at' = [at EXCEPT ![s] = "pause"]
    /\ \E d \in 0 .. GatherTime : timer' = [timer EXCEPT ![s] = d]
    /\ UNCHANGED <<held, queues, broken, faults>>

\* Mutation: the request is repeated when its reply is lost, though the
\* coordinator has the offer already.
SignalAgain(s) ==
    /\ at[s] = "pause"
    /\ timer[s] = 0
    /\ at' = [at EXCEPT ![s] = "wait"]
    /\ timer' = [timer EXCEPT ![s] = WaitTime]
    /\ mail' = [mail EXCEPT ![Other(s)] = Posted(Posted(@, "current"), "current")]
    /\ UNCHANGED <<held, sigInbox, broken, faults>>

\* connectOnce has gathered its candidates and posts the offer, which may get
\* lost: an error of signal is ignored.
Signal(s) ==
    /\ at[s] = "pause"
    /\ timer[s] = 0
    /\ at' = [at EXCEPT ![s] = "wait"]
    /\ timer' = [timer EXCEPT ![s] = WaitTime]
    /\ \/ /\ mail' = [mail EXCEPT ![Other(s)] = Posted(@, "current")]
          /\ UNCHANGED losses
       \/ /\ losses < MaxLosses
          /\ losses' = losses + 1
          /\ UNCHANGED mail
    /\ UNCHANGED <<held, sigInbox, broken, breaks>>

\* Mutation: sigInbox has no buffer, so that an offer is dropped unless
\* connectOnce waits for it.
FetchUnbuffered(s) ==
    /\ at[s] # "absent"
    /\ mail[s] # <<>>
    /\ mail' = [mail EXCEPT ![s] = <<>>]
    /\ sigInbox' = [sigInbox EXCEPT ![s] =
                        IF at[s] = "wait" THEN Delivered(@, mail[s]) ELSE @]
    /\ UNCHANGED <<at, timer, held, broken, faults>>

\* The reply to a poll brings the mail, or is lost and the mail with it.
Fetch(s) ==
    /\ at[s] # "absent"
    /\ mail[s] # <<>>
    /\ mail' = [mail EXCEPT ![s] = <<>>]
    /\ \/ /\ sigInbox' = [sigInbox EXCEPT ![s] = Delivered(@, mail[s])]
          /\ UNCHANGED losses
       \/ /\ losses < MaxLosses
          /\ losses' = losses + 1
          /\ UNCHANGED sigInbox
    /\ UNCHANGED <<at, timer, held, broken, breaks>>

\* The select takes an offer that is there, the oldest first.
Take(s) ==
    /\ at[s] = "wait"
    /\ sigInbox[s] # <<>>
    /\ held' = [held EXCEPT ![s] = Head(sigInbox[s])]
    /\ sigInbox' = [sigInbox EXCEPT ![s] = Tail(@)]
    /\ at' = [at EXCEPT ![s] = "dial"]
    /\ timer' = [timer EXCEPT ![s] = DialTime]
    /\ UNCHANGED <<mail, broken, faults>>

\* external: Dial and Accept of ICE succeed
Meet == \A s \in Sides : at[s] = "dial" /\ held[s] = "current"

Connect ==
    /\ Meet
    /\ at' = [s \in Sides |-> "read"]
    /\ timer' = [s \in Sides |-> 0]
    /\ UNCHANGED <<held, queues, broken, faults>>

\* The attempt of s is over: after a pause there is another, and the offers it
\* made are spent wherever they are.
GiveUp(s, pause) ==
    /\ at' = [at EXCEPT ![s] = "pause"]
    /\ \E d \in 0 .. GatherTime : timer' = [timer EXCEPT ![s] = pause + d]
    /\ held' = [held EXCEPT ![Other(s)] = "spent"]
    /\ mail' = [mail EXCEPT ![Other(s)] = Spent(@)]
    /\ sigInbox' = [sigInbox EXCEPT ![Other(s)] = Spent(@)]

\* Mutation: the select for the offer has no timeout.
TimeoutWhileDialing(s) ==
    /\ at[s] = "dial"
    /\ timer[s] = 0
    /\ GiveUp(s, RetryPause)
    /\ UNCHANGED <<broken, faults>>

\* errTimeout, or the end of the context of Dial and Accept
Timeout(s) ==
    /\ at[s] \in {"wait", "dial"}
    /\ timer[s] = 0
    /\ GiveUp(s, RetryPause)
    /\ UNCHANGED <<broken, faults>>

\* external: the connection dies; its ends notice sooner or later
Break ==
    /\ \A s \in Sides : at[s] = "read"
    /\ ~broken
    /\ breaks < MaxBreaks
    /\ breaks' = breaks + 1
    /\ broken' = TRUE
    /\ timer' \in [Sides -> 0 .. NoticeTime]
    /\ UNCHANGED <<at, held, queues, losses>>

\* readLoop returns
Die(s) ==
    /\ at[s] = "read"
    /\ broken
    /\ timer[s] = 0
    /\ broken' = (at[Other(s)] = "read")
    /\ GiveUp(s, ReconnectPause)
    /\ UNCHANGED faults

-----------------------------------------------------------------------------
(* Time *)

Busy(s) ==
    \/ mail[s] # <<>> /\ at[s] # "absent"
    \/ at[s] = "wait" /\ sigInbox[s] # <<>>
    \/ timer[s] = 0 /\ (at[s] # "read" \/ broken)

Tick ==
    /\ \A s \in Sides : ~Busy(s)
    /\ ~Meet
    /\ \E s \in Sides : timer[s] > 0
    /\ timer' = [s \in Sides |-> IF timer[s] > 0 THEN timer[s] - 1 ELSE 0]
    /\ UNCHANGED <<at, held, queues, broken, faults>>

Progress ==
    \/ Connect
    \/ Tick
    \/ \E s \in Sides :
         Appear(s) \/ Signal(s) \/ Fetch(s) \/ Take(s) \/ Timeout(s) \/ Die(s)

Next == Progress \/ Break

Spec == Init /\ [][Next]_vars

\* Time passes and goroutines run.
FairSpec == Spec /\ WF_vars(Progress)

-----------------------------------------------------------------------------
(* Properties *)

\* The offers made for a side, the oldest first.
Offered(s) == <<held[s]>> \o sigInbox[s] \o mail[s]

\* Of the offers for a side only the newest can be one to connect with, and
\* none while the other side is between two attempts.  So a side that finds
\* several in its inbox loses nothing if it skips all but the last, and dials in
\* vain for DialTime if, as in the code, it does not.
NewestIsCurrent ==
    \A s \in Sides : \A n \in DOMAIN Offered(s) :
        Offered(s)[n] = "current" => /\ n = Len(Offered(s))
                                     /\ at[Other(s)] \notin {"absent", "pause"}

\* Two ends that read belong to the same connection; an end that reads while the
\* other makes a new attempt has a dead connection, and the offer that it once
\* dialled with is worth nothing any more.
SessionsMatch ==
    \A s \in Sides : at[s] = "read" =>
        IF at[Other(s)] = "read" THEN held[s] = "current"
                                ELSE held[s] = "spent" /\ broken

\* "run keeps a connection to this peer alive, retrying on failure" (mesh.go:429):
\* once nothing more goes wrong, the two ends are connected and stay so.
Connects == <>[](\A s \in Sides : at[s] = "read" /\ ~broken)

=============================================================================
