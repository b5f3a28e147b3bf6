--------------------------- MODULE SecureChannel ---------------------------
(***************************************************************************)
(* One direction of one peer connection: the `sealer` of                   *)
(* client/engine/crypto.go at both ends and the datagrams between them.    *)
(* Several goroutines of the sender seal frames (datapath, mesh pings,     *)
(* replies); they share sendCtr under a lock, but encrypt and write        *)
(* outside it.  The network keeps every datagram and may show it to the    *)
(* receiver at any time, again and in any order, or never.                 *)
(*                                                                         *)
(* A sealed frame is its counter and its plaintext: a datagram that fails  *)
(* authentication changes nothing at the receiver and is left out.  The    *)
(* 64-bit bitmap `window` is the set of its bit positions, so W is both    *)
(* the width of the window and of the word that `<<=` shifts bits out of.  *)
(***************************************************************************)
EXTENDS Integers, FiniteSets

CONSTANTS
    Frames,     \* the frames to send, each once
    Threads,    \* sending goroutines
    W           \* 64 in the code

ASSUME WidthAssumption == W \in Nat \ {0}

VARIABLES
    sendCtr,    \* the next counter of the sending sealer
    sealing,    \* datagrams taken a counter for and not yet written
    network,    \* datagrams written to the connection
    highest,    \* the highest counter the receiver has accepted
    window,     \* d \in window: counter highest - d has been accepted
    opened,     \* history: the datagrams whose frame the receiver passed on
    passes      \* history: how often each frame was passed on

vars == <<sendCtr, sealing, network, highest, window, opened, passes>>

Datagram == [ctr : Nat, frame : Frames, by : Threads]

TypeOK ==
    /\ sendCtr \in Nat
    /\ sealing \subseteq Datagram
    /\ network \subseteq Datagram
    /\ highest \in Nat
    /\ window \subseteq 0 .. W - 1
    /\ opened \subseteq Datagram
    /\ passes \in [Frames -> Nat]

Init ==
    /\ sendCtr = 0
    /\ sealing = {}
    /\ network = {}
    /\ highest = 0
    /\ window = {}
    /\ opened = {}
    /\ passes = [f \in Frames |-> 0]

-----------------------------------------------------------------------------
(* Sender *)

FramesIn(datagrams) == {g.frame : g \in datagrams}

\* Mutation: without the lock, whoever begins while another goroutine seals
\* reads the counter that one has read.
TakeUnlocked(t, f) ==
    /\ f \notin FramesIn(sealing \cup network)
    /\ \A g \in sealing : g.by # t
    /\ LET read == IF sealing = {} THEN sendCtr ELSE sendCtr - 1
       IN  /\ sealing' = sealing \cup {[ctr |-> read, frame |-> f, by |-> t]}
           /\ sendCtr' = read + 1
    /\ UNCHANGED <<network, highest, window, opened, passes>>

\* seal, the part under s.mu
Take(t, f) ==
    /\ f \notin FramesIn(sealing \cup network)
    /\ \A g \in sealing : g.by # t
    /\ sealing' = sealing \cup {[ctr |-> sendCtr, frame |-> f, by |-> t]}
    /\ sendCtr' = sendCtr + 1
    /\ UNCHANGED <<network, highest, window, opened, passes>>

\* seal after the lock, and the write to the connection
Write(g) ==
    /\ g \in sealing
    /\ sealing' = sealing \ {g}
    /\ network' = network \cup {g}
    /\ UNCHANGED <<sendCtr, highest, window, opened, passes>>

-----------------------------------------------------------------------------
(* Receiver *)

\* Mutation: the shift forgets the mark of the former highest counter.
ShiftedShort(shift) == {d + shift : d \in window \ {0}} \cap (0 .. W - 1)

\* s.window <<= shift in a word of W bits (0 when shift >= W)
Shifted(shift) == {d + shift : d \in window} \cap (0 .. W - 1)

\* Mutation: one counter too many is taken for too old.
TooOldByOne(ctr) == highest - ctr >= W - 1

TooOld(ctr) == highest - ctr >= W

\* Mutation: the bit that tells a duplicate is looked up one place off.
SeenOffByOne(ctr) == highest - ctr + 1 \in window

Seen(ctr) == highest - ctr \in window

Refused(ctr) == ctr <= highest /\ (TooOld(ctr) \/ Seen(ctr))

\* open returns the plaintext and readLoop passes it on
PassOn(g) ==
    /\ opened' = opened \cup {g}
    /\ passes' = [passes EXCEPT ![g.frame] = @ + 1]

\* acceptCounter answers TRUE
Ahead(g) ==
    /\ g.ctr > highest
    /\ window' = Shifted(g.ctr - highest) \cup {0}
    /\ highest' = g.ctr
    /\ PassOn(g)
    /\ UNCHANGED <<sendCtr, sealing, network>>

Within(g) ==
    /\ g.ctr <= highest
    /\ ~Refused(g.ctr)
    /\ window' = window \cup {highest - g.ctr}
    /\ PassOn(g)
    /\ UNCHANGED <<sendCtr, sealing, network, highest>>

Accepts(g) == g \in network /\ (Ahead(g) \/ Within(g))

\* acceptCounter answers FALSE: open reports an error, the frame is dropped
Rejects(g) ==
    /\ g \in network
    /\ Refused(g.ctr)
    /\ UNCHANGED vars

Next ==
    \/ \E t \in Threads, f \in Frames : Take(t, f)
    \/ \E g \in sealing : Write(g)
    \/ \E g \in network : Accepts(g)
    \/ \E g \in network : Rejects(g)

Spec == Init /\ [][Next]_vars

-----------------------------------------------------------------------------
(* Properties *)

Accepted == {g.ctr : g \in opened}

\* The counter is the AEAD nonce: no two frames of a connection are ever
\* sealed under the same one, however the sending goroutines interleave.
NoncesUnique ==
    \A g, h \in sealing \cup network : g.ctr = h.ctr => g = h

\* The bitmap says exactly which of the last W counters were accepted, across
\* every shift, and nothing beyond the highest was.
WindowExact ==
    /\ \A c \in Accepted : c <= highest
    /\ \A d \in 0 .. W - 1 : d \in window <=> highest - d \in Accepted

\* A datagram is turned away only if its frame was already passed on or it is
\* at least W counters behind: reordering within the window loses nothing.
NoFalseReject ==
    \A g \in network :
        Refused(g.ctr) => g \in opened \/ highest - g.ctr >= W

Channel == INSTANCE AtMostOnce WITH
    sent <- FramesIn(sealing \cup network),
    handed <- passes

\* A frame reaches the receiving datapath at most once, although the network
\* repeats datagrams: the connection implements an at-most-once channel.
DeliversAtMostOnce == Channel!ChannelSpec

=============================================================================
