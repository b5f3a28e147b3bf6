----------------------------- MODULE AtMostOnce -----------------------------
(***************************************************************************)
(* A channel that hands each frame over at most once, in any order, and    *)
(* never one that was not sent.  SecureChannel implements it.              *)
(***************************************************************************)
EXTENDS Naturals

CONSTANT Frames

VARIABLES
    sent,       \* frames given to the channel
    handed      \* handed[f]: how often f came out of it

channelVars == <<sent, handed>>

ChannelInit == sent = {} /\ handed = [f \in Frames |-> 0]

Send(f) ==
    /\ f \notin sent
    /\ sent' = sent \cup {f}
    /\ UNCHANGED handed

Hand(f) ==
    /\ f \in sent
    /\ handed[f] = 0
    /\ handed' = [handed EXCEPT ![f] = 1]
    /\ UNCHANGED sent

ChannelNext == \E f \in Frames : Send(f) \/ Hand(f)

ChannelSpec == ChannelInit /\ [][ChannelNext]_channelVars

=============================================================================
