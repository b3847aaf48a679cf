---------------------------- MODULE MessageChannel ----------------------------
(***************************************************************************)
(* What a pair of cross domain messengers promises in one direction: the    *)
(* target is called with messages that were sent on the other side and with *)
(* each of them at most once, in any order.                                 *)
(***************************************************************************)
EXTENDS Naturals, Sequences

VARIABLES
    sent,       \* the messages sent, each with a nonce of its own
    delivered   \* the messages whose call to the target succeeded, in order

Elements(s) == {s[i] : i \in DOMAIN s}

Init == sent = <<>> /\ delivered = <<>>

Send(m) ==
    /\ m \notin Elements(sent)
    /\ sent' = Append(sent, m)
    /\ UNCHANGED delivered

Deliver(m) ==
    /\ m \notin Elements(delivered)
    /\ delivered' = Append(delivered, m)
    /\ UNCHANGED sent

Next ==
    \/ \E m \in Elements(sent') : Send(m)
    \/ \E m \in Elements(sent) : Deliver(m)

Spec == Init /\ [][Next]_<<sent, delivered>>
=============================================================================
