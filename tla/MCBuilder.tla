----------------------------- MODULE MCBuilder -----------------------------
(* Builder for two senders: the second order of a does not pay a high base *)
(* fee, the others do.                                                     *)
EXTENDS Builder

CONSTANTS a, b

TwoSenders == {a, b}
ThreeOrders == {[sender |-> a, nonce |-> 0, cap |-> 2],
                [sender |-> a, nonce |-> 1, cap |-> 1],
                [sender |-> b, nonce |-> 0, cap |-> 2]}
=============================================================================
