----------------------------- MODULE MCProposer -----------------------------
(* The proposer on two L2 chains and their prefixes.  The anchors of Down  *)
(* go down and up again: its blocks of anchor 1 are no run.  The second    *)
(* block of Large does not fit with the first.  Bound: one inclusion on L1 *)
(* of blocks of Down, two and a reorg with Large.                          *)
EXTENDS Proposer

Chain(anchors, sizes) ==
  [i \in DOMAIN anchors |-> [anchor |-> anchors[i], size |-> sizes[i]]]

Down == Chain(<<1, 0, 1>>, <<1, 1, 1>>)
Large == Chain(<<0, 0>>, <<1, 3>>)

MCBound ==
  \/ IsPrefix(blocks, Large)
  \/ IsPrefix(blocks, Down) /\ nonce <= 1 /\ ~l1_reorged

=============================================================================
