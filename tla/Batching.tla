------------------------------ MODULE Batching ------------------------------
(***************************************************************************)
(* What the sequencer promises the proposer of its batches: a batch grows  *)
(* by the block that was built for it, of its own anchor, and is handed    *)
(* over once, whole, and never while a block that may join it is being     *)
(* built.  When something is lost, everything is.                          *)
(***************************************************************************)
EXTENDS Integers

CONSTANT None         (* nothing open, nothing being built                 *)

VARIABLES
  open,               (* the open batch: its anchor, its ends, its length  *)
  building,           (* the block being built and its anchor              *)
  pending             (* how many batches wait for the proposer            *)

vars == <<open, building, pending>>

Init == open = None /\ building = None /\ pending = 0

Begin ==
  /\ building = None
  /\ building' \in [block: Nat, anchor: Nat]
  /\ UNCHANGED <<open, pending>>

Joined ==
  IF open = None
  THEN [anchor |-> building.anchor, start |-> building.block,
        end |-> building.block, len |-> 1]
  ELSE [open EXCEPT !.end = building.block, !.len = @ + 1]

HandedOver == open' = None /\ pending' = pending + 1

(* The block is finished, or dropped.                                      *)
Seal ==
  /\ building # None
  /\ open # None => open.anchor = building.anchor
  /\ building' = None
  /\ HandedOver \/ (open' = Joined /\ UNCHANGED pending)

Drop ==
  /\ building # None
  /\ building' = None
  /\ (open # None /\ HandedOver) \/ UNCHANGED <<open, pending>>

HandOver ==
  /\ building = None /\ open # None
  /\ HandedOver
  /\ UNCHANGED building

Finish ==
  /\ pending > 0 /\ pending' = pending - 1
  /\ UNCHANGED <<open, building>>

Fail == open' = None /\ building' = None /\ pending' = 0

Next == Begin \/ Seal \/ Drop \/ HandOver \/ Finish \/ Fail

Spec == Init /\ [][Next]_vars

=============================================================================
